# A verification of yjs-go

TLA+ models of yjs-go, a Go implementation of the Yjs CRDT, checked with TLC, and
theorems about them proved with TLAPS. Line numbers refer to the sources of this
repository.

## What the system is made of

| Component | State it keeps | Operations | What makes it correct |
|---|---|---|---|
| Store and lists: `store.go`, `id.go`, `item.go`, `integrate.go`, `delete.go` | per client a slice of items by clock; per type a linked list; a set of deleted ranges | `getState`, `getItem`, `addItem`, `integrateItem`, `splitAtClock`, `applyDeleteRange` | an ID names one character; the content is a function of the set of updates applied; the order is the same everywhere |
| `Text` (`text.go`) | the first item of its list | `Insert`, `Delete`, `String`, `Len` | to its own user, a string buffer |
| `Map` (`map.go`) | per key the first item of its list | `Set`, `Delete`, `Get` | readers agree on the value of a key; what others set only goes up |
| `Array` (`array.go`) | the first item of its list | `Push`, `Insert`, `Delete` | to its own user, a sequence; nothing is lost from it or moved in it |
| Updates: `encoding.go`, `protocol/update.go` | none | encode a transaction, a state vector, what a state vector lacks | what is decoded is what was encoded; nothing is left out |
| Transactions: `Transact`, `ApplyUpdate`, `OnUpdate` (`doc.go`) | the open transaction, the handlers | open, edit, commit, announce; apply; subscribe, unsubscribe | every edit is announced, once, in order, to every handler |
| `Awareness` (`awareness.go`) | per client a state and its clock; handlers | set, set a field, remove, encode, apply | a state is one its client set; the newest comes to win; handlers know who has a state |
| Codec (`protocol/varint.go`, `protocol/update.go`) | none | write, read | read inverts write; what is cut off is refused |
| Sync messages (`protocol/sync.go`) | none | write the three messages, read one | messages come out of a stream whole and in order |
| WebSocket client (`transport/ws.go`) | a connection, handlers | `Connect` with handshake, `receiveLoop`, `Close` | no edit falls between handshake and forwarding; closing ends |
| Relay (`transport/relay.go`) | per room a Doc and the connected clients | register, answer step 1, apply, broadcast | connected clients come to agree |
| `XmlFragment` (`xmlfragment.go`) | a list | `Len` | nothing changes it in this version |

How they interact. An edit of a type runs inside `Doc.Transact`: it reads
`Doc.currentTx` under the lock, releases the lock, takes it again, changes store and
list and appends to the transaction. At the end of `Transact` the transaction is
encoded and the update handlers are called without the lock; the WebSocket client
registers one that sends the update to the relay, which applies it to the Doc of its
room and sends it to the other clients, whose receive loop calls `ApplyUpdate` on a
goroutine of its own. Peers that connect exchange state vectors (step 1) and the
items these lack (step 2).

What is hard: several goroutines on one Doc with the lock released within an edit and
within `ApplyUpdate`, within `SetLocalStateField` and during a broadcast; updates that come twice, or in another order than they depend on
each other; deletions that come before what they delete; items split by local edits and
by remote ranges; the end of a state vector falling within an item; saving and restoring
a document; connections that break within a handshake, reconnections that overlap with
the end of the old connection, a relay that comes back empty, full links. `hazards` in `PROJECT.json` lists them by line.

## The modules

The document and its peers:

* **SortSearch**: `sort.Search` as a bisection, because the code also calls it on slices
  that are not sorted. **Loops**: a loop over a slice, and the elements of a slice that are in
  a set, as recursive functions that the proofs can unfold, which `SelectSeq` is not.
  **LoopProofs** has what the bisection returns, and the induction and recursion that
  this and the other proofs rest on.
* **Document**: one Doc as a value, and the functions that transform it: store, lists,
  integration, splits, the edits of `Text`, `Array` and `Map`, updates. Names are those
  of the code. A pointer to an item is an index into a heap, because two items can carry
  the same ID. A string is a sequence of characters, a character is a number. Every split
  is there. A slice expression out of range sets `panic`. A key of a Map is a list of its
  own, of which the first item is the value.
* **Replicas**: peers with a Doc each that open transactions, announce updates, receive
  them in any order across senders, also again, and exchange states. One goroutine drives
  a Doc here. **TextReplicas** adds the edits of one Text, **CollectionReplicas** those of
  an Array and of the keys of a Map. **StringBuffer** is what a Text promises to its user
  (and its splices are what an Array promises).
* **MCTextReplicas**, **MCCollectionReplicas**: instances for TLC, with the refinement
  from TextReplicas to StringBuffer.
* **ReplicasProofs** has the lemmas about the functions of Document and the invariant of
  Replicas, **OrderProofs** those about the order of the items of a list;
  **CollectionReplicasProofs** and **TextReplicasProofs** what the edits of their types do to
  both, and the theorems.

One Doc under several goroutines:

* **DocTransactions**: the transactions of one Doc. An edit is known by the clock it
  takes; what it does to the document is left to Document. **MCDocTransactions** has the
  instances, **DocTransactionsProofs** the theorems.

The transport:

* **Relay**: one room, the clients that connect to it and the links between, with what can
  break. A Doc is what the exchange needs of it: per client the slice of its edits. An edit
  has a clock, which is its ID, and a number, which tells what edit it really is: the two
  come apart when a gap in a slice is sent, because only the first clock is on the wire
  (`protocol/update.go:597`). **MCRelay** has the instance. The theorems are in **RelayProofs**:
  types, handshakes and updates that reach members first, then what holds while `clean` does.
* **Codec**: the wire format byte for byte, as readers and writers of sequences of bytes.
  **SyncStream**: one side encodes values and writes messages, the stream ends somewhere,
  the other side reads byte by byte and decodes. **MessageQueue** is what that promises.
  **MCSyncStream** has the inputs.

Presence:

* **Awareness**: peers with an Awareness each, several goroutines per peer, and a network
  that keeps every update that was encoded. **MCAwareness** has the instance,
  **AwarenessProofs** the theorems.

A definition whose comment begins with "Mutant" is a plausible mistake in the definition
after it. No specification uses it: the mutation runs of `PROJECT.json` put it in the place
of the original to see that a property notices.

Replicas and the code:

| State or action | Code |
|---|---|
| `doc[r]` | the `Doc` of peer `r`: store, delete set, lists |
| `tx[r]` | `pendingItems` and `pendingDeletes` of the open transaction |
| `announced[r]` | the updates the handlers of `r` were called with |
| `got[r][s]` | the updates of `s` that were applied at `r` |
| `TextInsert`, `TextDelete` | `Text.Insert`, `Text.Delete`; they open the transaction |
| `ArrayPush`, `ArrayInsertAt`, `ArrayDeleteAt` | `Array.Push`, `Insert`, `Delete` |
| `MapSet`, `MapDeleteKey` | `Map.Set`, `Map.Delete` |
| `Commit` | the end of `Transact` |
| `Deliver` | `ApplyUpdate` from the receive loop of a connection, in the order of the sender; an update may come again |
| `Sync` | step 1 from `r`, step 2 from `s` |

DocTransactions and the code: a call is one execution of `Transact` or `ApplyUpdate`.

| Action | Code |
|---|---|
| `Enter` | `Transact` opens a transaction, or finds one open (`doc.go:163-172`) |
| `EditRead`, `EditWrite` | the two locks of an edit (`text.go:35-37`, `43-81`; the same in `map.go` and `array.go`) |
| `FnPanics` | the function panics and `Transact` has no deferred call |
| `Commit`, `NestedReturn` | the function returns |
| `CopyHandlers`, `Fire`, `Return` | handlers are copied under the lock and called without it |
| `ApplyBegin`, `ApplyEnd` | the two ends of `ApplyUpdate`, which set and clear `currentTx` |
| `OnUpdate`, `Unsubscribe` | registration and its undo |

Relay and the code: the connection `<<c, n>>` is the n-th call of `Connect` of client `c`.

| State or action | Code |
|---|---|
| `room`, `members` | `Room.doc`, `Room.clients` |
| `phase[k]` | how far `Connect`, `receiveLoop` and `Close` of `k` are: the message the handshake waits for, `"synced"` before the handler is registered, `"live"` with it |
| `cast[k]` | history: the IDs of the updates the relay read while `k` was in `Room.clients` |
| `srv[k]`, `outbox[k]` | how far `ServeHTTP` of `k` is, and the writes it has yet to make before it reads again |
| `up[k]`, `down[k]` | the messages under way; a write blocks while `Cap` of them are |
| `Dial`, `AnswerStep1`, `ReceiveStep2`, `HandshakeFails` | `Connect` and `syncHandshake` (`ws.go:52-148`) |
| `Register`, `Receive`, `LoopEnds`, `Close` | `ws.go:88-96`, `receiveLoop`, `Close` |
| `Greet`, `Join`, `ReadStep1`, `ReadStep2`, `ReadUpdate`, `Send`, `Leave` | `ServeHTTP` (`relay.go:120-191`) |
| `Edit` | a transaction of the user and the update handler of each live connection |
| `Break`, `Restart` | the network; `Shutdown` and a new relay at the same address |

Awareness and the code:

| State or action | Code |
|---|---|
| `states[p]` | `Awareness.states` of peer `p` |
| `call[p][t]` | what goroutine `t` is in: between the two locks of `SetLocalStateField`, or on its way to call handlers |
| `view[p]` | what the handlers of `p` were told was added and not removed |
| `SetLocalState`, `Remove` | `SetLocalState` with a state, and with nil (`Destroy`) |
| `CopyState`, `StoreField` | the two locks of `SetLocalStateField` (`awareness.go:81-89`, `90`) |
| `EncodeUpdate` | `EncodeUpdate`, `EncodeAwarenessUpdate`; a state that `json.Marshal` refuses is written as null |
| `ApplyUpdate`, `ApplyTruncated` | `ApplyUpdate`; the data ends within an entry |
| `CallHandlers` | the loop over the handlers, without the lock |

SyncStream and the code: `Encode` is `EncodeUpdateV1` or `EncodeStateVectorV1`,
`WriteMessage` a writer of `sync.go`; `ReadVarByte` is one turn of the loop of
`ReadVarUint`, `ReadPayload` the `io.ReadFull` of `ReadVarBytes`, `ReadFails` an error of
either; `part` holds the local variables of these functions.

History variables. `wrote`, `removed`, `meant`, `alone` and `ordered` in Awareness,
`clean` and `cast` in Relay, `sent` and `lost` in SyncStream are history: they record what
the properties speak of, and no guard reads them (but for the bound on messages).
`by`, `wrote`, `since`, `overlap`, `retired` in DocTransactions and `causal`, and `text`
and `seen` in `announced`, are history: no guard but those on the order of the calls of
a goroutine and on new handler IDs reads them.

## The runs

| Run | Question | Bounds |
|---|---|---|
| `text_local` | Is a Text a string buffer to its only user? `ImplementsBuffer` is the refinement, `EditsHitTheirIndex` says for each call which splice it is, `LenIsTheText` relates clocks to characters. | one peer; strings of 1 to 3 characters, deletions of 1 and 2, indexes to one beyond the end; 4 characters, 2 deletions, 3 edits a transaction |
| `text_viewers` | Does each update take a viewer from a version the writer showed to the next one, also when updates come again? Do viewers catch up? Does a snapshot keep what was typed? | a writer and a viewer; 3 characters, 2 deletions (of 1 or 2 characters), 2 repeated deliveries, one state exchange |
| `text_peers` | Does a store depend only on which updates were applied? Are IDs unique? Is any item lost from the text? Does a state exchange catch up? | two writers and a third peer, any order across senders; 3 characters, one deletion, one state exchange |
| `doc_transactions` | Is every edit announced, once, in order, to every handler, and never refused? | two goroutines, two calls of `Transact` with up to two edits each, one of `ApplyUpdate`, one handler that comes and goes, panics |
| `collections` | Does an Array lose or move an item? Do its edits hit their index? Which value does a key show, and what may change it? | two writers and a reader; an Array and a key; 3 values, inserted one or two at a time, one deletion |
| `relay` | Does what the relay read reach who is connected? Does a handshake fetch what was missed, and bring what was done offline? Are slices without gaps? Does anyone wait for good? | two clients, two connections each, three in all, two edits, links that hold one message, one break or close, one restart |
| `awareness` | Is a state one that its client set? Does one go back? Does the newest arrive? Is the local state what its own calls make of it? What do handlers know? | two peers with two goroutines each, two fields, one of which cannot be encoded, two calls that change a state, three updates of several clients |
| `codec` | Is every value read as it was written, in order, however the stream ends? Is a part ever read as a whole? | integers of 15 bits, about 120 values: every content, every kind of any value, every combination of optional fields, one and two clients, delete sets; a second message; the stream ends after any byte |
| `text_convergence` | Do peers with the same updates show the same text? They do not. | two writers, 3 characters |
| `text_snapshot` | Does a restored document show the same text? It does not. | one writer, 3 characters, a deletion |
| `text_clock_reuse` | Is a clock used once? It is not. | one writer, strings of 1 or 2 characters, a deletion |
| `doc_lost_edit` | Is every edit announced, whatever overlaps? It is not. | two goroutines, a `Transact` with one edit and an `ApplyUpdate` |

Why the bounds are enough. Three items are the fewest for which an item is inserted
between two others that come from elsewhere; two writers and a third peer are the fewest
for which the updates of two senders cross and for which a reader has an update whose
cause it lacks. A string of three characters is the shortest that a deletion can strike
in the middle, which needs both splits. Two repeated deliveries repeat an insertion and
the deletion that undid it. One overlap of two calls shows what `currentTx` suffers; the
third call makes nesting in an orphaned transaction possible. In `collections` three
values and a deletion are the fewest with which two peers insert beside a tombstone that
only one of them has; the third peer has both orders of arrival. In `relay` two clients
with three connections have one that is connected while the other breaks off, edits
offline and comes back while its old goroutine in the relay still lives; links of one
message make every write block. In `awareness` two calls let one be overtaken, repeated
or interrupted by the other, and an echo come after a removal; two goroutines are the
fewest that interrupt each other. In `codec` the width of an integer is the parameter
`Bits`: of 64 bits the tenth byte of a varuint carries one, and of 15 bits the third byte
carries one, so the last byte is at the same kind of boundary; one, two and three bytes
occur, both signs, and lengths beyond 127. The proofs have no bounds.

TLC runs stop at their bounds, and users owe nothing, so deadlock is not checked.

Conditions in properties. `NoItemLost` of TextReplicas is about causal order and no
deletions (that of CollectionReplicas, whose lists keep their tombstones, is about causal
order only), and
`NoEditLost` and `NoEditRefused` about calls that do not begin within the transaction of
another, because without these conditions the code breaks the statements (see below).
The conditions are satisfied by most of the states of the runs, and what is checked under
them still meets tombstones, panics and repeated updates. In `text_peers` strings have
one character, so that the split that reuses a clock (`text_clock_reuse`) does not occur:
what is left for `IdNamesOneChar` there is the reading of the next clock while updates and
states of other peers arrive. `NothingMissed`, `OwnEditsForwarded`, `NoGaps` and the last
part of `Settles` hold while `clean` does. It names the three things in the code that part
the edits of clients for good, and each of the four fails without it: an edit between the
answer to step 1 and the registration of the handler (`ws.go:88`), a step 2 that brings the
room something while others are connected (`relay.go:172`), and an update of a client that
is read while the goroutine of an older connection of this client still has updates to
send (`relay.go:188`). `UpdatesReachMembers` has no such condition. It speaks of IDs, and of the
clients that were connected when the relay read the update, for a reason that more than two
edits bring up (a version about edits, which the two of the run cannot refute, fails with
three): once a gap in a slice was sent, its items have the wrong clocks, and a client that holds
an item with the ID of a new edit drops the edit (`integrate.go:8`) and has no way to learn
of it. In Awareness, `removed`,
`alone` and `ordered` name a removal, after which clocks start again at 0 (`awareness.go:54`),
a `SetLocalStateField` that was interrupted or an echo after a removal, and goroutines that
changed one client at once or an update that failed midway. A state that is never changed
has clock 0, which no peer takes for news: `NewestArrives` says nothing of it. `Converged`
of values is stated as `ReadersSeeTheHighest` for peers that do not set the key themselves.

Fairness. `FairSpec` of TextReplicas assumes that an open transaction ends and that an
announced update is handed to every other peer: transaction functions return, and a
connection that is up delivers. `FairSpec` of DocTransactions assumes that a goroutine
that is within `Transact` or `ApplyUpdate` goes on, as Go's scheduler has it, and that
functions and handlers return. `FairSpec` of Relay assumes that some step of a goroutine of
the library is taken as long as one can be, which is what a scheduler and a network that
moves messages give together; it does not favour any connection, and `Settles` needs no
more, because between dials, edits and breaks the goroutines only finitely often find
something to do. `FairSpec` of Awareness assumes that goroutines go on, that a peer encodes
its state after changing it, and that of the updates that would be news to a peer one
arrives at last when they keep being there (strong fairness, because goroutines that would
apply it can be busy for a while); without delivery nothing could arrive. `FairSpec` of
SyncStream assumes that the reader reads on. Edits, panics, subscriptions and repeated deliveries are
never owed.

## Where code and documentation differ

* **Peers do not always converge** (`text_convergence`). README.md:5 and 50 promise it.
  `lssIsBefore` (`integrate.go:115`) orders items by the clocks of their origins without
  the clients of these, and `OriginRight` is never set.
* **A snapshot does not keep deletions** (`text_snapshot`). `EncodeStateAsUpdate`
  (`encoding.go:204`) writes an empty delete set, and the deleted items among the others.
  doc.go:286 promises "the same state".
* **A clock can be used twice** (`text_clock_reuse`). `splitItemAt` (`text.go:293`)
  appends the right half at the end of the slice from whose last entry the next clock is
  taken. id.go:10 has an ID identify a struct uniquely.
* **An edit can be lost** (`doc_lost_edit`). `ApplyUpdate` (`doc.go:209`) replaces the open
  transaction of another goroutine. README.md:138 says that mutations are broadcast
  automatically.

Also, README.md:16 calls the straddle branch of `Text.Delete` (`text.go:115`) dead code;
`Delete` never calls `findPositionAt`, and `text_local` goes through the branch.

Further differences that modelling brought up and that properties state as conditions, or
that are outside the models:

* map.go:13 says that "Only the most-recent item per key (by clock) is live". The value of
  a key is the first of its list, and items without origin are ordered by client first, so
  the highest client wins, whatever the clocks (`ReadersSeeTheHighest` says which). A peer
  that sets a key drops the list of that key (`map.go:55`), so that it compares later values
  of others with fewer than they do.
* The README's example calls `Array.Insert` and `Delete` outside `Transact`, where both panic
  (`array.go:78`, `142`).
* README.md:138 says that local mutations are broadcast: see `clean` above for three ways in
  which one is not, until the next connection.
* awareness.go:93 says that `GetLocalState` gives nil if the state was removed. After a
  removal an old state of the client that comes back from another peer is taken over, and
  given. A removal is never on the wire (`awareness.go:132`), so other peers keep the state.
* A Map or Array value that is itself a slice is written as so many values
  (`protocol/update.go:710`) and read with that length, which shifts the clocks of the items
  after it; a slice of one value is read as the value. `ReadAs` in SyncStream says so.
* Contents 2 and 9 can be read and not written (`protocol/update.go:745`). A room that holds
  one cannot encode its state, and answers no step 1 (`relay.go:164`). An item whose parent is
  an item is written without parent if it has no origin (`encoding.go:86`), which a reader
  misreads. Both need a foreign document and are outside the inputs of `codec`.

## What is proved

**DocTransactionsProofs** is about `Spec` of DocTransactions, for all sets of goroutines,
calls and handlers and every number of edits. They assume what the module assumes of its constants:
calls of `Transact` and of `ApplyUpdate` are different things, and the nil transaction is
neither a call nor a goroutine.

* `TypeCorrect`: `TypeOK` is inductive. Besides types it says that an edit past its nil
  check holds a transaction.
* `AtMostOnce`: no handler is given an edit twice. `AnnouncedAtMostOnce` speaks of the
  updates in a log only; the invariant `OnceInv` adds that the lists of edits of different
  transactions are disjoint and lie below the clock (so that a new edit is in none of
  them), that an update is part of the list of its call, and that a handler that was
  called with an update is not among those the call has yet to call.
* `InOrder`: a handler gets the edits of one goroutine in the order of their clocks.
  `OrderInv` adds that a goroutine has one call under way and that all edits in the list of
  that call are younger than all edits the goroutine announced before; that needs the bound
  of the lists by the clock from `OnceInv`, and that the list of a call is empty before the
  call begins, because an edit only goes to transactions of calls that have begun. A handler
  that calls `Transact` itself is outside the model: the handlers after it would get the inner
  update before the outer one.
* `NothingLost` and `NothingRefused`: as long as no call begins within the transaction of
  another, edits find a transaction, and (unless a function panics) the end of `Transact`
  has announced exactly what its function wrote, to all handlers that stayed. `LossInv` says that
  there is at most one transaction then, that it is the current one exactly while its call
  is in it, that the list of a call is what it wrote, and how far the calls of the handlers
  have come. Panics leave a transaction behind: for them only the first part holds, that a
  call in a transaction finds one.

**AwarenessProofs** is about `Spec` of Awareness, for all sets of peers, goroutines and fields
and every number of calls and updates. It assumes that a missing entry, a null state and an
idle goroutine are told apart from entries, states and calls.

* `TypeCorrect`: `TypeOK` is inductive. The lemmas `StoreEffect` and `MergeEffect` say once what
  `SetLocalState` and `ApplyUpdate` do to the entries; the other proofs use them.
* `AuthenticStates`: what a peer holds of a client, that client set. Not inductive by itself,
  since entries come from the network: `AuthInv` adds that every entry in every update that
  was encoded is one its client set, or a null.
* `NeverGoesBack`: a step that changes the entry of another client takes one with a higher clock
  (`OthersChange`), so the theorem follows from `TypeOK` alone.
* `ClockNames`: two peers with the same clock for a client hold the same state. By `AuthInv` both
  states were set by the client; `ClockInv` adds that, until its first removal, a client set
  no two states at one clock and holds its highest, because no update can touch its entry.
* `LocalStateKept`: the property speaks of peers that are in no `SetLocalStateField`. `MineInv`
  carries it through one: as long as nothing interrupted, only one goroutine is in such a
  call, and it holds the state that the calls make.
* `HandlersInformed`: the property speaks of peers that have no handlers left to call. `KnowInv`
  says what holds before: of a client that no goroutine has yet to tell of, the handlers know
  how it stands; no two goroutines have to tell of the same client; and what each has to tell
  is so.

**LoopProofs** and the first part of **RelayProofs** are about functions. A recursive
function of the models is a `CHOOSE` of a function that satisfies its equation, so the first
thing to prove of one is that such a function exists. `IterationExists` proves it once, and
`Induction` is the induction that goes with it; a property is a set of numbers there and a step
is a function, because the library's theorems take both as operators, which the provers cannot
instantiate. `SearchInRange` and `SearchFindsFirst` say what the bisection returns on any slice and
on a sorted one. The lemmas of RelayProofs say what a Doc of Relay becomes by `ApplyUpdate`:
no item leaves it and every ID of the update is in it (`ApplyUpdateIds`), and a slice that is a
prefix of the edits, extended by a run of edits that begins within it or at its end, is the
longer prefix (`PrefixIntegrated`); and that what is sent beyond a state is such a run
(`BeyondPrefix`).

**RelayProofs** is about `Spec` of Relay, for all sets of clients, any number of connections, breaks,
restarts and edits, and links of any length of at least one.

* `TypeCorrect`: `TypeOK` is not inductive: a connection joins the room once because its goroutine
  runs once, and `Dial` may fill its link because nothing is on it. `Fresh` adds that nothing has
  happened to a connection that is not dialled.
* `UpdatesReach`: `UpdatesReachMembers` speaks of clients that are live. `CastReaches` says the same
  of every connection whose link is up, in whatever phase its handshake is: an update can come
  before the answer to step 1, and then the handshake fails and the link goes down. `OwnUpdates`
  adds that a client holds what it sends (so that the broadcast may leave it out), `CastTo`
  that nothing was cast to a connection before it joined, and `Protocol` how far the two sides of
  a connection can be apart and what can be under way then.
* `Handshake`, which is proved for the second part, is `Protocol` and that each
  step 1 is asked once and its answer is posted, under way or read, one after the other.

The second part of RelayProofs is about the same `Spec`, while `clean` holds. `CleanInv` is inductive
(`StaysSound`); its parts are

* every Doc is a prefix of the edits of each client (`WholeDocs`), and every message is, per client,
  a run of consecutive edits that its sender holds (`Loads`), an update a run of the edits of its client;
* each run that goes down to a client joins what the client will hold when it comes to read it:
  the edit before the run is in its Doc or in an earlier message (`DownJoins`; `UpJoins` on the way up); for
  what a goroutine has yet to send, it is in the Doc, on the link, or in the answer to step 1, so
  that it does not matter which goroutine sends first (`PostsJoin`). A handshake that is bound to
  fail, because an update came before the answer, is exempt (`Doomed`);
* a state vector under way is no higher than the Doc it was made of (`Offers`), since Docs of clients
  only grow, and a restart of the relay ends every connection that has seen the old room;
* what the client edited is in the room or under way to it (`Forwarded`), and what the room holds is with the
  client, under way, or will be in the answer (`Fetched`).

Each of the three things `clean` names is needed at one place of this proof: an edit between the
answer and the registration breaks `Forwarded`, a step 2 with news breaks `Fetched`, and an
update that overtakes those of an older goroutine breaks `PostsJoin`. The theorems `DocsHaveNoGaps`,
`MembersMissNothing` and `EditsAreForwarded` follow from it. Before it was proved, TLC checked `CleanInv`
with the bounds of the run, and with links of two messages and three edits.

**ReplicasProofs** is about the documents of the peers, for items of one character. It has three parts.

*The functions of Document keep a document `Sound`*, and each lemma says what else becomes of
it. `Whole`: every item has one character and sits in the slice of its client at the place its
clock names, and the slices have nothing else (so that the bisection of `getItem` finds it and no
split happens). `Listed`: a pointer to the right leads to an item of the same list. `Ranked`: some
rank falls along every pointer, so there is no cycle, and every walk along a list ends and
meets an item once. The rank is only said to exist; linking an item gives
the items of its list new ones. `integrateItem` is proved to link an item between two neighbours of its list,
its origin or later items (or to leave it in no list, if its origin is in none); which place it is does not matter to
these theorems, but to those of OrderProofs. Edits and updates are then known by what they do as a whole:

* `Typed(d, e, c, n)`: an insertion adds `n` items of `c` at the end of its slice, and deletes nothing
  but earlier values of keys;
* `Cuts(d, result)`: a deletion marks just the items it lists, and no others;
* `Updated(d, e, u)` (`ApplyUpdateSound`): after `ApplyUpdate`, the items of the update are held, with
  what the update says of them, its ranges are in the delete set, and an item is deleted if it was
  or if the delete set has it. The hypothesis is `Readable`: the predecessor of each item is held or
  comes before it in the update.

*The invariant* is `Inv == Shape /\ Consistent(...)`, a conjunction for each peer:

* `Agrees`: its document is sound, and each of its items is held by the client of its ID, with
  the same character and origin there. This makes `IdNamesOneChar` inductive, which it is not by itself;
* `Sent`: what it announced consists of such items, each after its predecessor, in the update or an
  earlier one. It makes the updates `Readable`, given that `Deliver` keeps the order of a sender;
* `Opened`: the open transaction has the last items of its slice, the rest was announced;
* `Received`: it holds what the updates insert that it applied; `Complete`: until it has taken part in an
  exchange of states, nothing else;
* `Remembers`: its delete set is what the updates of others delete, and has been applied; `Erased`: what
  is deleted was deleted by such an update, by itself, or was the value of a key.

*The steps of Replicas keep it*: `CommitKeeps`, `DeliverKeeps`, `SyncKeeps`. An answer to a state vector is not
ordered by any sender; that it is readable follows from `Agrees`, since what one document lacks of
another is the end of each slice.

Before it was proved, TLC checked `Inv` on two peers, with an edit of each kind, one exchange of
states and one repeated delivery (574,286 states).

**OrderProofs** is about where items end up. `Row(d, l)` is the items of the list `l` from the first to the last; a
sound document has each item of a list in at most one row, once. Its lemmas go from one item to a whole update:

* `LinkedRow`: a row with an item linked in it is the row before with the item put in at that place (`PutIn`), so no
  item leaves it and no two change their order (`Widens`), and the other rows stay;
* the place that `integrateItem` finds is to the right of the origin, and an item without a list is put in that of
  its origin. Hence `Ordered` is kept: every item of an Array or a Text is in its row, to the right of what it was
  put after. The first item of a key gives way only to one with a higher ID (`Rises`), and if it had the highest of
  the items of the key it still has (`Topped`);
* `Orders(d, e, F)` is the three together, for a received item, for an update (`ApplyUpdate` adds the items one after
  another, and an induction over them gives the whole), and for a state. `F` says in which list each item was typed: on the
  wire an item with an origin does not name its list, and takes that of the origin;
* for insertions, `Lays(d, e, c, l, p, values, n)`: the values stand one after the other, after the first `p` items of the
  row, undeleted; the rest of the row and all other rows are what they were;
* what a list shows: `Picks(row, d, q)` says that `q` picks the live items from the row in their order, and `visible` spells
  the values of what is picked (`visibleSpells`). A run of live items that is put in the row after `p` items is put in
  what is picked after those of them that are live (`PicksGrafted`), and items that are marked leave what is picked
  (`PicksExcised`). Hence an edit of the row is an edit of what is shown: `LaysShows` and `CutsShowUpTo`, and
  `GraftsShow` for an insertion that replaces a stretch of deleted items of the row.

The invariant on top of `Inv` has two parts. `Arranged`: every document is `Ordered`, each of its items that is in a list is in
that in which its client typed it, and so do the updates say. `Causes`: as long as no states are
exchanged, what an announced update was typed after is in the update itself or in one its peer had applied; so, if all
came in causal order, nothing arrives before its origin and every item is in a list. An item that does come before its
origin is in none, and stays in none: that is what `causal` excludes, and why `NoItemLost` needs it.

**CollectionReplicasProofs** adds the edits of an Array and of the keys of a Map and proves, of `Spec` of
CollectionReplicas and for all sets of clients and keys and all bounds, `Consistency` (the invariant),
`CollectionTypes`, `CollectionIds`, `CollectionStore` and `CollectionCatchesUp`. That items have one value each
is proved there: `Array` and `Map` make one item per value. That a value counts one on both sides of the wire is
what the module assumes of its constants (`array.go` and `map.go` count values, not characters).
On top of them, from `Placement` (`Placed` is `Inv`, `Arranged` and `Causes`):

* `CollectionOrder`: `OrderIsStable`, since an edit and an update both broaden the row;
* `CollectionEdits`: `EditsHitTheirIndex`. `findItemAtIndex` returns the place in the row that divides the live items at
  the index (`Divides`), an insertion lays its values there (`Lays`), and a deletion marks the live items
  picked from the index on (`Cuts`): what is shown is spliced or cut at the index, as `StringBuffer` asks;
* `CollectionHasAll`: `NoItemLost`, since in causal order every item has found its list and `Ordered` places it;
* `CollectionSetsRise`: `RemoteSetsAreHigher`, from `Rises` and from the fact that no update undeletes an item;
* `CollectionReaders`: `ReadersSeeTheHighest`. `Reads` adds to the invariant what a peer has that does not set the key:
  its first item is the highest, and of its items only those are deleted that an update it has
  deletes. A peer that does set it deletes the value before, and shows its own whatever its ID: for it nothing
  of the kind holds.

**TextReplicasProofs** does the same for a Text: an insertion goes between two items that are neighbours
but for deleted ones, and the walk of `Text.Delete` marks each item it visits. `TextConsistency`, `TextTypes`,
`TextIds`, `TextStore` and `TextCatchesUp` assume `OneCharacter`: an edit types one character, of one UTF-16
code unit, which is how the runs `text_peers`, `text_viewers`, `text_convergence` and `text_snapshot` instantiate
`InsertLen` and `WideChar`. The hypothesis cannot be dropped: with longer strings a split gives
an ID to two characters, and the run `text_clock_reuse` shows what comes of it. `TextHasAll` is `NoItemLost`, which
speaks of texts in which nothing was deleted: `Quiet` is `Arranged` and `Causes` for as long as that is so, and that
no transaction and no update deletes anything (`Intact`). With deletions it does not hold: `Text.Insert` links its item
between two visible neighbours, and the deleted items between them leave the list.

What a Text shows is right nevertheless, from `Inv` alone and with any deletions:

* `TextEdits`: `EditsHitTheirIndex`. `positionBetween` returns two visible neighbours around the index, or an end of the
  list for one of them (`IsSlot`); all items of the row between them are deleted (`Spans`), so the row after the insertion is
  the row before with the new item instead of that stretch (`LinkedOver`, `Grafts`), and the new character is at
  the index (`Gap`, `GraftsShow`). The walk of `Text.Delete` counts visible items only (`Strides`) and marks those from the
  index on, so what is shown is cut there (`CutsShowUpTo`); it stops at the end;
* `TextLength`: `LenIsTheText`;
* `TextBuffer`: `ImplementsBuffer`, the refinement. The initial document shows the empty string (`EmptyShows`); an edit is
  one splice or one cut of `StringBuffer`, at the end if the index is beyond it (`EditsShow`, `BufferStep`);
  the end of a transaction is a stutter, and with one client nothing is delivered. It also assumes
  `Client = {Peer}`, which is what the refinement is about, and that `DeleteLen` is finite, since `MaxLen` is a maximum.

What a peer shows that only reads, and what a restored copy shows, relates the rows of two documents, which need not hold
the same items: `Text.Insert` of the writer drops the deleted items between two neighbours from its row, and the rows of its
viewers keep them. What they have in common is an order of places that the origins alone determine (`Weaves`): an item is right
after its origin, before everything that was there. The invariant is `Version`: whenever nobody but `w` has
inserted, deleted or announced anything (`Solo`), some such order `spot` of the clocks of `w` exists with which

* the row of every document ascends, and has all its undeleted items (`Lined`);
* the row of a viewer has all its items, and each comes from the one before it or from an item with a lower clock
  (`Tidy`): so `integrateItem` stops at the first candidate, and links what comes right after its origin (`PutsRight`);
* while no states are exchanged, `w` showed with each update the letters that its updates up to that one leave (`Told`).

When the writer types, the places after the new one move up (`ShiftedKeeps`, `AuthorTypes`); what comes to a
viewer is in order or held (`LoopTakes`, `UpdateTakes`), and an item that is held changes nothing (`LoopOfHeld`, `FadesKeeps`);
`InsertGoesOn`, `DeleteGoesOn`, `CommitGoesOn`, `DeliverGoesOn` and `SyncGoesOn` are the five kinds of steps. TLC checked
`Version` on two peers that may both write, before it was proved. From it follow

* `TextViewers`: `ViewersShowAVersion`. The updates that came are the first `n` (`FirstOnes`), the clocks of the undeleted
  items are those the `n` updates leave (`AliveClocks`), and a set of clocks spells one text (`SpeltOnce`);
* `TextSnapshot`: `SnapshotKeepsInsertions`, for at most one writer (`Writer \subseteq {w}`), as in `text_viewers`: the restored copy is
  a viewer that takes the whole state at once (`RestoredIs`, `RestoredShows`).

Only model-checked:

* `ViewersShowAVersion` of `collections`, of an Array and a Map: it needs the order of places for each list, and for
  a key, whose list a local `Set` drops, an invariant of its own;
* a Text with strings of several characters: `ImplementsBuffer`, `EditsHitTheirIndex` and `LenIsTheText` of
  `text_local`, for the reason above;
* the codec, whose readers and writers are RECURSIVE operators;
* liveness (`ViewersCatchUp`, `EditsReachHandlers`, `Settles`, `NewestArrives`, `EverythingRead`), for which
  the proof system has no means, as it has none for `ENABLED`.

## What is not modelled, and the plan

Not modelled: foreign documents with `OriginRight`, nested types, GC and Skip structs (the codec
reads and writes the last two); the observers of types, which are told nothing but the origin;
handlers that call back into the Doc or close their connection; races on the memory of items
and of the delete set (`doc.go:187`, `235`); wide characters in documents (`text.go:65`);
`ClientConn.Send` and the handlers of a connection, the answer to a late step 1, which this relay
never sends; `XmlFragment`, which nothing changes. The components `partly` modelled in
`PROJECT.json` say what they lack.

In the order of importance:

1. A theorem that states `ViewersShowAVersion` of CollectionReplicas, from the same order of places, list by list.
2. DocTransactions with handlers that call back, and with two `ApplyUpdate` at once.
3. Runs on longer items: remote ranges that overlap, splits within one's own transaction,
   wide characters (`WideChar`), for two peers.
4. A document with `OriginRight`, as other implementations send it, and what becomes of it here.
