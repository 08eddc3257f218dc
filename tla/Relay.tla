------------------------------- MODULE Relay --------------------------------
(***************************************************************************)
(* One room of the relay, the clients that connect to it, and what the     *)
(* network between them does.                                              *)
(*                                                                         *)
(* A Doc is what the exchange needs of it: per client the slice of its     *)
(* edits, in the order of the StructStore.  An edit is one item of length  *)
(* one.  Its clock is its ID; "edit" tells which edit it really is, and    *)
(* the two can come apart, because only the first clock of a client is on  *)
(* the wire.                                                               *)
(*                                                                         *)
(* The n-th call of Connect of client c makes the connection <<c, n>>.     *)
(* Messages go up and down each connection in order.  When a link breaks,  *)
(* the client reads no more, but the relay may still read what was sent.   *)
(*                                                                         *)
(* Left out: rooms do not interact; Send, with which a user forwards an    *)
(* update by hand; the step 1 that receiveLoop answers and the unreadable  *)
(* messages that ServeHTTP skips, which no peer modelled here sends.       *)
(***************************************************************************)
EXTENDS Integers, Sequences, SequencesExt, FiniteSets, SortSearch

CONSTANTS Client,
          Cap,           \* how many messages a link holds before a send blocks
          MaxConns,      \* bound: connections of one client
          MaxDials,      \* bound: connections of all clients
          MaxEdits,      \* bound: edits of all clients
          MaxBreaks,     \* bound: connections that break or are closed
          MaxRestarts    \* bound: restarts of the relay

ASSUME RelayAssumption == Cap \in Nat \ {0}

Conn == Client \X (1 .. MaxConns)

VARIABLES doc,      \* doc[c]: the Doc of client c
          room,     \* the Doc of the room
          members,  \* room.clients
          phase,    \* phase[k]: how far Connect, receiveLoop and Close of k are
          srv,      \* srv[k]: how far ServeHTTP of k is
          link,     \* link[k]: the connection is up
          up, down, \* up[k], down[k]: the messages under way
          outbox,   \* outbox[k]: what the goroutine of k in the relay has to send
          clean,    \* history: none of the three things happened that part the
                    \* edits of the clients for good: an edit between the reply to
                    \* step 1 and the registration of the handler; a step 2 that is
                    \* new to the room while other clients are connected; and an
                    \* update read while the goroutine of an older connection of the
                    \* same client still has updates to send
          cast,     \* history: cast[k]: the IDs in the updates that were read while
                    \* k was connected
          edits, breaks, restarts

clientVars == <<doc, phase>>
relayVars  == <<room, members, srv, outbox>>
netVars    == <<link, up, down>>
bounds     == <<edits, breaks, restarts>>
vars == <<clientVars, relayVars, netVars, clean, cast, bounds>>

-----------------------------------------------------------------------------
(***************************************************************************)
(* A Doc: the slices of the StructStore.                                   *)
(***************************************************************************)
Empty == [c \in Client |-> <<>>]

\* StructStore.getState
State(s) == IF s = <<>> THEN 0 ELSE Last(s).clock + 1

stateVector(d) == [c \in Client |-> State(d[c])]

\* StructStore.getItem, by bisection
Holds(s, clock) ==
    LET n == Search(Len(s), { i \in 0 .. Len(s) - 1 : s[i + 1].clock > clock })
    IN  n > 0 /\ s[n].clock = clock

\* Mutant: the search of Beyond takes the clocks above the state.
BeyondNext(s, state) == SelectSeq(s, LAMBDA it : it.clock > state)

\* The edits of one client beyond a state, as the reader numbers them.
Beyond(s, state) ==
    LET n    == Search(Len(s), { i \in 0 .. Len(s) - 1 : s[i + 1].clock >= state })
        rest == SubSeq(s, n + 1, Len(s))
    IN  [i \in DOMAIN rest |-> [rest[i] EXCEPT !.clock = rest[1].clock + i - 1]]

EncodeStateAsUpdate(d, sv) == [c \in Client |-> Beyond(d[c], sv[c])]

\* Mutant: what is stored already is not skipped.
integrateAgain(s, item) == Append(s, item)

integrateItem(s, item) == IF Holds(s, item.clock) THEN s ELSE Append(s, item)

\* The slice of one client after the items of an update, one after the other.
Integrated(s, items) ==
    LET after[n \in 0 .. Len(items)] ==
            IF n = 0 THEN s ELSE integrateItem(after[n - 1], items[n])
    IN  after[Len(items)]

ApplyUpdate(d, items) == [c \in Client |-> Integrated(d[c], items[c])]

Edits(s) == { s[i].edit : i \in DOMAIN s }

\* The IDs of the items of a Doc or an update.
Ids(items) == UNION { { <<c, items[c][i].clock>> : i \in DOMAIN items[c] } : c \in Client }

-----------------------------------------------------------------------------
Init ==
    /\ doc      = [c \in Client |-> Empty]
    /\ room     = Empty
    /\ members  = <<>>
    /\ phase    = [k \in Conn |-> "new"]
    /\ srv      = [k \in Conn |-> "new"]
    /\ link     = [k \in Conn |-> FALSE]
    /\ up       = [k \in Conn |-> <<>>]
    /\ down     = [k \in Conn |-> <<>>]
    /\ outbox   = [k \in Conn |-> <<>>]
    /\ clean = TRUE /\ cast = [k \in Conn |-> {}]
    /\ edits = 0 /\ breaks = 0 /\ restarts = 0

\* What is under way to the client of k is lost.
Cut(k) ==
    /\ link' = [link EXCEPT ![k] = FALSE]
    /\ down' = [down EXCEPT ![k] = <<>>]

(***************************************************************************)
(* A client: Connect, its handshake, receiveLoop and Close (ws.go).        *)
(***************************************************************************)
\* Dial, and the first message of syncHandshake.  The relay accepts.
Dial(k) ==
    /\ phase[k] = "new"
    /\ k[2] > 1 => phase[<<k[1], k[2] - 1>>] = "over"
    /\ Cardinality({ j \in Conn : phase[j] # "new" }) < MaxDials
    /\ phase' = [phase EXCEPT ![k] = "step1"]
    /\ srv'   = [srv EXCEPT ![k] = "accepted"]
    /\ link'  = [link EXCEPT ![k] = TRUE]
    /\ up'    = [up EXCEPT ![k] = <<[type |-> "step1", sv |-> stateVector(doc[k[1]])]>>]
    /\ UNCHANGED <<doc, room, members, outbox, down, clean, cast, bounds>>

\* The client of k reads a message of a type.
Reads(k, type) ==
    /\ link[k]
    /\ down[k] # <<>>
    /\ Head(down[k]).type = type
    /\ down' = [down EXCEPT ![k] = Tail(@)]

\* Mutant: the client answers with an empty update.
AnswerStep1Empty(k) ==
    /\ phase[k] = "step1"
    /\ Reads(k, "step1")
    /\ Len(up[k]) < Cap
    /\ up' = [up EXCEPT ![k] = Append(@, [type |-> "step2", items |-> Empty])]
    /\ phase' = [phase EXCEPT ![k] = "step2"]
    /\ UNCHANGED <<doc, relayVars, link, clean, cast, bounds>>

AnswerStep1(k) ==
    /\ phase[k] = "step1"
    /\ Reads(k, "step1")
    /\ Len(up[k]) < Cap
    /\ up' = [up EXCEPT ![k] = Append(@,
                 [type |-> "step2",
                  items |-> EncodeStateAsUpdate(doc[k[1]], Head(down[k]).sv)])]
    /\ phase' = [phase EXCEPT ![k] = "step2"]
    /\ UNCHANGED <<doc, relayVars, link, clean, cast, bounds>>

ReceiveStep2(k) ==
    /\ phase[k] = "step2"
    /\ Reads(k, "step2")
    /\ doc' = [doc EXCEPT ![k[1]] = ApplyUpdate(@, Head(down[k]).items)]
    /\ phase' = [phase EXCEPT ![k] = "synced"]
    /\ UNCHANGED <<relayVars, link, up, clean, cast, bounds>>

\* Mutant: a message that is not the one expected is waited out.
HandshakeWaits(k) ==
    /\ phase[k] \in {"step1", "step2"}
    /\ ~link[k]
    /\ phase' = [phase EXCEPT ![k] = "over"]
    /\ Cut(k)
    /\ UNCHANGED <<doc, relayVars, up, clean, cast, bounds>>

\* The connection is gone, or a message comes that is not the one expected.
HandshakeFails(k) ==
    /\ phase[k] \in {"step1", "step2"}
    /\ link[k] => down[k] # <<>> /\ Head(down[k]).type # phase[k]
    /\ phase' = [phase EXCEPT ![k] = "over"]
    /\ Cut(k)
    /\ UNCHANGED <<doc, relayVars, up, clean, cast, bounds>>

\* The update handler is registered and receiveLoop starts.
Register(k) ==
    /\ phase[k] = "synced"
    /\ phase' = [phase EXCEPT ![k] = "live"]
    /\ UNCHANGED <<doc, relayVars, netVars, clean, cast, bounds>>

Receive(k) ==
    /\ phase[k] = "live"
    /\ Reads(k, "update")
    /\ doc' = [doc EXCEPT ![k[1]] = ApplyUpdate(@, Head(down[k]).items)]
    /\ UNCHANGED <<phase, relayVars, link, up, clean, cast, bounds>>

\* receiveLoop ends by itself.  The handler stays registered until Close, but
\* what it sends is lost.
LoopEnds(k) ==
    /\ phase[k] = "live"
    /\ ~link[k]
    /\ phase' = [phase EXCEPT ![k] = "over"]
    /\ UNCHANGED <<doc, relayVars, netVars, clean, cast, bounds>>

\* Close unsubscribes the handler, ends the connection, and waits for receiveLoop,
\* which the next read ends.
Close(k) ==
    /\ phase[k] = "live"
    /\ breaks < MaxBreaks
    /\ breaks' = breaks + 1
    /\ phase' = [phase EXCEPT ![k] = "over"]
    /\ Cut(k)
    /\ UNCHANGED <<doc, relayVars, up, clean, cast, edits, restarts>>

\* A transaction of the user with one item; its update goes up every connection
\* whose handler is registered, and nowhere if that connection is down.
Registered(c) == { k \in Conn : k[1] = c /\ phase[k] = "live" /\ link[k] }

Edit(c) ==
    LET n    == Len(doc[c][c])
        item == [clock |-> State(doc[c][c]), edit |-> n]
    IN  /\ edits < MaxEdits
        /\ edits' = edits + 1
        /\ \A k \in Registered(c) : Len(up[k]) < Cap
        /\ doc' = [doc EXCEPT ![c][c] = Append(@, item)]
        /\ up' = [k \in Conn |->
                     IF k \in Registered(c)
                     THEN Append(up[k], [type |-> "update",
                                         items |-> [Empty EXCEPT ![c] = <<item>>]])
                     ELSE up[k]]
        /\ clean' = (clean /\ \A k \in Conn :
                                 k[1] = c => phase[k] \notin {"step2", "synced"})
        /\ UNCHANGED <<phase, relayVars, link, down, cast, breaks, restarts>>

(***************************************************************************)
(* The goroutine of a connection in the relay (relay.go, ServeHTTP).       *)
(***************************************************************************)
Greet(k) ==
    /\ srv[k] = "accepted"
    /\ srv' = [srv EXCEPT ![k] = "greeted"]
    /\ down' = IF link[k]
               THEN [down EXCEPT ![k] = <<[type |-> "step1", sv |-> stateVector(room)]>>]
               ELSE down
    /\ UNCHANGED <<clientVars, room, members, outbox, link, up, clean, cast, bounds>>

Join(k) ==
    /\ srv[k] = "greeted"
    /\ srv' = [srv EXCEPT ![k] = "reading"]
    /\ members' = Append(members, k)
    /\ UNCHANGED <<clientVars, room, outbox, netVars, clean, cast, bounds>>

\* Mutant: the first send that fails ends the broadcast.
SendGivesUp(k) ==
    LET to == Head(outbox[k]).to
    IN  /\ outbox[k] # <<>>
        /\ link[to] => Len(down[to]) < Cap
        /\ down' = IF link[to] THEN [down EXCEPT ![to] = Append(@, Head(outbox[k]).msg)] ELSE down
        /\ outbox' = [outbox EXCEPT ![k] = IF link[to] THEN Tail(@) ELSE <<>>]
        /\ UNCHANGED <<clientVars, room, members, srv, link, up, clean, cast, bounds>>

\* relayClient.send: blocks when the link is full, and fails when it is down.
Send(k) ==
    LET to == Head(outbox[k]).to
    IN  /\ outbox[k] # <<>>
        /\ link[to] => Len(down[to]) < Cap
        /\ down' = IF link[to] THEN [down EXCEPT ![to] = Append(@, Head(outbox[k]).msg)] ELSE down
        /\ outbox' = [outbox EXCEPT ![k] = Tail(@)]
        /\ UNCHANGED <<clientVars, room, members, srv, link, up, clean, cast, bounds>>

\* The relay reads a message of a type from k.
RelayReads(k, type) ==
    /\ srv[k] = "reading"
    /\ outbox[k] = <<>>
    /\ up[k] # <<>>
    /\ Head(up[k]).type = type
    /\ up' = [up EXCEPT ![k] = Tail(@)]

\* room.clients without a connection, which is in it at most once.
Without(conns, k) ==
    IF k \in Range(conns) THEN RemoveAt(conns, CHOOSE i \in DOMAIN conns : conns[i] = k) ELSE conns

ReadStep1(k) ==
    /\ RelayReads(k, "step1")
    /\ outbox' = [outbox EXCEPT ![k] =
                     <<[to |-> k, msg |-> [type |-> "step2",
                                           items |-> EncodeStateAsUpdate(room, Head(up[k]).sv)]]>>]
    /\ UNCHANGED <<clientVars, room, members, srv, link, down, clean, cast, bounds>>

\* What comes as step 2 is applied and not passed on.
ReadStep2(k) ==
    /\ RelayReads(k, "step2")
    /\ room' = ApplyUpdate(room, Head(up[k]).items)
    /\ clean' = (clean /\ (room' # room => { m[1] : m \in Range(members) } = {k[1]}))
    /\ UNCHANGED <<clientVars, members, srv, outbox, link, down, cast, bounds>>

ReadUpdate(k) ==
    LET msg    == Head(up[k])
        others == Without(members, k)
    IN  /\ RelayReads(k, "update")
        /\ room' = ApplyUpdate(room, msg.items)
        /\ outbox' = [outbox EXCEPT ![k] = [i \in DOMAIN others |-> [to |-> others[i], msg |-> msg]]]
        /\ cast' = [j \in Conn |-> IF j \in Range(members)
                                  THEN cast[j] \cup Ids(msg.items) ELSE cast[j]]
        /\ clean' = (clean /\ \A j \in Conn \ {k} : j[1] = k[1] => outbox[j] = <<>>)
        /\ UNCHANGED <<clientVars, members, srv, link, down, bounds>>

\* Mutant: the deferred removal from the room is missing.
LeaveKeepsMember(k) ==
    /\ srv[k] = "reading"
    /\ outbox[k] = <<>>
    /\ ~link[k]
    /\ srv' = [srv EXCEPT ![k] = "gone"]
    /\ up' = [up EXCEPT ![k] = <<>>]
    /\ UNCHANGED <<clientVars, room, members, outbox, link, down, clean, cast, bounds>>

\* The read fails: the goroutine leaves the room.
Leave(k) ==
    /\ srv[k] = "reading"
    /\ outbox[k] = <<>>
    /\ ~link[k]
    /\ srv' = [srv EXCEPT ![k] = "gone"]
    /\ members' = Without(members, k)
    /\ up' = [up EXCEPT ![k] = <<>>]
    /\ UNCHANGED <<clientVars, room, outbox, link, down, clean, cast, bounds>>

(***************************************************************************)
(* Failures.                                                               *)
(***************************************************************************)
Break(k) ==
    /\ link[k]
    /\ breaks < MaxBreaks
    /\ breaks' = breaks + 1
    /\ Cut(k)
    /\ UNCHANGED <<clientVars, relayVars, up, clean, cast, edits, restarts>>

\* Shutdown, and a new relay at the same address: the room starts empty.
Restart ==
    /\ restarts < MaxRestarts
    /\ restarts' = restarts + 1
    /\ room' = Empty
    /\ members' = <<>>
    /\ srv' = [k \in Conn |-> IF srv[k] = "new" THEN "new" ELSE "gone"]
    /\ link' = [k \in Conn |-> FALSE]
    /\ up' = [k \in Conn |-> <<>>]
    /\ down' = [k \in Conn |-> <<>>]
    /\ outbox' = [k \in Conn |-> <<>>]
    /\ cast' = [k \in Conn |-> {}]
    /\ UNCHANGED <<clientVars, clean, edits, breaks>>

ClientStep(k) ==
    \/ AnswerStep1(k) \/ ReceiveStep2(k) \/ HandshakeFails(k) \/ Register(k)
    \/ Receive(k) \/ LoopEnds(k)

RelayStep(k) ==
    \/ Greet(k) \/ Send(k) \/ Join(k)
    \/ ReadStep1(k) \/ ReadStep2(k) \/ ReadUpdate(k) \/ Leave(k)

Next ==
    \/ \E k \in Conn : Dial(k) \/ ClientStep(k) \/ RelayStep(k) \/ Close(k) \/ Break(k)
    \/ \E c \in Client : Edit(c)
    \/ Restart

Spec == Init /\ [][Next]_vars

\* Some goroutine of the library that can go on does, and the network moves
\* messages.  Nobody owes an edit, a connection or a Close.
Fairness == WF_vars(\E k \in Conn : ClientStep(k) \/ RelayStep(k))

FairSpec == Spec /\ Fairness

-----------------------------------------------------------------------------
(***************************************************************************)
(* Properties.                                                             *)
(***************************************************************************)
Live(k) == phase[k] = "live" /\ link[k] /\ k \in Range(members)

\* The messages of a sequence that carry edits, and the edits of c in a set of them.
Contents(msgs) == { msgs[i] : i \in { j \in DOMAIN msgs : msgs[j].type # "step1" } }

Carried(msgs, c) == UNION { Edits(m.items[c]) : m \in msgs }

\* What is under way to the client of k: on its link, or in the hands of a
\* goroutine of the relay that has yet to send it.
MessagesTo(k) ==
    Contents(down[k]) \cup
    UNION { { outbox[j][i].msg : i \in { n \in DOMAIN outbox[j] : outbox[j][n].to = k } }
            : j \in Conn }

Item    == [clock : Nat, edit : Nat]
Slices  == [Client -> Seq(Item)]
Message == [type : {"step1"}, sv : [Client -> Nat]] \cup [type : {"step2", "update"}, items : Slices]

\* The types of the variables, and: the room lists the connections whose goroutine
\* is in its read loop, each once (room.clients).
TypeOK ==
    /\ doc \in [Client -> Slices] /\ room \in Slices
    /\ phase \in [Conn -> {"new", "step1", "step2", "synced", "live", "over"}]
    /\ srv \in [Conn -> {"new", "accepted", "greeted", "reading", "gone"}]
    /\ link \in [Conn -> BOOLEAN]
    /\ up \in [Conn -> Seq(Message)] /\ down \in [Conn -> Seq(Message)]
    /\ \A k \in Conn : Len(up[k]) <= Cap /\ Len(down[k]) <= Cap
    /\ outbox \in [Conn -> Seq([to : Conn, msg : Message])]
    /\ members \in Seq(Conn)
    /\ \A k \in Conn : k \in Range(members) <=> srv[k] = "reading"
    /\ \A i, j \in DOMAIN members : members[i] = members[j] => i = j
    /\ clean \in BOOLEAN /\ cast \in [Conn -> SUBSET (Client \X Nat)]

\* An update that the relay reads is stored by every client that is connected then,
\* or under way to it, as long as the client stays connected: whichever other
\* clients come and go, and whatever the order (the broadcast of ServeHTTP).  It is
\* known by its ID: a client that holds an item with that ID takes no other.
UpdatesReachMembers ==
    \A k \in Conn :
        Live(k) => cast[k] \subseteq Ids(doc[k[1]]) \cup UNION { Ids(m.items) : m \in MessagesTo(k) }

\* A client that is connected holds every edit that the room holds, or it is under
\* way, whatever broke before: across reconnects and restarts of the relay, the
\* handshake fetches what was missed (syncHandshake, ServeHTTP).  The three things
\* that clean names are the ways in which an edit is missed.
NothingMissed ==
    clean => \A k \in Conn, c \in Client :
        Live(k) => Edits(room[c]) \subseteq Edits(doc[k[1]][c]) \cup Carried(MessagesTo(k), c)

\* What a client that is connected has edited, online or offline, is in the room or
\* on the way to it, unless clean names the reason (the step 2 of the client, and
\* its update handler).
OwnEditsForwarded ==
    clean => \A k \in Conn : Live(k) =>
        Edits(doc[k[1]][k[1]]) \subseteq Edits(room[k[1]]) \cup Carried(Contents(up[k]), k[1])

Docs == Range(doc) \cup {room}

\* Every Doc holds a prefix of the edits of each client, each once, in order and
\* under its own clock: so the state vectors of the handshakes are true.  Nothing
\* in the code checks it, it hangs on the order in which messages travel, and what
\* clean names breaks it.
NoGaps ==
    clean => \A d \in Docs, c \in Client :
        d[c] = [i \in DOMAIN d[c] |-> [clock |-> i - 1, edit |-> i - 1]]

Settled(k) ==
    /\ phase[k] \notin {"step1", "step2"}
    /\ srv[k] # "new" /\ ~link[k] => srv[k] = "gone"
    /\ clean /\ Live(k) => \A c \in Client : Edits(room[c]) \subseteq Edits(doc[k[1]][c])

\* Handshakes end, the relay lets go of connections that are down, and clients that
\* stay connected come to hold all that the room holds: nobody waits for good on a
\* full link or on a message that does not come.
Settles == []<>(\A k \in Conn : Settled(k))
=============================================================================
