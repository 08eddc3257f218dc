----------------------------- MODULE SyncStream -----------------------------
(***************************************************************************)
(* A stream of sync messages: one side encodes state vectors and updates   *)
(* and writes them as sync messages, the other reads a message byte by     *)
(* byte and decodes what it carries.  The stream can end anywhere.         *)
(*                                                                         *)
(* A message is [type, value]: the value of step 1 is a state vector, that *)
(* of step 2 and of an update message an update.                           *)
(***************************************************************************)
EXTENDS Codec

CONSTANTS First,         \* the messages that may come first
          Follow,        \* bound: the messages that may follow
          MaxMessages    \* bound: messages

VARIABLES out,           \* the message that is encoded and not written yet, if any
          sent,          \* history: what the messages written mean, and their sizes
          stream,        \* the bytes on the way
          open,          \* the stream has not ended
          part,          \* what ReadSyncMessage has read of a message
          got,           \* the messages read
          failed,        \* the reader was given an error
          lost           \* history: the bytes that the end of the stream swallowed

vars == <<out, sent, stream, open, part, got, failed, lost>>

-----------------------------------------------------------------------------
(***************************************************************************)
(* What a value is read as.                                                *)
(***************************************************************************)
Length(item) ==
    CASE item.ref \in {1, GC, Skip} -> item.len
      [] item.ref = 4 -> utf16Len(item.data)
      [] item.ref = 6 -> 0
      [] item.ref = 8 /\ item.data.kind = "slice" -> Len(item.data.val)
      [] OTHER -> 1

\* An item comes through but for its clock, a length that does not fit its content,
\* the parent of an item with an origin, a list of one value, which is that value, and
\* a value of a type that has no tag, which is nil.
ReadAs(item, clock) ==
    IF item.ref \in {GC, Skip} THEN [item EXCEPT !.clock = clock]
    ELSE [item EXCEPT !.clock  = clock,
                      !.len    = Length(item),
                      !.parent = IF item.left \o item.right = <<>> THEN @ ELSE <<>>,
                      !.data   = IF item.ref = 1 THEN item.len
                                 ELSE IF item.ref = 8 /\ @.kind = "slice" /\ Len(@.val) = 1
                                 THEN @.val[1]
                                 ELSE IF item.ref = 8 /\ @.kind = "other" THEN Nil ELSE @]

\* The items of a client are numbered on from the first.
Numbered(items) ==
    [k \in DOMAIN items |->
        ReadAs(items[k], items[1].clock
                           + FoldLeft(LAMBDA n, it : n + Length(it), 0, SubSeq(items, 1, k - 1)))]

Meaning(m) ==
    IF m.type = MessageYjsSyncStep1 THEN m.value
    ELSE [items |-> Each(Descending({ m.value.items[i].client : i \in DOMAIN m.value.items }),
                         LAMBDA c : Numbered(itemsOf(m.value.items, c))),
          ds    |-> [c \in { x \in DOMAIN m.value.ds : m.value.ds[x] # <<>> } |-> m.value.ds[c]]]

-----------------------------------------------------------------------------
Start == [at |-> "type", result |-> 0, shift |-> 0, type |-> 0]

Init ==
    /\ out = <<>>
    /\ sent = <<>> /\ stream = <<>> /\ open = TRUE /\ lost = 0
    /\ part = Start /\ got = <<>> /\ failed = FALSE

Payload(m) ==
    IF m.type = MessageYjsSyncStep1 THEN EncodeStateVectorV1(m.value) ELSE writeUpdateV1(m.value)

Decode(type, payload) ==
    IF type = MessageYjsSyncStep1 THEN DecodeStateVectorV1(payload) ELSE readUpdateV1(payload)

\* EncodeStateVectorV1 or EncodeUpdateV1; an error ends the call.
Encode(m) ==
    /\ out = <<>>
    /\ Len(sent) < MaxMessages
    /\ m.type # MessageYjsSyncStep1 => canWrite(m.value)
    /\ out' = <<[msg |-> m, payload |-> Payload(m)]>>
    /\ UNCHANGED <<sent, stream, open, part, got, failed, lost>>

\* WriteSyncStep1, WriteSyncStep2, WriteUpdate
WriteMessage ==
    /\ out # <<>>
    /\ open
    /\ LET bytes == EncodeSyncMessage(out[1].msg.type, out[1].payload)
       IN  /\ stream' = stream \o bytes
           /\ sent' = Append(sent, [value |-> Meaning(out[1].msg), size |-> Len(bytes)])
    /\ out' = <<>>
    /\ UNCHANGED <<open, part, got, failed, lost>>

\* The stream ends, with the first n bytes of what is on the way.
End(n) ==
    /\ open
    /\ open' = FALSE
    /\ stream' = SubSeq(stream, 1, n)
    /\ lost' = Len(stream) - n
    /\ UNCHANGED <<out, sent, part, got, failed>>

\* One turn of the loop of ReadVarUint, for the type or the length.
ReadVarByte ==
    LET b      == Head(stream)
        result == (part.result + (b % 128) * 2^part.shift) % 2^Bits
    IN  /\ ~failed
        /\ part.at \in {"type", "length"}
        /\ stream # <<>>
        /\ stream' = Tail(stream)
        /\ failed' = (b >= 128 /\ part.shift + 7 >= Bits)
        /\ part' = IF b >= 128 THEN [part EXCEPT !.result = result, !.shift = @ + 7]
                   ELSE IF part.at = "type"
                   THEN [Start EXCEPT !.at = "length", !.type = result]
                   ELSE [part EXCEPT !.at = "payload", !.result = result]
        /\ UNCHANGED <<out, sent, open, got, lost>>

\* Mutant: a payload that ends with the stream is waited for.
ReadPayloadLate ==
    LET payload == ReadFull(part.result, stream)
    IN  /\ ~failed
        /\ part.at = "payload"
        /\ payload.ok /\ (open \/ payload.rest # <<>>)
        /\ stream' = payload.rest
        /\ part' = Start
        /\ got' = Append(got, [type |-> part.type, payload |-> payload.val])
        /\ UNCHANGED <<out, sent, open, failed, lost>>

\* io.ReadFull of the payload.
ReadPayload ==
    LET payload == ReadFull(part.result, stream)
    IN  /\ ~failed
        /\ part.at = "payload"
        /\ payload.ok
        /\ stream' = payload.rest
        /\ part' = Start
        /\ got' = Append(got, [type |-> part.type, payload |-> payload.val])
        /\ UNCHANGED <<out, sent, open, failed, lost>>

\* Mutant: the last message is taken for one that is cut off.
ReadFailsEarly ==
    /\ ~failed
    /\ ~open
    /\ IF part.at = "payload" THEN Len(stream) <= part.result ELSE stream = <<>>
    /\ failed' = TRUE
    /\ UNCHANGED <<out, sent, stream, open, part, got, lost>>

\* The stream ends within a message, or before the next one.
ReadFails ==
    /\ ~failed
    /\ ~open
    /\ IF part.at = "payload" THEN Len(stream) < part.result ELSE stream = <<>>
    /\ failed' = TRUE
    /\ UNCHANGED <<out, sent, stream, open, part, got, lost>>

Reader == ReadVarByte \/ ReadPayload \/ ReadFails

Next ==
    \/ \E m \in IF sent = <<>> THEN First ELSE Follow : Encode(m)
    \/ WriteMessage
    \/ \E n \in 0 .. Len(stream) : End(n)
    \/ Reader

\* The reader reads on.
FairSpec == Init /\ [][Next]_vars /\ WF_vars(Reader)

-----------------------------------------------------------------------------
(***************************************************************************)
(* Properties.                                                             *)
(***************************************************************************)
\* What the caller of ReadSyncMessage makes of a message.
Decoded(m) == LET r == Decode(m.type, m.payload) IN IF r.ok THEN r.val ELSE Error

Queue == INSTANCE MessageQueue WITH 
            sent <- [i \in DOMAIN sent |-> sent[i].value],
            got  <- [i \in DOMAIN got |-> Decoded(got[i])]

\* Byte by byte, through every width of integer, every kind of content and any end
\* of the stream, the reader gets the values that were written, in their order: the
\* stream implements a queue of messages (ReadSyncMessage, DecodeUpdateV1,
\* DecodeStateVectorV1 against what encodes for them).
ImplementsQueue == Queue!Spec

\* What is cut off anywhere, like a document that was not saved to its end, is
\* refused: no part of an update or of a state vector reads as a whole one.
TruncatedIsRefused ==
    \A i \in DOMAIN out :
        \A n \in 0 .. Len(out[i].payload) - 1 :
            ~Decode(out[i].msg.type, SubSeq(out[i].payload, 1, n)).ok

\* The bytes of the first k messages.
Bytes(k) == FoldLeft(LAMBDA n, m : n + m.size, 0, SubSeq(sent, 1, k))

\* When the reader is given an error, the stream has ended, and every message that
\* arrived to its last byte was read before.
WholeMessagesRead ==
    failed => /\ ~open
              /\ \A k \in 1 .. Len(sent) : Bytes(k) <= Bytes(Len(sent)) - lost <=> k <= Len(got)

\* The reader never waits for good while the message it reads is there, and learns of
\* the end of the stream.
EverythingRead == <>[](IF open THEN Len(got) = Len(sent) ELSE failed)
=============================================================================
