------------------------------- MODULE Codec --------------------------------
(***************************************************************************)
(* The wire format, byte for byte: variable-length integers, byte strings, *)
(* any values, state vectors, updates and sync messages.                   *)
(*                                                                         *)
(* Only the width of a uint64 is scaled down, to Bits: of the last byte of *)
(* the longest integer one bit counts at 64 bits, and so it does at 15.    *)
(* A string is its UTF-8 bytes, as in Go.  An optional field is a sequence *)
(* of at most one element.  A floating point number is its bytes.          *)
(*                                                                         *)
(* A reader is given the bytes that are left and returns whether it could  *)
(* read, the value, and the bytes that are then left.                      *)
(***************************************************************************)
EXTENDS Integers, Sequences, SequencesExt, FiniteSets

CONSTANTS Bits           \* the width of a uint64

ASSUME CodecAssumption == Bits \in Nat \ {0}

Error == [ok |-> FALSE]

Read(val, rest) == [ok |-> TRUE, val |-> val, rest |-> rest]

\* Binding r makes TLC evaluate a result once, and not once per use.
Then(result, Go(_, _)) ==
    CHOOSE next \in { IF r.ok THEN Go(r.val, r.rest) ELSE r : r \in {result} } : TRUE

\* The value of one reader, converted.
As(result, F(_)) == Then(result, LAMBDA val, rest : Read(F(val), rest))

\* n times a reader that extends what was read.
Repeat(n, acc, data, Go(_, _)) ==
    LET after[k \in 0 .. n] ==
            IF k = 0 THEN Read(acc, data) ELSE Then(after[k - 1], Go)
    IN  after[n]

\* n times a reader, into a sequence.
Many(n, data, Item(_)) ==
    Repeat(n, <<>>, data, LAMBDA s, rest : As(Item(rest), LAMBDA v : Append(s, v)))

Both(data, First(_), Second(_)) ==
    Then(First(data), LAMBDA v, rest : As(Second(rest), LAMBDA w : <<v, w>>))

Maybe(present, data, Item(_)) ==
    IF present THEN As(Item(data), LAMBDA v : <<v>>) ELSE Read(<<>>, data)

\* io.ReadFull
ReadFull(n, data) ==
    IF Len(data) < n THEN Error
    ELSE Read(SubSeq(data, 1, n), SubSeq(data, n + 1, Len(data)))

ReadByte(data) == As(ReadFull(1, data), LAMBDA s : s[1])

Concat(seqs) == FoldLeft(LAMBDA s, t : s \o t, <<>>, seqs)

Each(seq, Write(_)) == Concat([i \in DOMAIN seq |-> Write(seq[i])])

(***************************************************************************)
(* Integers and byte strings (varint.go).                                  *)
(***************************************************************************)
WriteVarUint[v \in Nat] ==
    IF v < 128 THEN <<v>> ELSE <<(v % 128) + 128>> \o WriteVarUint[v \div 128]

\* The bytes at whose shift the loop does not give up.
MaxVarintLen == (Bits + 6) \div 7

\* Bits beyond the width are shifted out.
ReadVarUint(data) ==
    LET n     == SelectInSeq(data, LAMBDA b : b < 128)
        value == FoldRight(LAMBDA b, v : ((b % 128) + 128 * v) % 2^Bits, SubSeq(data, 1, n), 0)
    IN  IF n \in 1 .. MaxVarintLen THEN As(ReadFull(n, data), LAMBDA s : value) ELSE Error

WriteVarBytes(b) == WriteVarUint[Len(b)] \o b

ReadVarBytes(data) == Then(ReadVarUint(data), ReadFull)

utf16Len(s) ==
    Cardinality({ i \in DOMAIN s : s[i] \notin 128 .. 191 })
      + Cardinality({ i \in DOMAIN s : s[i] >= 240 })

(***************************************************************************)
(* Any values (update.go).  A Go value is its kind and what it holds; a    *)
(* map is the sequence of its entries in the order range visits them.      *)
(***************************************************************************)
Nil == [kind |-> "nil"]

RECURSIVE WriteAny(_)
WriteAny(v) ==
    CASE v.kind = "nil"     -> <<127>>
      [] v.kind = "bool"    -> IF v.val THEN <<120>> ELSE <<121>>
      [] v.kind = "string"  -> <<119>> \o WriteVarBytes(v.val)
      [] v.kind = "int"     -> <<125>> \o WriteVarUint[v.val % 2^Bits]
      [] v.kind = "uint64"  -> <<122>> \o WriteVarUint[v.val]
      [] v.kind = "float32" -> <<124>> \o v.val
      [] v.kind = "float64" -> <<123>> \o v.val
      [] v.kind = "map"     -> <<118>> \o WriteVarUint[Len(v.val)]
                                 \o Each(v.val, LAMBDA e : WriteVarBytes(e[1]) \o WriteAny(e[2]))
      [] v.kind = "slice"   -> <<117>> \o WriteVarUint[Len(v.val)]
                                 \o Each(v.val, LAMBDA e : WriteAny(e))
      [] v.kind = "bytes"   -> <<116>> \o WriteVarBytes(v.val)
      [] OTHER              -> <<127>>

\* int64 of a uint64
Signed(n) == IF n >= 2^(Bits - 1) THEN n - 2^Bits ELSE n

RECURSIVE ReadAny(_)
ReadAny(data) ==
    LET Val(kind, result) == As(result, LAMBDA v : [kind |-> kind, val |-> v])
        Elements(rest, Element(_)) ==
            Then(ReadVarUint(rest), LAMBDA n, from : Many(n, from, Element))
    IN  Then(ReadByte(data), LAMBDA tag, rest :
            CASE tag \in {126, 127} -> Read(Nil, rest)
              [] tag = 125 -> Val("int", As(ReadVarUint(rest), Signed))
              [] tag = 124 -> Val("float32", ReadFull(4, rest))
              [] tag = 123 -> Val("float64", ReadFull(8, rest))
              [] tag = 122 -> Val("uint64", ReadVarUint(rest))
              [] tag \in {120, 121} -> Read([kind |-> "bool", val |-> tag = 120], rest)
              [] tag = 119 -> Val("string", ReadVarBytes(rest))
              [] tag = 118 -> Val("map", Elements(rest,
                                 LAMBDA d : Both(d, ReadVarBytes, ReadAny)))
              [] tag = 117 -> Val("slice", Elements(rest, LAMBDA d : ReadAny(d)))
              [] tag = 116 -> Val("bytes", ReadVarBytes(rest))
              [] OTHER     -> Error)

(***************************************************************************)
(* Items (update.go, EncodedItem).  The info byte is what itemToEncoded    *)
(* makes it.                                                               *)
(***************************************************************************)
GC   == 0
Skip == 10

writeEncodedID(id) == WriteVarUint[id.client] \o WriteVarUint[id.clock]

readEncodedID(data) ==
    As(Both(data, ReadVarUint, ReadVarUint), LAMBDA p : [client |-> p[1], clock |-> p[2]])

writable == {1, 3, 4, 5, 6, 7, 8}

writeItemContent(item) ==
    LET data == item.data
    IN  CASE item.ref = 1         -> WriteVarUint[item.len]
          [] item.ref \in {3, 4, 5} -> WriteVarBytes(data)
          [] item.ref = 6         -> WriteVarBytes(data.key) \o WriteAny(data.value)
          [] item.ref = 7         -> WriteVarUint[data]
          [] item.ref = 8         -> IF data.kind = "slice"
                                     THEN WriteVarUint[Len(data.val)] \o Each(data.val, WriteAny)
                                     ELSE <<1>> \o WriteAny(data)

\* The content and the length of the item.
readItemContent(ref, data) ==
    LET Content(F(_), length, result) ==
            As(result, LAMBDA v : [data |-> F(v), len |-> length])
        Same(v) == v
    IN  CASE ref = 1 -> As(ReadVarUint(data), LAMBDA n : [data |-> n, len |-> n])
          [] ref = 4 -> As(ReadVarBytes(data), LAMBDA s : [data |-> s, len |-> utf16Len(s)])
          [] ref = 8 -> Then(ReadVarUint(data), LAMBDA n, rest :
                            As(Many(n, rest, ReadAny), LAMBDA arr :
                                [data |-> IF n = 1 THEN arr[1]
                                          ELSE [kind |-> "slice", val |-> arr],
                                 len  |-> n]))
          [] ref \in {2, 3, 5} -> Content(Same, 1, ReadVarBytes(data))
          [] ref = 6 -> Content(LAMBDA p : [key |-> p[1], value |-> p[2]], 0,
                                Both(data, ReadVarBytes, ReadAny))
          [] ref = 7 -> Content(Same, 1, ReadVarUint(data))
          [] ref = 9 -> Content(LAMBDA p : [guid |-> p[1], opts |-> p[2]], 1,
                                Both(data, ReadVarBytes, ReadAny))
          [] OTHER   -> Error

info(item) ==
    item.ref + 128 * Len(item.left) + 64 * Len(item.right) + 32 * Len(item.sub)

writeEncodedItem(item) ==
    IF item.ref \in {GC, Skip} THEN <<item.ref>> \o WriteVarUint[item.len]
    ELSE <<info(item)>>
           \o Each(item.left \o item.right, writeEncodedID)
           \o (IF item.left \o item.right # <<>> THEN <<>>
               ELSE Each(item.parent, LAMBDA p : IF p.isYKey THEN <<1>> \o WriteVarBytes(p.key)
                                                 ELSE <<0>> \o writeEncodedID(p.id)))
           \o Each(item.sub, WriteVarBytes)
           \o writeItemContent(item)

readParent(data) ==
    Then(ReadVarUint(data), LAMBDA isYKey, rest :
        IF isYKey = 1
        THEN As(ReadVarBytes(rest), LAMBDA k : [isYKey |-> TRUE, key |-> k])
        ELSE As(readEncodedID(rest), LAMBDA id : [isYKey |-> FALSE, id |-> id]))

readEncodedItem(client, clock, data) ==
    Then(ReadByte(data), LAMBDA b, d0 :
        LET ref      == b % 32
            hasSub   == (b \div 32) % 2 = 1
            hasRight == (b \div 64) % 2 = 1
            hasLeft  == (b \div 128) % 2 = 1
        IN  IF ref \in {GC, Skip}
            THEN As(ReadVarUint(d0), LAMBDA n :
                     [client |-> client, clock |-> clock, ref |-> ref, len |-> n])
            ELSE Then(Maybe(hasLeft, d0, readEncodedID), LAMBDA left, d1 :
                 Then(Maybe(hasRight, d1, readEncodedID), LAMBDA right, d2 :
                 Then(Maybe(~hasLeft /\ ~hasRight, d2, readParent), LAMBDA parent, d3 :
                 Then(Maybe(hasSub, d3, ReadVarBytes), LAMBDA sub, d4 :
                 As(readItemContent(ref, d4), LAMBDA content :
                     [client |-> client, clock |-> clock, ref |-> ref, left |-> left,
                      right |-> right, parent |-> parent, sub |-> sub,
                      len |-> content.len, data |-> content.data]))))))

(***************************************************************************)
(* Updates: the items, and the ranges of the delete set by client.         *)
(***************************************************************************)
Descending(clients) == SetToSortSeq(clients, LAMBDA a, b : a > b)

itemsOf(items, client) == SelectSeq(items, LAMBDA it : it.client = client)

writeRange(range) == WriteVarUint[range.clock] \o WriteVarUint[range.len]

\* Encoding fails as a whole when the content of one item cannot be written.
canWrite(u) ==
    \A i \in DOMAIN u.items : u.items[i].ref \in writable \cup {GC, Skip}

writeUpdateV1(u) ==
    LET clients == { u.items[i].client : i \in DOMAIN u.items }
        Group(c) ==
            LET its == itemsOf(u.items, c)
            IN  WriteVarUint[Len(its)] \o WriteVarUint[c] \o WriteVarUint[its[1].clock]
                  \o Each(its, writeEncodedItem)
        Ranges(c) == WriteVarUint[c] \o WriteVarUint[Len(u.ds[c])] \o Each(u.ds[c], writeRange)
    IN  WriteVarUint[Cardinality(clients)] \o Each(Descending(clients), Group)
          \o WriteVarUint[Cardinality(DOMAIN u.ds)] \o Each(Descending(DOMAIN u.ds), Ranges)

\* Mutant: the clock stays that of the first item.
readGroupFirstClock(data) ==
    Then(Many(3, data, ReadVarUint), LAMBDA head, rest :
        Many(head[1], rest, LAMBDA d : readEncodedItem(head[2], head[3], d)))

\* The items of one client.
readGroup(data) ==
    Then(Many(3, data, ReadVarUint), LAMBDA head, rest :
        As(Repeat(head[1], [clock |-> head[3], items |-> <<>>], rest, LAMBDA acc, d :
               As(readEncodedItem(head[2], acc.clock, d), LAMBDA it :
                   [clock |-> (acc.clock + it.len) % 2^Bits, items |-> Append(acc.items, it)])),
           LAMBDA acc : acc.items))

readRange(data) ==
    As(Both(data, ReadVarUint, ReadVarUint), LAMBDA p : [clock |-> p[1], len |-> p[2]])

\* The ranges of one client, that follow those it has.
readRanges(ds, data) ==
    Then(Both(data, ReadVarUint, ReadVarUint), LAMBDA head, rest :
        LET client == head[1]
            had    == IF client \in DOMAIN ds THEN ds[client] ELSE <<>>
        IN  As(Many(head[2], rest, readRange), LAMBDA new :
               IF new = <<>> THEN ds
               ELSE [c \in DOMAIN ds \cup {client} |-> IF c = client THEN had \o new ELSE ds[c]]))

\* Mutant: an update may end before its delete set.
readUpdateV1Lenient(data) ==
    Then(ReadVarUint(data), LAMBDA numClients, d1 :
        As(Many(numClients, d1, readGroup), LAMBDA groups : [items |-> Concat(groups), ds |-> <<>>]))

readUpdateV1(data) ==
    Then(ReadVarUint(data), LAMBDA numClients, d1 :
        Then(Many(numClients, d1, readGroup), LAMBDA groups, d2 :
            Then(ReadVarUint(d2), LAMBDA numDsClients, d3 :
                As(Repeat(numDsClients, <<>>, d3, readRanges), LAMBDA ds :
                    [items |-> Concat(groups), ds |-> ds]))))

(***************************************************************************)
(* State vectors.                                                          *)
(***************************************************************************)
EncodeStateVectorV1(sv) ==
    WriteVarUint[Cardinality(DOMAIN sv)]
      \o Each(Descending(DOMAIN sv), LAMBDA c : WriteVarUint[c] \o WriteVarUint[sv[c]])

DecodeStateVectorV1(data) ==
    Then(ReadVarUint(data), LAMBDA n, rest :
        Repeat(n, <<>>, rest, LAMBDA sv, d :
            As(readEncodedID(d), LAMBDA e :
                [c \in DOMAIN sv \cup {e.client} |-> IF c = e.client THEN e.clock ELSE sv[c]])))

(***************************************************************************)
(* Sync messages (sync.go).                                                *)
(***************************************************************************)
MessageYjsSyncStep1 == 0
MessageYjsSyncStep2 == 1
MessageYjsUpdate    == 2

EncodeSyncMessage(type, payload) == WriteVarUint[type] \o WriteVarBytes(payload)
=============================================================================
