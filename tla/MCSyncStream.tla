---------------------------- MODULE MCSyncStream ----------------------------
(***************************************************************************)
(* Instances of SyncStream for TLC: every width of integer, every kind of  *)
(* content and of any value, every combination of optional fields, items   *)
(* of one and of two clients, and delete sets.                             *)
(***************************************************************************)
EXTENDS SyncStream

Narrow == <<97>>                              \* a
Wide   == <<240, 159, 152, 128>>              \* one character, two UTF-16 units
Long   == [i \in 1 .. 130 |-> 98]

Val(kind, val) == [kind |-> kind, val |-> val]

Simple ==
    {Nil, Val("other", 0), Val("bool", TRUE), Val("bool", FALSE), Val("string", Wide),
     Val("int", 1), Val("int", -1), Val("int", 2^14 - 1), Val("int", -(2^14)),
     Val("uint64", 128), Val("uint64", 2^15 - 1), Val("bytes", <<0, 255>>),
     Val("float32", <<63, 128, 0, 0>>), Val("float64", <<191, 240, 0, 0, 0, 0, 0, 0>>)}

Nested ==
    {Val("slice", s) : s \in {<<>>, <<Nil>>, <<Val("int", 1), Val("string", Narrow)>>,
                              <<Val("slice", <<Val("int", 1), Nil>>)>>}}
      \cup {Val("map", s) : s \in {<<>>, <<<<Narrow, Val("slice", <<Nil>>)>>, <<Wide, Nil>>>>,
                                   <<<<Wide, Nil>>, <<Narrow, Val("map", <<>>)>>>>}}

Content ==
    [ref : {8}, data : Simple \cup Nested, len : {1}]
      \cup [ref : {4}, data : {Narrow, Wide \o Narrow}, len : {2}]
      \cup {[ref |-> 1, data |-> 0, len |-> 200], [ref |-> 3, data |-> <<200, 0>>, len |-> 1],
            [ref |-> 5, data |-> Narrow, len |-> 1], [ref |-> 7, data |-> 300, len |-> 1],
            [ref |-> 6, data |-> [key |-> Narrow, value |-> Val("bool", TRUE)], len |-> 0]}

ID == [client |-> 300, clock |-> 127]

Place(left, right, parent, sub) ==
    [left |-> left, right |-> right, parent |-> parent, sub |-> sub]

Root   == <<[isYKey |-> TRUE, key |-> Wide]>>
Places ==
    {Place(<<>>, <<>>, Root, <<>>), Place(<<>>, <<>>, Root, <<Narrow>>),
     Place(<<>>, <<>>, <<[isYKey |-> FALSE, id |-> ID]>>, <<>>), Place(<<ID>>, <<>>, Root, <<>>),
     Place(<<>>, <<ID>>, Root, <<>>), Place(<<ID>>, <<ID>>, <<>>, <<Narrow>>)}

Item(client, clock, content, place) ==
    [client |-> client, clock |-> clock, ref |-> content.ref, len |-> content.len,
     data |-> content.data, left |-> place.left, right |-> place.right,
     parent |-> place.parent, sub |-> place.sub]

Text == [ref |-> 4, data |-> Wide, len |-> 1]
Gap(ref) == [client |-> 1, clock |-> 0, ref |-> ref, len |-> 129]

NoRanges == <<>>
Range1 == [c \in {1, 300} |-> IF c = 1 THEN <<[clock |-> 0, len |-> 1], [clock |-> 2^15 - 1, len |-> 128]>>
                              ELSE <<>>]

Updates ==
    [items : { <<Item(1, 127, c, Place(<<>>, <<>>, Root, <<Narrow>>))>> : c \in Content }
               \cup { <<Item(300, 16384, Text, p), Item(300, 16385, Text, q)>> :
                         p \in Places, q \in Places }
               \cup { <<Item(300, 0, c, p), Item(1, 2, Text, p), Item(300, 1, Text, p)>> :
                         c \in Content, p \in {Place(<<ID>>, <<>>, <<>>, <<>>)} }
               \cup {<<Item(1, 0, [ref |-> 4, data |-> Long, len |-> 130], Place(<<ID>>, <<>>, <<>>, <<>>))>>}
               \cup {<<>>, <<Gap(GC), Item(1, 129, Text, Place(<<ID>>, <<>>, <<>>, <<>>)), Gap(Skip)>>},
     ds : {NoRanges}]
      \cup [items : {<<>>, <<Item(300, 5, Text, Place(<<>>, <<>>, Root, <<>>))>>}, ds : {Range1}]

Vectors ==
    UNION { [S -> {0, 127, 2^14, 2^15 - 1}] : S \in SUBSET {1, 300} }

MCFirst ==
    [type : {MessageYjsSyncStep1}, value : Vectors]
      \cup [type : {MessageYjsUpdate}, value : Updates]

MCFollow ==
    {[type |-> MessageYjsSyncStep2,
      value |-> [items |-> <<Item(1, 0, Text, Place(<<ID>>, <<>>, <<>>, <<>>))>>, ds |-> NoRanges]]}
=============================================================================
