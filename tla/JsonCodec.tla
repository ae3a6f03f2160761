----------------------------- MODULE JsonCodec ------------------------------
(***************************************************************************)
(* Messages written to JSON by this library, or by another writer, and     *)
(* read back.  Writing is the serialize functions of                       *)
(* cosmos.ics23.v1.serde.rs: a field that has its default value is left    *)
(* out, and a number that is no member of its enum is an error.            *)
(***************************************************************************)
EXTENDS JsonReader

CONSTANT Messages       \* what is to be written: [type, message]

ASSUME MessagesAssumption == \A w \in Messages :
    /\ w.type \in MessageType
    /\ w.message \in Struct[w.type]

Null      == <<"null">>
Num(n)    == <<"num", n>>
Str(s)    == <<"str", s>>
Arr(s)    == <<"arr", s>>
Obj(s)    == <<"obj", s>>

(* As a mutant: an optional message without content is left out, too. *)
Omitted_EmptyMessage(f, m) ==
    IF f.slot = "proof" THEN m.proof = None \/ m.proof[1] # f.camel
    ELSE \/ m[f.slot] = Default(f.kind)
         \/ f.kind = "message" /\ m[f.slot] = DefaultMessage(f.of)

Omitted(f, m) ==
    IF f.slot = "proof" THEN m.proof = None \/ m.proof[1] # f.camel
    ELSE m[f.slot] = Default(f.kind)

FieldValue(f, m) == IF f.slot = "proof" THEN m.proof[2] ELSE m[f.slot]

(* The fields that are written, in their order. *)
Written(type, m) ==
    LET upto[k \in 0..Len(Fields[type])] ==
            IF k = 0 THEN <<>>
            ELSE IF Omitted(Fields[type][k], m) THEN upto[k - 1]
            ELSE Append(upto[k - 1], Fields[type][k])
    IN  upto[Len(Fields[type])]

(* What a field of value v is written as.  An empty set is an error.       *)
JsonOf(f, v, writings) ==
    CASE f.kind = "bytes"   -> {Str(<<"base64", v>>)}
      [] f.kind = "int32"   -> {Num(v)}
      [] f.kind = "bool"    -> {<<"bool", v>>}
      [] f.kind = "enum"    -> IF v \in EnumNumbers(f.of)
                               THEN {Str(<<"text", EnumNames[f.of][v + 1]>>)}
                               ELSE {}
      [] f.kind = "ints"    -> {Arr([i \in DOMAIN v |-> Num(v[i])])}
      [] f.kind = "message" -> writings[f.of][v]
      [] f.kind = "list"    ->
             {Arr(s) : s \in Each([i \in DOMAIN v |-> writings[f.of][v[i]]])}

ObjectsFor(type, m, writings) ==
    LET fields == Written(type, m)
        member(f) == {<<f.camel, json>> : json \in JsonOf(f, FieldValue(f, m), writings)}
    IN  {Obj(s) : s \in Each([i \in DOMAIN fields |-> member(fields[i])])}

Writings[type \in MessageType] ==
    LET writings == [u \in NestedTypes(type) |-> Writings[u]]
    IN  [m \in Struct[type] |-> ObjectsFor(type, m, writings)]

(* A message is written, and what was written is read; sent keeps the      *)
(* message.  A writer that fails has no document.                          *)
DocumentOf(w, json) == [type |-> w.type, json |-> json, sent |-> w.message]

ASSUME NoneAssumption == \A w \in Messages :
    \A json \in Writings[w.type][w.message] \cup {Null} : DocumentOf(w, json) # None

Write ==
    /\ doc = None
    /\ \E w \in Messages :
           \/ \E json \in Writings[w.type][w.message] : Open(DocumentOf(w, json))
           \/ Writings[w.type][w.message] = {} /\ Open(DocumentOf(w, Null))

Next == Write \/ Read \/ Running

Spec == Init /\ [][Next]_vars

-----------------------------------------------------------------------------
(* The meaning of a document, without an order of reading: when it has one *)
(* and which.  It is the set of all its meanings, with one at most.        *)
ValuesOf(f, json, meanings) ==
    CASE f.kind = "message" -> IF IsNull(json) THEN {None} ELSE meanings[f.of][json]
      [] f.kind = "list"    ->
             IF json[1] = "arr"
             THEN Each([i \in DOMAIN json[2] |-> meanings[f.of][json[2][i]]]) ELSE {}
      [] OTHER -> ScalarsOf(f, json)

(* Each of the first n members is of a known field and has a value that    *)
(* the field takes; a second one for the same slot comes only after null.  *)
Clean(type, members, n, meanings) ==
    LET named(i) == FieldsNamed(type, members[i][1])
    IN  /\ \A i \in 1..n : \E f \in named(i) : ValuesOf(f, members[i][2], meanings) # {}
        /\ \A i, j \in 1..n : \A f \in named(i), g \in named(j) :
               (i < j /\ f.slot = g.slot) => IsNull(members[i][2])

(* What the i-th member puts into a slot. *)
PutBy(type, members, i, s, meanings) ==
    UNION {{SlotValue(f, v) : v \in ValuesOf(f, members[i][2], meanings)} :
              f \in {g \in FieldsNamed(type, members[i][1]) :
                        g.slot = s /\ ~IsNull(members[i][2])}}

Put(type, members, n, s, meanings) ==
    UNION {PutBy(type, members, i, s, meanings) : i \in 1..n}

Given(type, members, n, meanings) ==
    [s \in {t \in Slots(type) : Put(type, members, n, t, meanings) # {}} |->
        CHOOSE x \in Put(type, members, n, s, meanings) : TRUE]

ObjectMeanings(type, json, meanings) ==
    IF json[1] = "obj" /\ Clean(type, json[2], Len(json[2]), meanings)
    THEN {Filled(type, Given(type, json[2], Len(json[2]), meanings))}
    ELSE {}

Meanings[type \in MessageType] ==
    LET meanings == [u \in NestedTypes(type) |-> Meanings[u]]
    IN  [json \in Json |-> ObjectMeanings(type, json, meanings)]

-----------------------------------------------------------------------------
(* Each call of visit_map was made for the member, or the item, the call   *)
(* below is at.                                                            *)
JsonTypeOK ==
    /\ doc = None => stack = <<>> /\ outcome = None
    /\ stack # <<>> => doc # None /\ outcome = None /\ ~stack[1].list
    /\ \A i \in DOMAIN stack :
           /\ stack[i].type \in MessageType
           /\ i > 1 => LET below == stack[i - 1]
                       IN  /\ ~AtEnd(below)
                           /\ IF below.list
                              THEN ~stack[i].list /\ stack[i].type = below.type
                              ELSE \E f \in FieldsNamed(below.type, Item(below)[1]) :
                                       /\ f.of = stack[i].type
                                       /\ Free(below, f)

(* Whatever is written is read back as it was: a nested message without    *)
(* content stays apart from an absent one, the alternative of a oneof is   *)
(* kept, every default comes back.  Only a number outside its enum is      *)
(* refused, by the writer.                                                 *)
JsonRoundTrip ==
    (outcome # None /\ doc.sent # None) =>
        outcome = IF Writings[doc.type][doc.sent] # {} THEN <<"ok", doc.sent>>
                  ELSE <<"err">>

Answers(d, answer) ==
    IF Meanings[d.type][d.json] = {} THEN answer = <<"err">>
    ELSE answer \in {<<"ok", m>> : m \in Meanings[d.type][d.json]}

(* A document is accepted exactly if it has a meaning, and read as that:   *)
(* in any order of its members and any mix of names, each field is given   *)
(* at most once, no unknown member is passed over, and no alternative of a *)
(* oneof replaces another.                                                 *)
ReadsMeaning == outcome # None => Answers(doc, outcome)

(* What the calls under way have read so far is what it means, as each of  *)
(* them was made for the member, or the item, that the one below is at.    *)
(* So what the call on top returns decides what the document is read as.   *)
NestedMeanings(type) == [u \in NestedTypes(type) |-> Meanings[u]]

IsObject(type, members) ==
    /\ type \in MessageType
    /\ members \in Seq(Text \X Json)

MapOK(frame) ==
    /\ IsObject(frame.type, frame.items)
    /\ Obj(frame.items) \in Json
    /\ Clean(frame.type, frame.items, frame.done, NestedMeanings(frame.type))
    /\ frame.got = Given(frame.type, frame.items, frame.done, NestedMeanings(frame.type))

ListOK(frame) ==
    /\ frame.items \in Seq(Json)
    /\ frame.got \in Seq(Range(frame.got)) /\ Len(frame.got) = frame.done
    /\ \A i \in 1..frame.done : frame.got[i] \in Meanings[frame.type][frame.items[i]]

FrameOK(frame) ==
    /\ frame = [type |-> frame.type, list |-> frame.list, items |-> frame.items,
                done |-> frame.done, got |-> frame.got]
    /\ frame.type \in MessageType
    /\ frame.list \in BOOLEAN
    /\ frame.done \in 0..Len(frame.items)
    /\ IF frame.list THEN ListOK(frame) ELSE MapOK(frame)

Called(below, frame) ==
    /\ ~AtEnd(below)
    /\ IF below.list
       THEN /\ ~frame.list /\ frame.type = below.type
            /\ Item(below) = Obj(frame.items)
       ELSE \E f \in FieldsNamed(below.type, Item(below)[1]) :
                /\ f.of = frame.type
                /\ Free(below, f)
                /\ f.kind = IF frame.list THEN "list" ELSE "message"
                /\ Item(below)[2] = IF frame.list THEN Arr(frame.items)
                                    ELSE Obj(frame.items)

StackOK(d, frames) ==
    /\ frames \in Seq(Range(frames))
    /\ \A i \in 1..Len(frames) : FrameOK(frames[i])
    /\ \A i \in 1..Len(frames) : i > 1 => Called(frames[i - 1], frames[i])
    /\ frames # <<>> => /\ ~frames[1].list /\ frames[1].type = d.type
                        /\ d.json = Obj(frames[1].items)

(* What this library wrote is what the message is written as. *)
DocumentOK(d) ==
    /\ d.type \in MessageType
    /\ d.json \in Json
    /\ d.sent # None =>
           /\ d.sent \in Struct[d.type]
           /\ IF Writings[d.type][d.sent] = {} THEN d.json = Null
              ELSE d.json \in Writings[d.type][d.sent]

ReaderInvariant ==
    /\ IF doc = None THEN stack = <<>> /\ outcome = None
       ELSE DocumentOK(doc) /\ StackOK(doc, stack)
    /\ stack # <<>> => outcome = None
    /\ ReadsMeaning
=============================================================================
