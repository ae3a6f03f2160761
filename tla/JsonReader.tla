----------------------------- MODULE JsonReader -----------------------------
(***************************************************************************)
(* Reading a message from JSON: the visit_map functions of                 *)
(* cosmos.ics23.v1.serde.rs, a loop over the members of an object that     *)
(* calls itself for nested messages.  The calls under way are frames on a  *)
(* stack.                                                                  *)
(*                                                                         *)
(* JSON values: <<"null">>, <<"num", n>>, <<"bool", b>>, <<"str", s>>,     *)
(* <<"arr", values>> and <<"obj", members>>, a member being <<key, value>>.*)
(* Of a string only what it can be read as matters: s is <<"base64", bytes>>, *)
(* <<"decimal", n>> or <<"text", t>>.                                      *)
(***************************************************************************)
EXTENDS Structs

CONSTANTS
    Text,       \* what a key, or a string that is only a text, can be
    MaxNesting, \* how deep arrays and objects are nested, at most: the
                \* recursion_limit of serde_json, 128
    Documents   \* what others wrote: [type, json, sent], sent being None

(* A message is nested six deep at most, a list of each being one more     *)
(* level of an array: any message can be written.                          *)
ASSUME MaxNestingAssumption == MaxNesting \in Nat /\ MaxNesting >= 12

ASSUME TextAssumption ==
    /\ \A type \in MessageType : \A f \in Range(Fields[type]) : f.camel \in Text
    /\ \A enum \in DOMAIN EnumNames : Range(EnumNames[enum]) \subseteq Text

Scalars ==
    {<<"null">>} \cup ({"bool"} \X BOOLEAN) \cup ({"num"} \X Int)
    \cup ({"str"} \X (({"base64"} \X ByteStrings) \cup ({"decimal"} \X Int)
                       \cup ({"text"} \X Text)))

JsonValues[n \in 0..MaxNesting] ==
    IF n = 0 THEN Scalars
    ELSE LET inner == JsonValues[n - 1]
         IN  Scalars \cup ({"arr"} \X Seq(inner)) \cup ({"obj"} \X Seq(Text \X inner))

Json == JsonValues[MaxNesting]

ASSUME DocumentsAssumption == \A d \in Documents :
    /\ d # None
    /\ d.type \in MessageType
    /\ d.json \in Json
    /\ d.sent = None

VARIABLES
    doc,        \* the document that is read, None between calls
    stack,      \* the calls of visit_map, the outermost first
    outcome     \* <<"ok", message>> or <<"err">> at the end, None before

vars == <<doc, stack, outcome>>

IsNull(json)  == json[1] = "null"

(* A call of visit_map for a message, or the reading of a list of messages: *)
(* the first done items are read, got is what they were read as.  The      *)
(* slots that got does not have are the variables that are still unset.    *)
MapFrame(type, members) ==
    [type |-> type, list |-> FALSE, items |-> members, done |-> 0, got |-> <<>>]

ListFrame(type, values) ==
    [type |-> type, list |-> TRUE, items |-> values, done |-> 0, got |-> <<>>]

AtEnd(frame) == frame.done = Len(frame.items)
Item(frame)  == frame.items[frame.done + 1]

Top   == stack[Len(stack)]
Under == SubSeq(stack, 1, Len(stack) - 1)

(* visit_str of GeneratedField: each field by either of its names. *)
FieldsNamed(type, key) ==
    {f \in Range(Fields[type]) : key \in {f.camel, f.snake}}

-----------------------------------------------------------------------------
(* What a JSON value can be read as.  An empty set is an error.            *)

(* All of them, or none. *)
Each(sets) ==
    IF \E i \in DOMAIN sets : sets[i] = {} THEN {}
    ELSE {[i \in DOMAIN sets |-> CHOOSE x \in sets[i] : TRUE]}

(* NumberDeserialize and BytesDeserialize of pbjson, and the visitors of   *)
(* the enums: a number may be written as a string, an enum value by name   *)
(* or number.                                                              *)
NumbersOf(json) ==
    CASE json[1] = "num" -> {json[2]} \intersect Int32
      [] json[1] = "str" /\ json[2][1] = "decimal" -> {json[2][2]} \intersect Int32
      [] OTHER -> {}

EnumOf(enum, json) ==
    CASE json[1] = "num" -> {json[2]} \intersect EnumNumbers(enum)
      [] json[1] = "str" /\ json[2][1] = "text" ->
             {n \in EnumNumbers(enum) : EnumNames[enum][n + 1] = json[2][2]}
      [] OTHER -> {}

BytesOf(json) ==
    IF json[1] = "str" /\ json[2][1] = "base64" THEN {json[2][2]} ELSE {}

IntsOf(json) ==
    IF json[1] = "arr" THEN Each([i \in DOMAIN json[2] |-> NumbersOf(json[2][i])])
    ELSE {}

ScalarsOf(f, json) ==
    CASE f.kind = "int32" -> NumbersOf(json)
      [] f.kind = "ints"  -> IntsOf(json)
      [] f.kind = "bytes" -> BytesOf(json)
      [] f.kind = "bool"  -> IF json[1] = "bool" THEN {json[2]} ELSE {}
      [] f.kind = "enum"  -> EnumOf(f.of, json)

-----------------------------------------------------------------------------
Init ==
    /\ doc = None
    /\ stack = <<>>
    /\ outcome = None

(* deserialize: anything but an object is refused. *)
Open(d) ==
    /\ doc' = d
    /\ IF d.json[1] = "obj"
       THEN stack' = <<MapFrame(d.type, d.json[2])>> /\ outcome' = None
       ELSE stack' = <<>> /\ outcome' = <<"err">>

Read ==
    /\ doc = None
    /\ \E d \in Documents : Open(d)

(* As a mutant: an error ends only the call it happens in. *)
Fail_InnerOnly ==
    /\ stack' = Under
    /\ outcome' = <<"err">>
    /\ UNCHANGED doc

(* The first error ends all calls. *)
Fail ==
    /\ stack' = <<>>
    /\ outcome' = <<"err">>
    /\ UNCHANGED doc

Continue(frames) ==
    /\ stack' = frames
    /\ UNCHANGED <<doc, outcome>>

Reading(list) ==
    /\ stack # <<>>
    /\ Top.list = list

(* The frame after the member it was at has been stored, or skipped.       *)
With(got, s, v) == [t \in DOMAIN got \cup {s} |-> IF t = s THEN v ELSE got[t]]

Stored(frame, f, v) ==
    [frame EXCEPT !.done = @ + 1, !.got = With(@, f.slot, SlotValue(f, v))]

Skipped(frame) == [frame EXCEPT !.done = @ + 1]

(* As a mutant: a member that was there before is overwritten. *)
Free_Always(frame, f) == TRUE

Free(frame, f) == f.slot \notin DOMAIN frame.got

ReadScalar(f, json) ==
    \/ ScalarsOf(f, json) = {} /\ Fail
    \/ \E v \in ScalarsOf(f, json) : Continue(Append(Under, Stored(Top, f, v)))

(* A null for a message leaves its variable None: the field may come again. *)
ReadMessage(f, json) ==
    CASE IsNull(json)    -> Continue(Append(Under, Skipped(Top)))
      [] json[1] = "obj" -> Continue(Append(stack, MapFrame(f.of, json[2])))
      [] OTHER           -> Fail

ReadList(f, json) ==
    IF json[1] = "arr" THEN Continue(Append(stack, ListFrame(f.of, json[2])))
    ELSE Fail

(* One turn of the loop of visit_map.  The duplicate is noticed before the *)
(* value is looked at.                                                     *)
ReadMember ==
    /\ Reading(FALSE)
    /\ ~AtEnd(Top)
    /\ LET json  == Item(Top)[2]
           known == FieldsNamed(Top.type, Item(Top)[1])
       IN  \/ known = {} /\ Fail
           \/ \E f \in known :
                  IF Free(Top, f)
                  THEN CASE f.kind = "message" -> ReadMessage(f, json)
                         [] f.kind = "list"    -> ReadList(f, json)
                         [] OTHER              -> ReadScalar(f, json)
                  ELSE Fail

ReadItem ==
    /\ Reading(TRUE)
    /\ ~AtEnd(Top)
    /\ IF Item(Top)[1] = "obj"
       THEN Continue(Append(stack, MapFrame(Top.type, Item(Top)[2])))
       ELSE Fail

(* A call that has ended hands its value to the one below, or to the       *)
(* caller.                                                                 *)
Deliver(value) ==
    IF Under = <<>>
    THEN /\ stack' = <<>>
         /\ outcome' = <<"ok", value>>
         /\ UNCHANGED doc
    ELSE LET below == Under[Len(Under)]
             rest  == SubSeq(Under, 1, Len(Under) - 1)
         IN  IF below.list
             THEN Continue(Append(rest,
                      [below EXCEPT !.done = @ + 1, !.got = Append(@, value)]))
             ELSE \E f \in FieldsNamed(below.type, Item(below)[1]) :
                      Continue(Append(rest, Stored(below, f, value)))

(* After the loop: what was not there is the default. *)
Filled(type, got) ==
    [s \in Slots(type) |-> IF s \in DOMAIN got THEN got[s] ELSE DefaultOf(type, s)]

EndMap ==
    /\ Reading(FALSE)
    /\ AtEnd(Top)
    /\ Deliver(Filled(Top.type, Top.got))

EndList ==
    /\ Reading(TRUE)
    /\ AtEnd(Top)
    /\ Deliver(Top.got)

Return ==
    /\ outcome # None
    /\ doc' = None
    /\ stack' = <<>>
    /\ outcome' = None

Running == ReadMember \/ ReadItem \/ EndMap \/ EndList \/ Return
=============================================================================
