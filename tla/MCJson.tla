------------------------------- MODULE MCJson -------------------------------
(***************************************************************************)
(* JsonCodec on small messages and documents: every message of every type  *)
(* over a few values of each field, some deep ones, and for every type all *)
(* objects with one member over a pool of values and with two members over *)
(* a smaller one.                                                          *)
(***************************************************************************)
EXTENDS JsonCodec

CONSTANT TheNone

MCNone  == TheNone

(* The numbers of an enum end at 8 and 9; 11 is one that no enum has, 99   *)
(* does not fit.                                                           *)
MCInt32 == -2..12
Unknown == 11
TooLarge == 99

MCByteStrings == Seq(0..2)
MCText == STRING

(* Messages are nested six deep, with a list of each. *)
MCMaxNesting == 12

-----------------------------------------------------------------------------
(* What a field of a message holds in the run. *)
FieldValues(f) ==
    CASE f.kind = "bytes"   -> {<<>>, <<1>>}
      [] f.kind = "int32"   -> {0, -1, 2}
      [] f.kind = "bool"    -> BOOLEAN
      [] f.kind = "ints"    -> {<<>>, <<0>>, <<2, 0>>}
      [] f.kind = "enum"    -> {0, 1, Unknown}
      [] f.kind = "message" -> {None, DefaultMessage(f.of)}
      [] f.kind = "list"    -> {<<>>, <<DefaultMessage(f.of), DefaultMessage(f.of)>>}

SlotValues(type, s) ==
    IF s = "proof"
    THEN {None} \cup {<<f.camel, DefaultMessage(f.of)>> : f \in Range(Fields[type])}
    ELSE UNION {FieldValues(f) : f \in {g \in Range(Fields[type]) : g.slot = s}}

(* The default message with at most three slots that hold something else. *)
Varied(type) ==
    {[DefaultMessage(type) EXCEPT ![c[1][1]] = c[1][2], ![c[2][1]] = c[2][2],
                                  ![c[3][1]] = c[3][2]] :
        c \in LET set == UNION {{s} \X SlotValues(type, s) : s \in Slots(type)}
              IN  set \X set \X set}

(* Messages with content at every level. *)
Leaf     == [hash |-> 1, prehash_key |-> 0, prehash_value |-> 5, length |-> 8,
             prefix |-> <<0>>]
BadLeaf  == [Leaf EXCEPT !.length = 9]
Inner    == [hash |-> 1, prefix |-> <<1>>, suffix |-> <<>>]
Exist(leaf) ==
    [key |-> <<1>>, value |-> <<2>>, leaf |-> leaf, path |-> <<Inner, Inner>>]
Absent(leaf) ==
    [key |-> <<1>>, left |-> None, right |-> Exist(leaf)]
Small(leaf) ==
    [key |-> <<1>>, value |-> <<>>, leaf |-> leaf, path |-> <<0, 1, 0>>]
Batch(leaf) ==
    [entries |-> <<[proof |-> <<"nonexist", Absent(leaf)>>], [proof |-> None],
                   [proof |-> <<"exist", Exist(Leaf)>>]>>]
Compressed(leaf) ==
    [entries |-> <<[proof |-> <<"exist", Small(Leaf)>>],
                   [proof |-> <<"nonexist",
                       [key |-> <<>>, left |-> Small(leaf), right |-> None]>>]>>,
     lookup_inners |-> <<Inner, DefaultMessage("InnerOp")>>]
Deep(leaf) ==
    {[proof |-> <<"exist", Exist(leaf)>>], [proof |-> <<"nonexist", Absent(leaf)>>],
     [proof |-> <<"batch", Batch(leaf)>>],
     [proof |-> <<"compressed", Compressed(leaf)>>]}

MCMessages ==
    UNION {{[type |-> t, message |-> m] : m \in Varied(t)} : t \in MessageType}
    \cup {[type |-> "CommitmentProof", message |-> m] : m \in Deep(Leaf) \cup Deep(BadLeaf)}

-----------------------------------------------------------------------------
(* Values a member may have: numbers and strings of every sort, null, and  *)
(* arrays and objects that are or are not what a field expects.            *)
Values ==
    {Null, <<"bool", TRUE>>, Num(2), Num(Unknown), Num(TooLarge),
     Str(<<"base64", <<>>>>), Str(<<"base64", <<1>>>>),
     Str(<<"decimal", 2>>), Str(<<"decimal", TooLarge>>),
     Str(<<"text", "SHA256">>), Str(<<"text", "VAR_PROTO">>),
     Arr(<<>>), Arr(<<Num(0), Str(<<"decimal", 2>>)>>), Arr(<<Num(TooLarge)>>),
     Arr(<<Null>>), Arr(<<Obj(<<>>), Obj(<<>>)>>), Arr(<<Obj(<<>>), Arr(<<>>)>>),
     Obj(<<>>), Obj(<<<<"unknown", Null>>>>), Obj(<<<<"key", Str(<<"base64", <<2>>>>)>>>>)}

FewValues(f) ==
    {Null,
     CASE f.kind = "bytes"   -> Str(<<"base64", <<1>>>>)
       [] f.kind = "int32"   -> Num(0)
       [] f.kind = "bool"    -> <<"bool", FALSE>>
       [] f.kind = "ints"    -> Arr(<<Num(2)>>)
       [] f.kind = "enum"    -> Num(1)
       [] f.kind = "message" -> Obj(<<>>)
       [] f.kind = "list"    -> Arr(<<Obj(<<>>)>>)}

Names(f) == {f.camel, f.snake}

Keys(type) == UNION {Names(f) : f \in Range(Fields[type])} \cup {"unknown"}

Members(type) == Keys(type) \X Values

FewMembers(type) ==
    UNION {Names(f) \X FewValues(f) : f \in Range(Fields[type])}
    \cup {<<"unknown", Null>>}

Objects(type) ==
    {Obj(<<>>), Null, Arr(<<>>)}
    \cup {Obj(<<p>>) : p \in Members(type)}
    \cup {Obj(<<p[1], p[2]>>) : p \in FewMembers(type) \X FewMembers(type)}

(* The same, inside another message. *)
Nested ==
    {Obj(<<<<"leaf", o>>, <<"path", Arr(<<p>>)>>>>) :
        o \in {Obj(<<<<"hash", v>>>>) : v \in Values},
        p \in {Obj(<<<<"suffix", v>>>>) : v \in Values}}

MCDocuments ==
    UNION {{[type |-> t, json |-> o, sent |-> None] : o \in Objects(t)} :
              t \in MessageType}
    \cup {[type |-> "ExistenceProof", json |-> o, sent |-> None] : o \in Nested}
=============================================================================
