----------------------------- MODULE MCBatchApi -----------------------------
(***************************************************************************)
(* Model checking BatchApi: batches of what the stores write for two trees *)
(* and of what they do not, compressed or not, asked for every few keys.   *)
(***************************************************************************)
EXTENDS BatchApi, MCTrees

(* The leaves of the sparse tree are in the order of the digests of their  *)
(* keys, here the reverse of that of the keys.                             *)
ReversedKey == 1 :> MCKey[3] @@ 2 :> MCKey[2] @@ 3 :> MCKey[1]

SparseTree ==
    BuildTree(SmtSpec, SameLeafOp(SmtSpec), ReversedKey, MCValue(SmtSpec),
              Sparse, 5, SameHeader(Sparse), <<>>)

AllTrees == {TendermintTree, SparseTree}

-----------------------------------------------------------------------------
(* Keys before, between and after those of the trees. *)
Absent == <<<<Byte(0)>>, <<Byte(2)>>, <<Byte(4)>>, <<Byte(7)>>>>

Presence(t) == [n \in t.leaves |-> Exist(HonestProof(t, n))]

Absence(t, key) ==
    LET absence == HonestAbsence(t, key).proof
    IN  Nonexist(absence.left, absence.right)

(* Entries no store writes: a false value, two leaves that are no          *)
(* neighbors, the sides of a gap swapped.                                  *)
Wrong(t) ==
    {Exist([HonestProof(t, 1) EXCEPT !.value = <<Byte(7)>>]),
     Nonexist(HonestProof(t, 1), HonestProof(t, 3)),
     Nonexist(HonestProof(t, 3), HonestProof(t, 2))}

Entries(t) ==
    {NoProof} \union Range(Presence(t)) \union Wrong(t)
        \union {Absence(t, Absent[i]) : i \in DOMAIN Absent}

Second(t) == {NoProof, Presence(t)[1], Absence(t, Absent[2])}

(* All of a tree's entries at once, in two orders. *)
All(t) ==
    Presence(t) \o [i \in DOMAIN Absent |-> Absence(t, Absent[i])]

AllProofs(t) ==
    {Batch(<<e>>) : e \in Entries(t)}
        \union {Batch(<<e, f>>) : e \in Entries(t), f \in Second(t)}
        \union {Batch(<<>>), Batch(All(t)), Batch(Reverse(All(t)))}
        \union {NoProof, Presence(t)[1], Absence(t, Absent[2])}

(* A compressed batch from elsewhere: a leaf with a path that is empty     *)
(* because of its index, and one without a table.                          *)
Damaged(t) ==
    LET proof == HonestProof(t, 1)
    IN  {Compressed(<<Exist([proof EXCEPT !.path = p])>>, proof.path) :
            p \in {<<0, 1>>, <<0, 2>>, <<-1>>, <<>>}}

Items(t) ==
    LET present(n) == [key |-> t.key[n], value |-> t.value[n]]
        lie        == [key |-> t.key[2], value |-> FalseValue]
    IN  {<<>>, <<present(1)>>, <<lie>>, <<present(1), present(3)>>,
         <<present(1), lie>>, <<present(1), present(2), present(3)>>}

Keys(t) ==
    {<<>>, <<[key |-> t.key[2]]>>, <<[key |-> Absent[2]], [key |-> t.key[2]]>>}
        \union {<<[key |-> k]>> : k \in Range(Absent)}
        \union {<<[key |-> Absent[1]], [key |-> Absent[3]]>>,
                [i \in DOMAIN Absent |-> [key |-> Absent[i]]]}

Asked(t, about, items) ==
    {[about |-> about, proof |-> p, spec |-> t.spec, root |-> t.hash[t.root],
      items |-> i] : p \in AllProofs(t) \union Damaged(t), i \in items}

QueriesOf(t) ==
    Asked(t, "membership", Items(t)) \union Asked(t, "absence", Keys(t))

AllQueries == UNION {QueriesOf(t) : t \in AllTrees}

MCTreeSet  == AllTrees
MCQueries  == AllQueries
SomeProofs == UNION {AllProofs(t) : t \in AllTrees}
SomeReceived == UNION {Damaged(t) : t \in AllTrees}
SomeOps ==
    UNION {UNION {Range(TreePath(t, n)) : n \in t.leaves} : t \in AllTrees}

MCProofs   == SomeProofs
MCReceived == SomeReceived
MCInnerOps == SomeOps
=============================================================================
