--------------------------- MODULE CacheContract ---------------------------
(***************************************************************************)
(* What the article cache promises, apart from how it is kept: an entry is *)
(* only ever installed by an agent that copied the document out of Mongo,  *)
(* and the only other thing that happens to an entry is that it goes.      *)
(* Nothing is promised about how old the copy is when it is installed.     *)
(***************************************************************************)
EXTENDS Integers

CONSTANTS Ids,       \* article ids
          Agents     \* whoever copies documents into the cache

VARIABLES db,        \* db[i]: version of document i in Mongo, 0 when absent
          entry,     \* entry[i]: what redis holds under creation::i
          copy       \* copy[a]: the document agent a holds, and its id

avars == <<db, entry, copy>>

\* The values of a cache entry, ordered below every version.
NoEntry  == -2       \* the key is absent
EmptyDoc == -1       \* a blank Creation, what fms stores for a missing document
NullDoc  == 0        \* the null marker, what fish-web stores for one
NoCopy   == [id |-> "none", val |-> NoEntry]

\* What an agent may hold after it queried a document of version v.
CopiesOf(v) == IF v = 0 THEN {EmptyDoc, NullDoc} ELSE {v}

Init == /\ db \in [Ids -> Nat]
        /\ entry = [i \in Ids |-> NoEntry]
        /\ copy = [a \in Agents |-> NoCopy]

Save(i) == /\ db' = [db EXCEPT ![i] = @ + 1]
           /\ UNCHANGED <<entry, copy>>

Take(a, i) == /\ \E v \in CopiesOf(db[i]) :
                    copy' = [copy EXCEPT ![a] = [id |-> i, val |-> v]]
              /\ UNCHANGED <<db, entry>>

Drop(a) == /\ copy' = [copy EXCEPT ![a] = NoCopy]
           /\ UNCHANGED <<db, entry>>

Install(a) == /\ copy[a].id \in Ids
              /\ entry' = [entry EXCEPT ![copy[a].id] = copy[a].val]
              /\ copy' = [copy EXCEPT ![a] = NoCopy]
              /\ UNCHANGED db

Evict(i) == /\ entry' = [entry EXCEPT ![i] = NoEntry]
            /\ UNCHANGED <<db, copy>>

Next == \/ \E i \in Ids : Save(i) \/ Evict(i)
        \/ \E a \in Agents : Drop(a) \/ Install(a) \/ \E i \in Ids : Take(a, i)

Spec == Init /\ [][Next]_avars
=============================================================================
