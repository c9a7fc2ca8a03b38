-------------------------- MODULE StateStoreProofs --------------------------
(***************************************************************************)
(* What the store promises, for every set of map families, keys, values    *)
(* and notes, and wherever the process dies.  The proof has three parts:   *)
(* the difference of two states turns the entities of the one into those   *)
(* of the other; what decode_state reads back is the state that was        *)
(* encoded; and a tree update leaves exactly the current tree.  The        *)
(* inductive invariant then follows a write transaction table by table.    *)
(***************************************************************************)
EXTENDS StateStore, SequenceTheorems, TLAPS

-----------------------------------------------------------------------------
(* Keys and values. *)

RootSuffix == <<"root">>

\* The keys of different kinds of entities differ, and none is the tree's root.
LEMMA KeysDiffer ==
    /\ MetaKey # LogKey /\ MetaKey # KeySetKey /\ MetaKey # HeaderKey
    /\ LogKey # KeySetKey /\ LogKey # HeaderKey /\ KeySetKey # HeaderKey
    /\ RootSuffix \notin {MetaKey, LogKey, KeySetKey, HeaderKey}
    /\ \A f, i : MapKey(f, i) \notin {MetaKey, LogKey, KeySetKey, HeaderKey, RootSuffix}
    /\ \A f, i, g, j : MapKey(f, i) = MapKey(g, j) => f = g /\ i = j
    /\ \A i : NoteKey(i) = MapKey("shielded_note", i)
    /\ \A n : NullifierKey(n) = MapKey("shielded_nullifier", n)
<1>1. \A a, b : <<a>> = <<b>> => a = b
  OBVIOUS
<1>2. \A a, f, i : <<a>> # <<f, i>>
  OBVIOUS
<1> QED BY <1>1, <1>2 DEF MetaKey, LogKey, KeySetKey, HeaderKey, RootSuffix, MapKey,
             NoteKey, NullifierKey

\* What each kind of key holds.
LEMMA ValueOf ==
    ASSUME NEW s
    PROVE  /\ EntityValue(s, MetaKey) = s.height
           /\ EntityValue(s, LogKey) = s.log
           /\ EntityValue(s, KeySetKey) = s.keySet
           /\ EntityValue(s, HeaderKey) = HeaderOf(s.ledger)
           /\ \A i : EntityValue(s, NoteKey(i)) = s.ledger.notes[i]
           /\ \A n : EntityValue(s, NullifierKey(n)) = TRUE
<1>1. \A f, i : MapKey(f, i)[1] = f /\ MapKey(f, i)[2] = i
  BY DEF MapKey
<1>3. \A k \in {MetaKey, LogKey, KeySetKey, HeaderKey} :
        k[1] # "shielded_note" /\ k[1] # "shielded_nullifier"
  BY DEF MetaKey, LogKey, KeySetKey, HeaderKey
<1>4. EntityValue(s, MetaKey) = s.height /\ EntityValue(s, LogKey) = s.log
  BY KeysDiffer, <1>3 DEF EntityValue
<1>5. /\ EntityValue(s, KeySetKey) = s.keySet
      /\ EntityValue(s, HeaderKey) = HeaderOf(s.ledger)
  BY KeysDiffer, <1>3 DEF EntityValue
<1>6. \A i : EntityValue(s, NoteKey(i)) = s.ledger.notes[i]
  BY KeysDiffer, <1>1 DEF EntityValue
<1>7. \A n : EntityValue(s, NullifierKey(n)) = TRUE
  BY KeysDiffer, <1>1 DEF EntityValue
<1> QED BY <1>4, <1>5, <1>6, <1>7

LEMMA MapValueOf ==
    ASSUME NEW s, NEW f \in Families, NEW i
    PROVE  EntityValue(s, MapKey(f, i)) = s.maps[f][i]
<1> DEFINE k == MapKey(f, i)
<1>1. k \notin {MetaKey, LogKey, KeySetKey, HeaderKey}
  BY KeysDiffer
<1>2. k[1] = f /\ k[2] = i
  BY DEF MapKey
<1>3. k[1] # "shielded_note" /\ k[1] # "shielded_nullifier"
  BY <1>2, StoreAssumption
<1> HIDE DEF k
<1>4. EntityValue(s, k) = s.maps[k[1]][k[2]]
  BY <1>1, <1>3 DEF EntityValue
<1> QED BY <1>2, <1>4 DEF k

\* A state's parts have the types the encoding relies on.
LEMMA StateParts ==
    ASSUME NEW s \in States
    PROVE  /\ s = [height |-> s.height, log |-> s.log, maps |-> s.maps,
                   keySet |-> s.keySet, ledger |-> s.ledger]
           /\ s.height \in 0..MaxHeight /\ s.log \in Values
           /\ s.maps \in [Families -> Maps]
           /\ DOMAIN s.maps["markets"] = DOMAIN s.maps["books"]
           /\ s.keySet \in Values \cup {None}
           /\ s.ledger \in Ledgers \cup {None}
BY DEF States

LEMMA MapParts ==
    ASSUME NEW s \in States, NEW f \in Families
    PROVE  /\ DOMAIN s.maps[f] \subseteq Ids
           /\ s.maps[f] = [i \in DOMAIN s.maps[f] |-> s.maps[f][i]]
<1>1. s.maps[f] \in Maps
  BY StateParts
<1>2. PICK D \in SUBSET Ids : s.maps[f] \in [D -> Values]
  BY <1>1 DEF Maps
<1> QED BY <1>2

LEMMA LedgerParts ==
    ASSUME NEW l \in Ledgers
    PROVE  /\ l = [notes |-> l.notes, spent |-> l.spent]
           /\ l.notes \in Seq(Notes) /\ Len(l.notes) \in 0..MaxNotes
           /\ DOMAIN l.notes = 1..Len(l.notes)
           /\ l.notes = [i \in 1..Len(l.notes) |-> l.notes[i]]
           /\ l.spent \subseteq Nullifiers
<1>1. PICK n \in 0..MaxNotes : l.notes \in [1..n -> Notes]
  BY DEF Ledgers
<1>2. l = [notes |-> l.notes, spent |-> l.spent] /\ l.spent \subseteq Nullifiers
  BY DEF Ledgers
<1>3. n \in Nat /\ l.notes \in Seq(Notes) /\ Len(l.notes) = n
  BY <1>1, StoreAssumption
<1> QED BY <1>1, <1>2, <1>3

-----------------------------------------------------------------------------
(* The difference of two states. *)

Override(k, t) == IF k \in EntityKeys(t) THEN EntityValue(t, k) ELSE Deleted

\* Among the keys of K, m is exactly what has to be written to get from the
\* entities of s to those of t.
Covers(m, K, s, t) ==
    /\ DOMAIN m \subseteq EntityKeys(s) \cup EntityKeys(t)
    /\ m = [k \in DOMAIN m |-> Override(k, t)]
    /\ \A k \in K \cap (EntityKeys(s) \cup EntityKeys(t)) :
          k \notin DOMAIN m =>
            /\ k \in EntityKeys(s) /\ k \in EntityKeys(t)
            /\ EntityValue(s, k) = EntityValue(t, k)

\* Two differences can be put together.
LEMMA MergeCovers ==
    ASSUME NEW s, NEW t, NEW m1, NEW m2, NEW K1, NEW K2,
           Covers(m1, K1, s, t), Covers(m2, K2, s, t)
    PROVE  Covers(Merge(m1, m2), K1 \cup K2, s, t)
<1>1. /\ DOMAIN Merge(m1, m2) = DOMAIN m1 \cup DOMAIN m2
      /\ Merge(m1, m2) = [k \in DOMAIN m1 \cup DOMAIN m2 |->
                             IF k \in DOMAIN m2 THEN m2[k] ELSE m1[k]]
  BY DEF Merge
<1>2. \A k \in DOMAIN m1 \cup DOMAIN m2 :
        (IF k \in DOMAIN m2 THEN m2[k] ELSE m1[k]) = Override(k, t)
  BY DEF Covers
<1>3. Merge(m1, m2) = [k \in DOMAIN m1 \cup DOMAIN m2 |-> Override(k, t)]
  BY <1>1, <1>2
<1> QED BY <1>1, <1>3 DEF Covers

LEMMA ScalarCovers ==
    ASSUME NEW s, NEW t, NEW k
    PROVE  Covers(ScalarDiff(s, t, k), {k}, s, t)
<1>1. CASE k \in EntityKeys(s) /\ k \in EntityKeys(t) /\ EntityValue(s, k) = EntityValue(t, k)
  <2>1. ScalarDiff(s, t, k) = <<>> /\ DOMAIN <<>> = {} /\ <<>> = [j \in {} |-> Override(j, t)]
    BY <1>1 DEF ScalarDiff
  <2> QED BY <1>1, <2>1 DEF Covers
<1>2. CASE ~(k \in EntityKeys(s) /\ k \in EntityKeys(t) /\ EntityValue(s, k) = EntityValue(t, k))
  <2> DEFINE D == {k} \cap (EntityKeys(s) \cup EntityKeys(t))
  <2>1. ScalarDiff(s, t, k) = [j \in D |-> Override(j, t)]
    BY <1>2 DEF ScalarDiff, Override
  <2> QED BY <2>1 DEF Covers
<1> QED BY <1>1, <1>2

\* The keys of one family, and of the ledger.
FamilyKeys(f) == {MapKey(f, i) : i \in Ids}
AllMapKeys == UNION {FamilyKeys(f) : f \in Families}
AllLedgerKeys == {HeaderKey} \cup {NoteKey(i) : i \in 1..MaxNotes}
                             \cup {NullifierKey(n) : n \in Nullifiers}

\* The keys of a ledger.
LEMMA LedgerKeysTyped ==
    ASSUME NEW s \in States
    PROVE  LedgerKeys(s) \subseteq AllLedgerKeys
<1>1. CASE s.ledger = None
  BY <1>1 DEF LedgerKeys
<1>2. CASE s.ledger # None
  <2>1. s.ledger \in Ledgers
    BY <1>2, StateParts
  <2>2. 1..Len(s.ledger.notes) \subseteq 1..MaxNotes /\ s.ledger.spent \subseteq Nullifiers
    <3>1. Len(s.ledger.notes) \in 0..MaxNotes /\ s.ledger.spent \subseteq Nullifiers
      BY <2>1, LedgerParts
    <3> QED BY <3>1, StoreAssumption
  <2> QED BY <1>2, <2>2 DEF LedgerKeys, AllLedgerKeys
<1> QED BY <1>1, <1>2

\* Which keys a state has.
LEMMA KeysOf ==
    ASSUME NEW s \in States
    PROVE  /\ EntityKeys(s) \subseteq {MetaKey, LogKey, KeySetKey}
                                        \cup AllMapKeys \cup AllLedgerKeys
           /\ MetaKey \in EntityKeys(s) /\ LogKey \in EntityKeys(s)
           /\ KeySetKey \in EntityKeys(s) <=> s.keySet # None
           /\ \A k \in AllLedgerKeys : k \in EntityKeys(s) <=> k \in LedgerKeys(s)
           /\ \A f \in Families : \A i : MapKey(f, i) \in EntityKeys(s) <=> i \in DOMAIN s.maps[f]
           /\ RootSuffix \notin EntityKeys(s)
<1>1. MapKeys(s) \subseteq AllMapKeys
  <2> SUFFICES ASSUME NEW f \in Families, NEW i \in DOMAIN s.maps[f]
               PROVE  MapKey(f, i) \in AllMapKeys
    BY DEF MapKeys
  <2>1. i \in Ids
    BY MapParts
  <2> QED BY <2>1 DEF AllMapKeys, FamilyKeys
<1>2. LedgerKeys(s) \subseteq AllLedgerKeys
  BY LedgerKeysTyped
<1>3. \A f \in Families : \A i : MapKey(f, i) \in MapKeys(s) <=> i \in DOMAIN s.maps[f]
  BY KeysDiffer DEF MapKeys
<1>4. \A k \in AllMapKeys : k \notin AllLedgerKeys \cup {MetaKey, LogKey, KeySetKey, RootSuffix}
  BY KeysDiffer, StoreAssumption DEF AllMapKeys, FamilyKeys, AllLedgerKeys
<1>5. \A f \in Families : \A i :
        MapKey(f, i) \notin AllLedgerKeys \cup {MetaKey, LogKey, KeySetKey, RootSuffix}
  BY KeysDiffer, StoreAssumption DEF AllLedgerKeys
<1>6. \A k \in AllLedgerKeys : k \notin {MetaKey, LogKey, KeySetKey, RootSuffix}
  BY KeysDiffer DEF AllLedgerKeys
<1>7. EntityKeys(s) = {MetaKey, LogKey} \cup MapKeys(s) \cup LedgerKeys(s)
                        \cup (IF s.keySet = None THEN {} ELSE {KeySetKey})
  BY DEF EntityKeys
<1>8. RootSuffix \notin EntityKeys(s)
  BY <1>1, <1>2, <1>4, <1>6, <1>7, KeysDiffer
<1>9. KeySetKey \in EntityKeys(s) <=> s.keySet # None
  BY <1>1, <1>2, <1>4, <1>6, <1>7, KeysDiffer
<1>10. \A k \in AllLedgerKeys : k \in EntityKeys(s) <=> k \in LedgerKeys(s)
  BY <1>1, <1>4, <1>6, <1>7
<1>11. \A f \in Families : \A i : MapKey(f, i) \in EntityKeys(s) <=> i \in DOMAIN s.maps[f]
  BY <1>2, <1>3, <1>5, <1>7
<1> QED BY <1>1, <1>2, <1>7, <1>8, <1>9, <1>10, <1>11

\* push_map_diff writes what changed in its family, and nothing else.
LEMMA FamilyCovers ==
    ASSUME NEW s \in States, NEW t \in States, NEW f \in Families
    PROVE  /\ Covers(push_map_diff(s, t, f), FamilyKeys(f), s, t)
           /\ DOMAIN push_map_diff(s, t, f) \subseteq FamilyKeys(f)
<1> DEFINE old == s.maps[f]
           new == t.maps[f]
           changed == {i \in DOMAIN new : i \notin DOMAIN old}
                        \cup {i \in DOMAIN new \cap DOMAIN old : new[i] # old[i]}
                        \cup (DOMAIN old \ DOMAIN new)
           m == push_map_diff(s, t, f)
<1>1. /\ DOMAIN m = {MapKey(f, i) : i \in changed}
      /\ m = [k \in {MapKey(f, i) : i \in changed} |->
                IF k[2] \in DOMAIN old \ DOMAIN new THEN Deleted ELSE new[k[2]]]
  BY DEF push_map_diff
<1>2. \A i : MapKey(f, i)[2] = i
  BY DEF MapKey
<1>3. ASSUME NEW i
      PROVE  /\ MapKey(f, i) \in EntityKeys(s) <=> i \in DOMAIN old
             /\ MapKey(f, i) \in EntityKeys(t) <=> i \in DOMAIN new
             /\ EntityValue(s, MapKey(f, i)) = old[i]
             /\ EntityValue(t, MapKey(f, i)) = new[i]
  <2>1. /\ MapKey(f, i) \in EntityKeys(s) <=> i \in DOMAIN old
        /\ MapKey(f, i) \in EntityKeys(t) <=> i \in DOMAIN new
    BY KeysOf
  <2>2. EntityValue(s, MapKey(f, i)) = old[i] /\ EntityValue(t, MapKey(f, i)) = new[i]
    BY MapValueOf
  <2> QED BY <2>1, <2>2
<1>4. changed \subseteq Ids
  BY MapParts
<1>5. DOMAIN m \subseteq FamilyKeys(f)
  BY <1>1, <1>4 DEF FamilyKeys
<1>6. DOMAIN m \subseteq EntityKeys(s) \cup EntityKeys(t)
  BY <1>1, <1>3
<1>7. m = [k \in DOMAIN m |-> Override(k, t)]
  <2>1. \A i \in changed : m[MapKey(f, i)] = Override(MapKey(f, i), t)
    BY <1>1, <1>2, <1>3 DEF Override
  <2> QED BY <1>1, <2>1
<1>8. ASSUME NEW i \in Ids, MapKey(f, i) \in EntityKeys(s) \cup EntityKeys(t),
             MapKey(f, i) \notin DOMAIN m
      PROVE  /\ MapKey(f, i) \in EntityKeys(s) /\ MapKey(f, i) \in EntityKeys(t)
             /\ EntityValue(s, MapKey(f, i)) = EntityValue(t, MapKey(f, i))
  <2>1. i \notin changed
    BY <1>1, <1>8
  <2> QED BY <1>3, <1>8, <2>1
<1> QED BY <1>5, <1>6, <1>7, <1>8 DEF Covers, FamilyKeys

\* The families together: a changed key is found in the difference of its
\* family, whichever difference CHOOSE picks.
MapDiff(s, t) ==
    LET maps == {push_map_diff(s, t, f) : f \in Families}
    IN  [k \in UNION {DOMAIN d : d \in maps} |-> (CHOOSE d \in maps : k \in DOMAIN d)[k]]

LEMMA FamiliesCover ==
    ASSUME NEW s \in States, NEW t \in States
    PROVE  Covers(MapDiff(s, t), AllMapKeys, s, t)
<1> DEFINE maps == {push_map_diff(s, t, f) : f \in Families}
           D == UNION {DOMAIN d : d \in maps}
           pick(k) == CHOOSE d \in maps : k \in DOMAIN d
<1>1. MapDiff(s, t) = [k \in D |-> pick(k)[k]] /\ DOMAIN MapDiff(s, t) = D
  BY DEF MapDiff
<1>2. ASSUME NEW k \in D PROVE pick(k) \in maps /\ k \in DOMAIN pick(k)
  <2>1. \E d \in maps : k \in DOMAIN d
    OBVIOUS
  <2> QED BY <2>1
<1>3. ASSUME NEW d \in maps, NEW k \in DOMAIN d
      PROVE  d[k] = Override(k, t) /\ k \in EntityKeys(s) \cup EntityKeys(t)
  <2>1. PICK f \in Families : d = push_map_diff(s, t, f)
    OBVIOUS
  <2>2. d = [j \in DOMAIN d |-> Override(j, t)] /\ DOMAIN d \subseteq EntityKeys(s) \cup EntityKeys(t)
    BY <2>1, FamilyCovers DEF Covers
  <2> QED BY <2>2
<1>4. ASSUME NEW k \in AllMapKeys, k \in EntityKeys(s) \cup EntityKeys(t), k \notin D
      PROVE  /\ k \in EntityKeys(s) /\ k \in EntityKeys(t)
             /\ EntityValue(s, k) = EntityValue(t, k)
  <2>1. PICK f \in Families : k \in FamilyKeys(f)
    BY DEF AllMapKeys
  <2>2. push_map_diff(s, t, f) \in maps
    OBVIOUS
  <2>3. k \notin DOMAIN push_map_diff(s, t, f)
    BY <1>4, <2>2
  <2> QED BY <1>4, <2>1, <2>3, FamilyCovers DEF Covers
<1> HIDE DEF D, pick, maps
<1>5. \A k \in D : pick(k)[k] = Override(k, t) /\ k \in EntityKeys(s) \cup EntityKeys(t)
  BY <1>2, <1>3
<1>6. MapDiff(s, t) = [k \in D |-> Override(k, t)]
  BY <1>1, <1>5
<1> QED BY <1>1, <1>4, <1>5, <1>6 DEF Covers

\* push_shielded_diff writes what an append-only ledger gained.
LEMMA ShieldedCovers ==
    ASSUME NEW s \in States, NEW t \in States, ShieldedAppendOnly(s.ledger, t.ledger)
    PROVE  Covers(push_shielded_diff(s, t), AllLedgerKeys, s, t)
<1> DEFINE before == LedgerKeys(s)
           after == LedgerKeys(t)
           m == push_shielded_diff(s, t)
<1>1. /\ before \subseteq AllLedgerKeys /\ after \subseteq AllLedgerKeys
      /\ \A k \in AllLedgerKeys : /\ k \in EntityKeys(s) <=> k \in before
                                  /\ k \in EntityKeys(t) <=> k \in after
  <2>1. ASSUME NEW u \in States PROVE LedgerKeys(u) \subseteq AllLedgerKeys
    BY LedgerKeysTyped
  <2> QED BY <2>1, KeysOf
<1>2. /\ DOMAIN m \subseteq before \cup after
      /\ m = [k \in DOMAIN m |-> IF k \in after THEN EntityValue(t, k) ELSE Deleted]
      /\ (after \ before) \cup (before \ after) \subseteq DOMAIN m
      /\ HeaderKey \notin DOMAIN m /\ s.ledger # None /\ t.ledger # None
            => HeaderOf(s.ledger) = HeaderOf(t.ledger)
  <2>1. HeaderKey \in before <=> s.ledger # None
    BY KeysDiffer DEF LedgerKeys
  <2>2. HeaderKey \in after <=> t.ledger # None
    BY KeysDiffer DEF LedgerKeys
  <2> QED BY <2>1, <2>2 DEF push_shielded_diff
<1>3. m = [k \in DOMAIN m |-> Override(k, t)]
  BY <1>1, <1>2 DEF Override
<1>4. ASSUME NEW k \in AllLedgerKeys, k \in EntityKeys(s) \cup EntityKeys(t), k \notin DOMAIN m
      PROVE  /\ k \in EntityKeys(s) /\ k \in EntityKeys(t)
             /\ EntityValue(s, k) = EntityValue(t, k)
  <2>1. k \in before /\ k \in after /\ k \in EntityKeys(s) /\ k \in EntityKeys(t)
    BY <1>1, <1>2, <1>4
  <2>2. s.ledger # None /\ t.ledger # None /\ s.ledger \in Ledgers /\ t.ledger \in Ledgers
    BY <2>1, StateParts DEF LedgerKeys
  <2>3. ASSUME k = HeaderKey
        PROVE  EntityValue(s, k) = EntityValue(t, k)
    <3>1. HeaderOf(s.ledger) = HeaderOf(t.ledger)
      BY <1>2, <1>4, <2>2, <2>3
    <3>2. /\ EntityValue(s, HeaderKey) = HeaderOf(s.ledger)
          /\ EntityValue(t, HeaderKey) = HeaderOf(t.ledger)
      BY ValueOf
    <3> QED BY <2>3, <3>1, <3>2
  <2>4. ASSUME NEW i \in 1..MaxNotes, k = NoteKey(i)
        PROVE  EntityValue(s, k) = EntityValue(t, k)
    <3>1. i \in 1..Len(s.ledger.notes)
      BY <2>1, <2>2, <2>4, KeysDiffer DEF LedgerKeys
    <3>2. SubSeq(t.ledger.notes, 1, Len(s.ledger.notes)) = s.ledger.notes
      BY <2>2 DEF ShieldedAppendOnly
    <3>3. /\ s.ledger.notes \in Seq(Notes) /\ t.ledger.notes \in Seq(Notes)
          /\ Len(t.ledger.notes) >= Len(s.ledger.notes)
      BY <2>2, LedgerParts DEF ShieldedAppendOnly
    <3>4. s.ledger.notes[i] = t.ledger.notes[i]
      BY <3>1, <3>2, <3>3
    <3> QED BY <2>4, <3>4, ValueOf
  <2>5. ASSUME NEW n \in Nullifiers, k = NullifierKey(n)
        PROVE  EntityValue(s, k) = EntityValue(t, k)
    BY <2>5, ValueOf
  <2> QED BY <2>1, <2>3, <2>4, <2>5 DEF AllLedgerKeys
<1> QED BY <1>1, <1>2, <1>3, <1>4 DEF Covers

\* state_mutations is exactly what has to be written: every key whose value
\* changed, appeared or went away, with its new value.
LEMMA MutationsCover ==
    ASSUME NEW s \in States, NEW t \in States, ShieldedAppendOnly(s.ledger, t.ledger)
    PROVE  Covers(state_mutations(s, t), EntityKeys(s) \cup EntityKeys(t), s, t)
<1> DEFINE scalars == Merge(ScalarDiff(s, t, MetaKey),
                        Merge(ScalarDiff(s, t, LogKey), ScalarDiff(s, t, KeySetKey)))
           rest == Merge(MapDiff(s, t), push_shielded_diff(s, t))
           K == ({MetaKey} \cup ({LogKey} \cup {KeySetKey})) \cup (AllMapKeys \cup AllLedgerKeys)
<1>1. s # None
  BY EncodingAssumption
<1>2. state_mutations(s, t) = Merge(scalars, rest)
  BY <1>1 DEF state_mutations, MapDiff
<1>3. Covers(scalars, {MetaKey} \cup ({LogKey} \cup {KeySetKey}), s, t)
  <2>1. Covers(Merge(ScalarDiff(s, t, LogKey), ScalarDiff(s, t, KeySetKey)),
               {LogKey} \cup {KeySetKey}, s, t)
    BY ScalarCovers, MergeCovers
  <2> QED BY <2>1, ScalarCovers, MergeCovers
<1>4. Covers(rest, AllMapKeys \cup AllLedgerKeys, s, t)
  BY FamiliesCover, ShieldedCovers, MergeCovers
<1>5. Covers(Merge(scalars, rest), K, s, t)
  BY <1>3, <1>4, MergeCovers
<1>6. EntityKeys(s) \cup EntityKeys(t) \subseteq K
  BY KeysOf
<1> QED BY <1>2, <1>5, <1>6 DEF Covers

-----------------------------------------------------------------------------
(* Reading back what was written. *)

\* The entities of a state decode, and to that state.
LEMMA DecodesToItself ==
    ASSUME NEW s \in States
    PROVE  /\ Decodable(all_entities(s))
           /\ decode_state(all_entities(s)) = s
<1> DEFINE e == all_entities(s)
<1>1. /\ DOMAIN e = EntityKeys(s)
      /\ \A k \in EntityKeys(s) : e[k] = EntityValue(s, k)
  BY DEF all_entities
<1>2. MetaKey \in DOMAIN e /\ LogKey \in DOMAIN e /\ e[MetaKey] = s.height /\ e[LogKey] = s.log
  BY <1>1, KeysOf, ValueOf
<1> HIDE DEF e
<1>3. DecodedMaps(e) = s.maps
  <2>1. ASSUME NEW f \in Families
        PROVE  [i \in {j \in Ids : MapKey(f, j) \in DOMAIN e} |-> e[MapKey(f, i)]] = s.maps[f]
    <3>1. {j \in Ids : MapKey(f, j) \in DOMAIN e} = DOMAIN s.maps[f]
      BY <1>1, KeysOf, MapParts
    <3>2. \A i \in DOMAIN s.maps[f] : e[MapKey(f, i)] = s.maps[f][i]
      <4> SUFFICES ASSUME NEW i \in DOMAIN s.maps[f]
                   PROVE  e[MapKey(f, i)] = s.maps[f][i]
        OBVIOUS
      <4>1. MapKey(f, i) \in EntityKeys(s)
        BY KeysOf
      <4> QED BY <1>1, <4>1, MapValueOf
    <3>3. s.maps[f] = [i \in DOMAIN s.maps[f] |-> s.maps[f][i]]
      BY MapParts
    <3> QED BY <3>1, <3>2, <3>3
  <2>2. s.maps = [f \in Families |-> s.maps[f]]
    BY StateParts
  <2> QED BY <2>1, <2>2 DEF DecodedMaps
<1>4. (IF KeySetKey \in DOMAIN e THEN e[KeySetKey] ELSE None) = s.keySet
  BY <1>1, KeysOf, ValueOf
<1>5. CASE s.ledger = None
  <2>1. LedgerKeys(s) = {}
    BY <1>5 DEF LedgerKeys
  <2>2. \A k \in AllLedgerKeys : k \notin DOMAIN e
    BY <1>1, <2>1, KeysOf
  <2>3. HeaderKey \notin DOMAIN e /\ NoteIndexes(e) = {} /\ SpentMarkers(e) = {}
    BY <2>2 DEF AllLedgerKeys, NoteIndexes, SpentMarkers
  <2>4. Decodable(e)
    BY <1>2, <1>3, <2>3, StateParts DEF Decodable, LedgerIntact
  <2>5. decode_state(e) = [height |-> s.height, log |-> s.log, maps |-> s.maps,
                           keySet |-> s.keySet, ledger |-> None]
    BY <1>2, <1>3, <1>4, <2>3 DEF decode_state
  <2> QED BY <1>5, <2>4, <2>5, StateParts DEF e
<1>6. CASE s.ledger # None
  <2> DEFINE l == s.ledger
  <2>1. l \in Ledgers
    BY <1>6, StateParts
  <2>2. LedgerKeys(s) = {HeaderKey} \cup {NoteKey(i) : i \in 1..Len(l.notes)}
                                   \cup {NullifierKey(n) : n \in l.spent}
    BY <1>6 DEF LedgerKeys
  <2>3. \A k \in AllLedgerKeys : k \in DOMAIN e <=> k \in LedgerKeys(s)
    BY <1>1, KeysOf
  <2>4. HeaderKey \in DOMAIN e /\ e[HeaderKey] = HeaderOf(l)
    BY <1>1, <2>2, <2>3, ValueOf DEF AllLedgerKeys
  <2>5. NoteIndexes(e) = 1..Len(l.notes)
    <3>1. Len(l.notes) \in 0..MaxNotes /\ MaxNotes \in Nat
      BY <2>1, LedgerParts, StoreAssumption
    <3>2. \A i : NoteKey(i) \in LedgerKeys(s) <=> i \in 1..Len(l.notes)
      BY <2>2, KeysDiffer
    <3>3. \A i \in 1..MaxNotes : NoteKey(i) \in AllLedgerKeys
      BY DEF AllLedgerKeys
    <3> QED BY <2>3, <3>1, <3>2, <3>3 DEF NoteIndexes
  <2>6. SpentMarkers(e) = l.spent
    <3>1. l.spent \subseteq Nullifiers
      BY <2>1, LedgerParts
    <3>2. \A n : NullifierKey(n) \in LedgerKeys(s) <=> n \in l.spent
      BY <2>2, KeysDiffer
    <3>3. \A n \in Nullifiers : NullifierKey(n) \in AllLedgerKeys
      BY DEF AllLedgerKeys
    <3> QED BY <2>3, <3>1, <3>2, <3>3 DEF SpentMarkers
  <2>7. [i \in NoteIndexes(e) |-> e[NoteKey(i)]] = l.notes
    <3>1. ASSUME NEW i \in 1..Len(l.notes) PROVE e[NoteKey(i)] = l.notes[i]
      <4>1. NoteKey(i) \in DOMAIN e
        BY <2>5 DEF NoteIndexes
      <4> QED BY <1>1, <4>1, ValueOf
    <3>2. l.notes = [i \in 1..Len(l.notes) |-> l.notes[i]]
      BY <2>1, LedgerParts
    <3> QED BY <2>5, <3>1, <3>2
  <2>8. Decodable(e)
    <3>1. e[HeaderKey].count = Len(l.notes) /\ e[HeaderKey].root = l.notes
      BY <2>4 DEF HeaderOf
    <3> QED BY <1>2, <1>3, <2>4, <2>5, <2>7, <3>1, StateParts DEF Decodable, LedgerIntact
  <2>9. decode_state(e) = [height |-> s.height, log |-> s.log, maps |-> s.maps,
                           keySet |-> s.keySet,
                           ledger |-> [notes |-> l.notes, spent |-> l.spent]]
    BY <1>2, <1>3, <1>4, <2>4, <2>6, <2>7 DEF decode_state
  <2>10. l = [notes |-> l.notes, spent |-> l.spent]
    BY <2>1, LedgerParts
  <2> QED BY <2>8, <2>9, <2>10, StateParts DEF e
<1> QED BY <1>5, <1>6

-----------------------------------------------------------------------------
(* Writing a difference into the tables. *)

\* The mutations that remove their key, and the others.
Gone(m) == {k \in DOMAIN m : m[k] = Deleted}
Put(m) == DOMAIN m \ Gone(m)

\* m turns the entities e1 into e2.
Turns(m, e1, e2) ==
    /\ e1 = [k \in DOMAIN e1 |-> e1[k]] /\ e2 = [k \in DOMAIN e2 |-> e2[k]]
    /\ \A k \in DOMAIN e2 : e2[k] # Deleted
    /\ RootSuffix \notin DOMAIN e1 \cup DOMAIN e2
    /\ DOMAIN m \subseteq DOMAIN e1 \cup DOMAIN e2
    /\ \A k \in DOMAIN m : m[k] = IF k \in DOMAIN e2 THEN e2[k] ELSE Deleted
    /\ \A k \in DOMAIN e1 \cup DOMAIN e2 : k \notin DOMAIN m =>
          k \in DOMAIN e1 /\ k \in DOMAIN e2 /\ e1[k] = e2[k]

LEMMA EmptyTable == <<>> = [k \in {} |-> None] /\ DOMAIN <<>> = {}
OBVIOUS

\* The difference of two blocks does, and so do all entities on an empty store.
LEMMA MutationsTurn ==
    ASSUME NEW s \in States, NEW t \in States, ShieldedAppendOnly(s.ledger, t.ledger)
    PROVE  Turns(state_mutations(s, t), all_entities(s), all_entities(t))
<1> DEFINE m == state_mutations(s, t)
<1>1. Covers(m, EntityKeys(s) \cup EntityKeys(t), s, t)
  BY MutationsCover
<1>2. \A k \in EntityKeys(t) : EntityValue(t, k) # Deleted
  BY EncodingAssumption
<1>3. RootSuffix \notin EntityKeys(s) \cup EntityKeys(t)
  BY KeysOf
<1> HIDE DEF m
<1>4. /\ DOMAIN all_entities(s) = EntityKeys(s) /\ DOMAIN all_entities(t) = EntityKeys(t)
      /\ all_entities(s) = [k \in EntityKeys(s) |-> all_entities(s)[k]]
      /\ all_entities(t) = [k \in EntityKeys(t) |-> all_entities(t)[k]]
      /\ \A k \in EntityKeys(s) : all_entities(s)[k] = EntityValue(s, k)
      /\ \A k \in EntityKeys(t) : all_entities(t)[k] = EntityValue(t, k)
  BY DEF all_entities
<1>5. \A k \in DOMAIN m : m[k] = Override(k, t)
  BY <1>1 DEF Covers
<1> QED BY <1>1, <1>2, <1>3, <1>4, <1>5 DEF Covers, Turns, Override, m

LEMMA AllEntitiesTurn ==
    ASSUME NEW t \in States
    PROVE  Turns(all_entities(t), <<>>, all_entities(t))
<1>1. \A k \in EntityKeys(t) : EntityValue(t, k) # Deleted
  BY EncodingAssumption
<1>2. RootSuffix \notin EntityKeys(t)
  BY KeysOf
<1>3. /\ DOMAIN all_entities(t) = EntityKeys(t)
      /\ all_entities(t) = [k \in EntityKeys(t) |-> all_entities(t)[k]]
      /\ \A k \in EntityKeys(t) : all_entities(t)[k] = EntityValue(t, k)
  BY DEF all_entities
<1>4. DOMAIN <<>> = {} /\ <<>> = [k \in {} |-> <<>>[k]]
  BY EmptyTable
<1> QED BY <1>1, <1>2, <1>3, <1>4 DEF Turns

\* What is put and what goes.
LEMMA PutAndGone ==
    ASSUME NEW m, NEW e1, NEW e2, Turns(m, e1, e2)
    PROVE  /\ Put(m) = DOMAIN m \cap DOMAIN e2
           /\ (DOMAIN e1 \ Gone(m)) \cup Put(m) = DOMAIN e2
           /\ (DOMAIN e1 \cup DOMAIN m) \ Gone(m) = DOMAIN e2
BY DEF Turns, Gone, Put

\* The entity table.
LEMMA EntitiesWritten ==
    ASSUME NEW m, NEW e1, NEW e2, Turns(m, e1, e2)
    PROVE  Without(Merge(e1, m), Gone(m)) = e2
<1> DEFINE D == DOMAIN e1 \cup DOMAIN m
           w == Without(Merge(e1, m), Gone(m))
<1>1. Merge(e1, m) = [k \in D |-> IF k \in DOMAIN m THEN m[k] ELSE e1[k]]
  BY DEF Merge
<1>2. w = [k \in D \ Gone(m) |-> IF k \in DOMAIN m THEN m[k] ELSE e1[k]]
  BY <1>1 DEF Without
<1>3. (DOMAIN e1 \cup DOMAIN m) \ Gone(m) = DOMAIN e2
  BY PutAndGone
<1>4. \A k \in DOMAIN e2 : (IF k \in DOMAIN m THEN m[k] ELSE e1[k]) = e2[k]
  BY DEF Turns
<1>5. e2 = [k \in DOMAIN e2 |-> e2[k]]
  BY DEF Turns
<1> QED BY <1>2, <1>3, <1>4, <1>5

\* The value table: the latest value of every entity.
LatestValues(values, e, v) ==
    /\ DOMAIN values = DOMAIN e
    /\ \A k \in DOMAIN e : values[k].value = e[k] /\ values[k].version \in 0..v

LEMMA ValuesWritten ==
    ASSUME NEW m, NEW e1, NEW e2, Turns(m, e1, e2), NEW v \in Nat, NEW values,
           DOMAIN values = DOMAIN e1,
           \A k \in DOMAIN e1 : values[k].value = e1[k] /\ values[k].version \in 0..v
    PROVE  LatestValues(WrittenValues(values, m, v), e2, v)
<1> DEFINE D == DOMAIN values \cup DOMAIN m
           new == [k \in DOMAIN m |-> [version |-> v, value |-> m[k]]]
           w == WrittenValues(values, m, v)
<1>1. Merge(values, new) = [k \in D |-> IF k \in DOMAIN m THEN new[k] ELSE values[k]]
  BY DEF Merge
<1>2. w = [k \in D \ Gone(m) |-> IF k \in DOMAIN m THEN new[k] ELSE values[k]]
  BY <1>1 DEF WrittenValues, Without, Gone
<1>3. (DOMAIN e1 \cup DOMAIN m) \ Gone(m) = DOMAIN e2
  BY PutAndGone
<1>4. ASSUME NEW k \in DOMAIN e2
      PROVE  w[k].value = e2[k] /\ w[k].version \in 0..v
  <2>1. CASE k \in DOMAIN m
    <3>1. w[k] = [version |-> v, value |-> m[k]]
      BY <1>2, <1>3, <2>1
    <3> QED BY <2>1, <3>1 DEF Turns
  <2>2. CASE k \notin DOMAIN m
    <3>1. w[k] = values[k] /\ k \in DOMAIN e1 /\ e1[k] = e2[k]
      BY <1>2, <1>3, <2>2 DEF Turns
    <3> QED BY <3>1
  <2> QED BY <2>1, <2>2
<1> QED BY <1>2, <1>3, <1>4 DEF LatestValues

\* The node table: the root of version v and the leaves it points to.
CurrentTree(nodes, e, v) ==
    LET root == nodes[RootKey(v)]
    IN  /\ root.hash = e
        /\ DOMAIN root.children = DOMAIN e
        /\ \A k \in DOMAIN e : root.children[k] \in 0..v
        /\ DOMAIN nodes = {RootKey(v)} \cup {Child(root, k) : k \in DOMAIN e}

\* The tree below version v: nothing for the first version.
TreeBefore(nodes, e, v) ==
    IF v = 0 THEN nodes = <<>> /\ e = <<>> ELSE CurrentTree(nodes, e, v - 1)

LEMMA NodeKeys ==
    /\ \A v, w, k : RootKey(v) = LeafKey(w, k) => k = RootSuffix
    /\ \A v, w, k, j : LeafKey(v, k) = LeafKey(w, j) => v = w /\ k = j
    /\ \A v, w : RootKey(v) = RootKey(w) => v = w
    /\ \A v, k : LeafKey(v, k)[2] = k
BY DEF RootKey, LeafKey, RootSuffix

\* A tree update and the pruning that goes with it leave exactly the current
\* tree, and the stale index names nodes that exist.
LEMMA TreeWritten ==
    ASSUME NEW m, NEW e1, NEW e2, Turns(m, e1, e2), NEW v \in Nat, NEW nodes,
           TreeBefore(nodes, e1, v)
    PROVE  /\ put_value_set(nodes, m, v).root = e2
           /\ StaleIndexOk(nodes, put_value_set(nodes, m, v))
           /\ CurrentTree(WrittenNodes(nodes, put_value_set(nodes, m, v), v), e2, v)
<1> DEFINE old == IF v > 0 THEN nodes[RootKey(v - 1)]
                           ELSE [children |-> <<>>, hash |-> <<>>]
           C == old.children
           keys == (DOMAIN C \ Gone(m)) \cup Put(m)
           root == [children |-> [k \in keys |-> IF k \in Put(m) THEN v ELSE C[k]],
                    hash     |-> [k \in keys |-> IF k \in Put(m) THEN m[k] ELSE old.hash[k]]]
           added == {RootKey(v)} \cup {LeafKey(v, k) : k \in Put(m)}
           new == [n \in added |-> IF n = RootKey(v) THEN root ELSE m[n[2]]]
           before == IF v > 0 THEN {RootKey(v - 1)} ELSE {}
           stale == {Child(old, k) : k \in DOMAIN m \cap DOMAIN C}
                      \cup (IF DOMAIN m # {} /\ v > 0 THEN {RootKey(v - 1)} ELSE {})
           u == put_value_set(nodes, m, v)
           w == WrittenNodes(nodes, u, v)
<1>0. /\ (DOMAIN e1 \ Gone(m)) \cup Put(m) = DOMAIN e2
      /\ Put(m) = DOMAIN m \cap DOMAIN e2
      /\ \A k \in Put(m) : m[k] = e2[k]
      /\ \A k \in DOMAIN e2 \ Put(m) : k \in DOMAIN e1 /\ k \notin DOMAIN m /\ e1[k] = e2[k]
  <2>1. /\ Put(m) = DOMAIN m \cap DOMAIN e2
        /\ (DOMAIN e1 \ Gone(m)) \cup Put(m) = DOMAIN e2
    BY PutAndGone
  <2> QED BY <2>1 DEF Turns
<1>1. u = [root |-> root.hash, nodes |-> new, stale |-> stale]
  BY DEF put_value_set, Gone, Put
<1>2. /\ DOMAIN C = DOMAIN e1 /\ old.hash = e1
      /\ \A k \in DOMAIN e1 : C[k] \in Nat /\ C[k] < v
      /\ DOMAIN nodes = before \cup {LeafKey(C[k], k) : k \in DOMAIN e1}
  <2>1. CASE v = 0
    BY <2>1, EmptyTable DEF TreeBefore
  <2>2. CASE v > 0
    <3>1. CurrentTree(nodes, e1, v - 1) /\ old = nodes[RootKey(v - 1)]
      BY <2>2 DEF TreeBefore
    <3> QED BY <2>2, <3>1 DEF CurrentTree, Child
  <2> QED BY <2>1, <2>2
<1>3. keys = DOMAIN e2
  BY <1>0, <1>2
<1> HIDE DEF old, C
<1>4. root.hash = e2
  <2>1. \A k \in DOMAIN e2 : (IF k \in Put(m) THEN m[k] ELSE old.hash[k]) = e2[k]
    BY <1>0, <1>2
  <2>2. e2 = [k \in DOMAIN e2 |-> e2[k]]
    BY DEF Turns
  <2> QED BY <1>3, <2>1, <2>2
<1>5. stale \subseteq DOMAIN nodes
  BY <1>2 DEF Child, old, C
<1>6. \A k \in DOMAIN e2 : root.children[k] = IF k \in Put(m) THEN v ELSE C[k]
  BY <1>3
<1>7. \A k \in DOMAIN e2 : root.children[k] \in 0..v
  BY <1>2, <1>0, <1>6
<1>8. DOMAIN root.children = DOMAIN e2
  BY <1>3
<1> HIDE DEF keys, root
<1>9. w = [n \in (DOMAIN nodes \cup added) \ (stale \cup {RootKey(v - 1)}) |->
             IF n \in added THEN new[n] ELSE nodes[n]]
  BY <1>1 DEF WrittenNodes, Without, Merge
<1>10. DOMAIN w = {RootKey(v)} \cup {LeafKey(root.children[k], k) : k \in DOMAIN e2}
  <2> DEFINE kept == DOMAIN e2 \ Put(m)
  <2>1. /\ kept = DOMAIN e1 \ DOMAIN m /\ Put(m) \subseteq DOMAIN e2
        /\ RootSuffix \notin DOMAIN e1 /\ RootSuffix \notin DOMAIN e2
    BY <1>0 DEF Turns
  <2>2. stale \cup {RootKey(v - 1)}
          = {LeafKey(C[k], k) : k \in DOMAIN m \cap DOMAIN e1} \cup {RootKey(v - 1)}
    BY <1>2 DEF Child, old, C
  <2>3. (DOMAIN nodes) \ (stale \cup {RootKey(v - 1)}) = {LeafKey(C[k], k) : k \in kept}
    <3> DEFINE leaf(k) == LeafKey(C[k], k)
    <3>1. /\ DOMAIN nodes = before \cup {leaf(k) : k \in DOMAIN e1}
          /\ before \subseteq {RootKey(v - 1)}
      BY <1>2
    <3>2. \A k \in DOMAIN e1 : leaf(k) # RootKey(v - 1)
      BY <2>1, NodeKeys
    <3>3. \A k, j \in DOMAIN e1 : leaf(k) = leaf(j) => k = j
      BY NodeKeys
    <3>4. stale \cup {RootKey(v - 1)}
            = {leaf(k) : k \in DOMAIN m \cap DOMAIN e1} \cup {RootKey(v - 1)}
      BY <2>2
    <3> HIDE DEF leaf, stale, before
    <3>5. (DOMAIN nodes) \ (stale \cup {RootKey(v - 1)}) = {leaf(k) : k \in kept}
      BY <2>1, <3>1, <3>2, <3>3, <3>4
    <3> QED BY <3>5 DEF leaf
  <2>4. added \cap (stale \cup {RootKey(v - 1)}) = {}
    <3>1. RootKey(v) \notin stale \cup {RootKey(v - 1)}
      BY <2>1, <2>2, NodeKeys
    <3>2. \A k \in Put(m) : LeafKey(v, k) \notin stale \cup {RootKey(v - 1)}
      BY <1>2, <2>1, <2>2, NodeKeys
    <3> QED BY <3>1, <3>2
  <2>5. DOMAIN w = {LeafKey(C[k], k) : k \in kept} \cup added
    BY <1>9, <2>3, <2>4
  <2>6. {LeafKey(root.children[k], k) : k \in DOMAIN e2}
          = {LeafKey(C[k], k) : k \in kept} \cup {LeafKey(v, k) : k \in Put(m)}
    BY <1>6, <2>1
  <2> QED BY <2>5, <2>6
<1>11. w[RootKey(v)] = root
  <2>1. new[RootKey(v)] = root /\ RootKey(v) \in added
    OBVIOUS
  <2>2. RootKey(v) \in DOMAIN w
    BY <1>10
  <2> QED BY <1>9, <2>1, <2>2
<1>12. CurrentTree(w, e2, v)
  BY <1>4, <1>7, <1>8, <1>10, <1>11 DEF CurrentTree, Child
<1>13. StaleIndexOk(nodes, u) /\ u.root = e2
  BY <1>1, <1>4, <1>5 DEF StaleIndexOk
<1> QED BY <1>12, <1>13

-----------------------------------------------------------------------------
(* The inductive invariant. *)

\* The tables d hold the state s, and nothing else.
DiskHolds(d, s) ==
    IF s = None
    THEN d = EmptyDisk
    ELSE /\ d = [entities |-> all_entities(s), nodes |-> d.nodes, values |-> d.values,
                 metadata |-> [version |-> d.metadata.version, root |-> all_entities(s)]]
         /\ d.metadata.version \in 0..s.height
         /\ CurrentTree(d.nodes, all_entities(s), d.metadata.version)
         /\ LatestValues(d.values, all_entities(s), d.metadata.version)

\* What a transaction t starts from: the tables d of the state s for a block,
\* empty tables for a genesis state and for a snapshot.
Base(t, d) == IF t.kind = "commit" THEN d ELSE EmptyDisk
Before(t, s) == IF t.kind = "commit" THEN all_entities(s) ELSE <<>>

\* The tables of t after the steps it has taken.
TablesSoFar(t, base, before) ==
    [entities |-> IF t.step > 1 THEN all_entities(t.state) ELSE before,
     nodes    |-> IF t.step > 2 THEN WrittenNodes(base.nodes, t.update, t.version)
                                ELSE base.nodes,
     values   |-> IF t.step > 3 THEN WrittenValues(base.values, t.mutations, t.version)
                                ELSE base.values,
     metadata |-> IF t.step > 4 THEN [version |-> t.version, root |-> t.update.root]
                                ELSE base.metadata]

\* A transaction over tables d that hold s, while the block p is pending.
TxnOk(t, d, s, p) ==
    /\ t = [kind |-> t.kind, state |-> t.state, version |-> t.version,
            mutations |-> t.mutations, update |-> t.update, tables |-> t.tables,
            step |-> t.step]
    /\ t.state \in States /\ t.version \in 0..t.state.height /\ t.step \in 1..5
    /\ Turns(t.mutations, Before(t, s), all_entities(t.state))
    /\ t.update = put_value_set(Base(t, d).nodes, t.mutations, t.version)
    /\ TreeBefore(Base(t, d).nodes, Before(t, s), t.version)
    /\ DOMAIN Base(t, d).values = DOMAIN Before(t, s)
    /\ \A k \in DOMAIN Before(t, s) :
          /\ Base(t, d).values[k].value = Before(t, s)[k]
          /\ Base(t, d).values[k].version \in 0..t.version
    /\ t.tables = TablesSoFar(t, Base(t, d), Before(t, s))
    /\ t.kind = "commit" => p # None /\ t.state = p.state /\ t.update.root = p.root

\* Memory holds what the store holds, and a pending block was computed from it.
MemoryHolds ==
    /\ running => committed = IF durable = None THEN None
                              ELSE [state |-> durable, root |-> all_entities(durable)]
    /\ ~running => committed = None /\ pending = None /\ txn = None
    /\ pending # None =>
          /\ durable # None /\ pending.state \in Successors(durable)
          /\ pending.root = all_entities(pending.state)

IInv ==
    /\ durable \in States \cup {None}
    /\ running \in BOOLEAN /\ failed = None /\ faults \in 0..MaxFaults
    /\ DiskHolds(disk, durable)
    /\ MemoryHolds
    /\ txn # None => TxnOk(txn, disk, durable, pending)

\* A store that holds a state knows it, and one that holds none too.
LEMMA HeldMetadata ==
    ASSUME NEW d, NEW s \in States \cup {None}, DiskHolds(d, s)
    PROVE  /\ s = None => d.metadata = None /\ d.entities = <<>> /\ d.values = <<>>
           /\ s # None => /\ d.metadata # None /\ d.metadata.version \in 0..s.height
                          /\ d.metadata.root = all_entities(s)
                          /\ d.entities = all_entities(s) /\ s \in States
<1>1. CASE s = None
  BY <1>1 DEF DiskHolds, EmptyDisk
<1>2. CASE s # None
  <2>1. s \in States /\ d.metadata.version \in 0..s.height
    BY <1>2 DEF DiskHolds
  <2>2. d.metadata.version \in 0..MaxHeight
    BY <2>1, StateParts, StoreAssumption
  <2>3. /\ d.metadata = [version |-> d.metadata.version, root |-> all_entities(s)]
        /\ d.entities = all_entities(s)
    BY <1>2 DEF DiskHolds
  <2>4. d.metadata # None
    BY <2>1, <2>2, <2>3, EncodingAssumption
  <2> QED BY <1>2, <2>1, <2>3, <2>4
<1> QED BY <1>1, <1>2

\* Tables that hold a state open and give that state.
LEMMA HeldOpens ==
    ASSUME NEW d, NEW s \in States \cup {None}, DiskHolds(d, s)
    PROVE  /\ Loadable(d)
           /\ load_state(d) = IF s = None THEN None
                              ELSE [state |-> s, root |-> all_entities(s)]
<1>1. CASE s = None
  BY <1>1, HeldMetadata, EmptyTable DEF Loadable, load_state
<1>2. CASE s # None
  <2>1. /\ d.metadata # None /\ d.entities = all_entities(s) /\ s \in States
        /\ d.metadata.root = all_entities(s)
    BY <1>2, HeldMetadata
  <2>2. Decodable(d.entities) /\ decode_state(d.entities) = s
    BY <2>1, DecodesToItself
  <2>3. /\ RootKey(d.metadata.version) \in DOMAIN d.nodes
        /\ d.nodes[RootKey(d.metadata.version)].hash = all_entities(s)
    BY <1>2 DEF DiskHolds, CurrentTree
  <2>4. compute_state_root(s) = all_entities(s)
    BY DEF compute_state_root
  <2> QED BY <1>2, <2>1, <2>2, <2>3, <2>4 DEF Loadable, load_state
<1> QED BY <1>1, <1>2

\* A transaction whose tables and step are replaced.
LEMMA AdvancedTxn ==
    ASSUME NEW t, NEW tables, NEW step,
           t = [kind |-> t.kind, state |-> t.state, version |-> t.version,
                mutations |-> t.mutations, update |-> t.update, tables |-> t.tables,
                step |-> t.step]
    PROVE  [t EXCEPT !.tables = tables, !.step = step]
             = [kind |-> t.kind, state |-> t.state, version |-> t.version,
                mutations |-> t.mutations, update |-> t.update,
                tables |-> tables, step |-> step]
<1> DEFINE u == [t EXCEPT !.tables = tables]
<1>1. u = [kind |-> t.kind, state |-> t.state, version |-> t.version,
           mutations |-> t.mutations, update |-> t.update, tables |-> tables,
           step |-> t.step]
  OBVIOUS
<1>2. [t EXCEPT !.tables = tables, !.step = step] = [u EXCEPT !.step = step]
  OBVIOUS
<1> HIDE DEF u
<1> QED BY <1>1, <1>2

\* Every table is written as it should be, and the stale index is never wrong.
LEMMA StageKeepsTxn ==
    ASSUME NEW t, NEW d, NEW s, NEW p, TxnOk(t, d, s, p), t.step <= Len(Steps)
    PROVE  /\ Steps[t.step] = "nodes" => StaleIndexOk(t.tables.nodes, t.update)
           /\ TxnOk([t EXCEPT !.tables = Staged(t), !.step = @ + 1], d, s, p)
<1> DEFINE base == Base(t, d)
           before == Before(t, s)
           T == TablesSoFar(t, base, before)
           t2 == [kind |-> t.kind, state |-> t.state, version |-> t.version,
                  mutations |-> t.mutations, update |-> t.update,
                  tables |-> Staged(t), step |-> t.step + 1]
<1>1. t.step \in 1..4 /\ t.tables = T
  BY DEF TxnOk, Steps
<1>2. [t EXCEPT !.tables = Staged(t), !.step = @ + 1] = t2
  <2>1. t = [kind |-> t.kind, state |-> t.state, version |-> t.version,
             mutations |-> t.mutations, update |-> t.update, tables |-> t.tables,
             step |-> t.step]
    BY DEF TxnOk
  <2> QED BY <2>1, AdvancedTxn
<1>3. /\ Turns(t.mutations, before, all_entities(t.state)) /\ t.version \in Nat
      /\ TreeBefore(base.nodes, before, t.version)
      /\ t.update = put_value_set(base.nodes, t.mutations, t.version)
  BY DEF TxnOk
<1>4. StaleIndexOk(base.nodes, t.update)
  BY <1>3, TreeWritten
<1>5. Staged(t) = TablesSoFar(t2, base, before)
  <2>1. CASE t.step = 1
    <3>1. Staged(t) = [T EXCEPT !.entities = Without(Merge(@, t.mutations), Gone(t.mutations))]
      BY <1>1, <2>1 DEF Staged, Steps, Gone
    <3>2. Without(Merge(T.entities, t.mutations), Gone(t.mutations)) = all_entities(t.state)
      BY <1>3, <2>1, EntitiesWritten DEF TablesSoFar
    <3> QED BY <2>1, <3>1, <3>2 DEF TablesSoFar
  <2>2. CASE t.step = 2
    <3>1. Staged(t) = [T EXCEPT !.nodes = WrittenNodes(@, t.update, t.version)]
      BY <1>1, <2>2 DEF Staged, Steps
    <3> QED BY <2>2, <3>1 DEF TablesSoFar
  <2>3. CASE t.step = 3
    <3>1. Staged(t) = [T EXCEPT !.values = WrittenValues(@, t.mutations, t.version)]
      BY <1>1, <2>3 DEF Staged, Steps
    <3> QED BY <2>3, <3>1 DEF TablesSoFar
  <2>4. CASE t.step = 4
    <3>1. Staged(t) = [T EXCEPT !.metadata = [version |-> t.version, root |-> t.update.root]]
      BY <1>1, <2>4 DEF Staged, Steps
    <3> QED BY <2>4, <3>1 DEF TablesSoFar
  <2> QED BY <1>1, <2>1, <2>2, <2>3, <2>4
<1>6. Steps[t.step] = "nodes" => t.tables.nodes = base.nodes
  BY <1>1 DEF Steps, TablesSoFar
<1>7. /\ t2.kind = t.kind /\ t2.state = t.state /\ t2.version = t.version
      /\ t2.mutations = t.mutations /\ t2.update = t.update
      /\ t2.tables = Staged(t) /\ t2.step = t.step + 1
  OBVIOUS
<1>8. Base(t2, d) = base /\ Before(t2, s) = before
  BY <1>7 DEF Base, Before
<1>9. TxnOk(t2, d, s, p)
  <2> HIDE DEF base, before, T, t2
  <2>1. t2 = [kind |-> t2.kind, state |-> t2.state, version |-> t2.version,
              mutations |-> t2.mutations, update |-> t2.update,
              tables |-> t2.tables, step |-> t2.step]
    BY <1>7 DEF t2
  <2>2. t2.step \in 1..5 /\ t2.tables = TablesSoFar(t2, base, before)
    BY <1>1, <1>5, <1>7
  <2> QED BY <1>7, <1>8, <2>1, <2>2 DEF TxnOk, base, before
<1> QED BY <1>2, <1>4, <1>6, <1>9

\* A transaction that took all its steps holds its state.
LEMMA FinishedTxnHolds ==
    ASSUME NEW t, NEW d, NEW s, NEW p, TxnOk(t, d, s, p), t.step > Len(Steps)
    PROVE  DiskHolds(t.tables, t.state) /\ t.update.root = all_entities(t.state)
<1> DEFINE base == Base(t, d)
           before == Before(t, s)
           e == all_entities(t.state)
<1>1. t.step = 5 /\ t.state \in States /\ t.version \in 0..t.state.height /\ t.version \in Nat
  BY DEF TxnOk, Steps
<1>2. t.tables = [entities |-> e,
                  nodes    |-> WrittenNodes(base.nodes, t.update, t.version),
                  values   |-> WrittenValues(base.values, t.mutations, t.version),
                  metadata |-> [version |-> t.version, root |-> t.update.root]]
  BY <1>1 DEF TxnOk, TablesSoFar
<1>3. /\ t.update.root = e
      /\ CurrentTree(WrittenNodes(base.nodes, t.update, t.version), e, t.version)
  <2>1. /\ Turns(t.mutations, before, e) /\ TreeBefore(base.nodes, before, t.version)
        /\ t.update = put_value_set(base.nodes, t.mutations, t.version)
    BY DEF TxnOk
  <2> QED BY <1>1, <2>1, TreeWritten
<1>4. LatestValues(WrittenValues(base.values, t.mutations, t.version), e, t.version)
  <2>1. /\ Turns(t.mutations, before, e) /\ DOMAIN base.values = DOMAIN before
        /\ \A k \in DOMAIN before : /\ base.values[k].value = before[k]
                                    /\ base.values[k].version \in 0..t.version
    BY DEF TxnOk
  <2> HIDE DEF base, before, e
  <2> QED BY <1>1, <2>1, ValuesWritten
<1>5. t.state # None
  BY <1>1, EncodingAssumption
<1> HIDE DEF base, before, e
<1> QED BY <1>1, <1>2, <1>3, <1>4, <1>5 DEF DiskHolds, e

\* What the store has ready for the next block t of the state s it holds.
LEMMA NextWrite ==
    ASSUME NEW s \in States, DiskHolds(disk, s), NEW t \in Successors(s)
    PROVE  /\ ~BuildRefused(s) /\ t \in States /\ ShieldedAppendOnly(s.ledger, t.ledger)
           /\ VersionToWrite \in 0..t.height
           /\ Turns(state_mutations(s, t), all_entities(s), all_entities(t))
           /\ TreeBefore(disk.nodes, all_entities(s), VersionToWrite)
           /\ LatestValues(disk.values, all_entities(s), VersionToWrite)
           /\ build_update(s, t).root = all_entities(t)
<1>1. t \in States /\ ShieldedAppendOnly(s.ledger, t.ledger) /\ t.height = s.height + 1
  BY DEF Successors
<1>2. s # None /\ disk.metadata # None
  BY HeldMetadata, EncodingAssumption
<1>3. /\ disk.metadata.version \in 0..s.height /\ s.height \in Nat
      /\ VersionToWrite = disk.metadata.version + 1
  BY <1>2, HeldMetadata, StateParts, StoreAssumption DEF VersionToWrite, Initialized
<1>4. VersionToWrite \in 0..t.height /\ VersionToWrite \in Nat /\ VersionToWrite # 0
      /\ VersionToWrite - 1 = disk.metadata.version
  BY <1>1, <1>3
<1>5. Turns(state_mutations(s, t), all_entities(s), all_entities(t))
  BY <1>1, MutationsTurn
<1>6. TreeBefore(disk.nodes, all_entities(s), VersionToWrite)
  BY <1>2, <1>4 DEF DiskHolds, TreeBefore
<1>7. LatestValues(disk.values, all_entities(s), VersionToWrite)
  BY <1>2, <1>3 DEF DiskHolds, LatestValues
<1>8. build_update(s, t).root = all_entities(t)
  <2> DEFINE m == state_mutations(s, t)
             v == VersionToWrite
  <2>1. Turns(m, all_entities(s), all_entities(t)) /\ v \in Nat
        /\ TreeBefore(disk.nodes, all_entities(s), v)
    BY <1>4, <1>5, <1>6
  <2>2. build_update(s, t) = put_value_set(disk.nodes, m, v)
    BY DEF build_update
  <2> HIDE DEF m, v
  <2>3. put_value_set(disk.nodes, m, v).root = all_entities(t)
    BY <2>1, TreeWritten
  <2> QED BY <2>2, <2>3
<1>9. ~BuildRefused(s)
  BY <1>2 DEF BuildRefused, Initialized
<1> QED BY <1>1, <1>4, <1>5, <1>6, <1>7, <1>8, <1>9

\* A transaction over empty tables starts as it should.
LEMMA FirstWrite ==
    ASSUME NEW kind, kind # "commit", NEW t \in States, NEW d, NEW s, NEW p
    PROVE  TxnOk(Begin(kind, t, 0, all_entities(t), put_value_set(<<>>, all_entities(t), 0),
                       EmptyDisk), d, s, p)
<1> DEFINE x == Begin(kind, t, 0, all_entities(t), put_value_set(<<>>, all_entities(t), 0),
                      EmptyDisk)
<1>1. /\ x = [kind |-> x.kind, state |-> x.state, version |-> x.version,
              mutations |-> x.mutations, update |-> x.update, tables |-> x.tables,
              step |-> x.step]
      /\ x.kind = kind /\ x.state = t /\ x.version = 0 /\ x.mutations = all_entities(t)
      /\ x.update = put_value_set(<<>>, all_entities(t), 0)
      /\ x.tables = EmptyDisk /\ x.step = 1
  BY DEF Begin
<1> HIDE DEF x
<1>2. Base(x, d) = EmptyDisk /\ Before(x, s) = <<>>
  BY <1>1 DEF Base, Before
<1>3. /\ EmptyDisk.nodes = <<>> /\ EmptyDisk.values = <<>> /\ DOMAIN <<>> = {}
      /\ TablesSoFar(x, EmptyDisk, <<>>) = EmptyDisk
  BY <1>1, EmptyTable DEF EmptyDisk, TablesSoFar
<1>4. 0 \in 0..t.height
  BY StateParts, StoreAssumption
<1>5. Turns(all_entities(t), <<>>, all_entities(t)) /\ TreeBefore(<<>>, <<>>, 0)
  BY AllEntitiesTurn DEF TreeBefore
<1>6. TxnOk(x, d, s, p)
  BY <1>1, <1>2, <1>3, <1>4, <1>5 DEF TxnOk
<1> QED BY <1>6 DEF x

LEMMA InitInvariant == Init => IInv
<1> SUFFICES ASSUME Init PROVE IInv
  OBVIOUS
<1>1. DiskHolds(disk, durable)
  BY DEF Init, DiskHolds
<1>2. MemoryHolds
  BY DEF Init, MemoryHolds
<1>3. faults \in 0..MaxFaults
  BY StoreAssumption DEF Init
<1> QED BY <1>1, <1>2, <1>3 DEF Init, IInv

\* Every step preserves the inductive invariant.
LEMMA StepInvariant == IInv /\ [Next]_vars => IInv'
<1> SUFFICES ASSUME IInv, [Next]_vars PROVE IInv'
  OBVIOUS
<1> USE DEF IInv
<1>1. ASSUME Open PROVE IInv'
  <2>1. Loadable(disk) /\ load_state(disk) = IF durable = None THEN None
                             ELSE [state |-> durable, root |-> all_entities(durable)]
    BY HeldOpens
  <2>2. running' = TRUE /\ committed' = load_state(disk) /\ failed' = failed
    BY <1>1, <2>1 DEF Open
  <2>3. MemoryHolds'
    BY <1>1, <2>1, <2>2 DEF Open, MemoryHolds
  <2> QED BY <1>1, <2>2, <2>3 DEF Open
<1>2. ASSUME Crash PROVE IInv'
  <2>1. faults' \in 0..MaxFaults
    BY <1>2, StoreAssumption DEF Crash
  <2>2. MemoryHolds'
    BY <1>2 DEF Crash, MemoryHolds
  <2> QED BY <1>2, <2>1, <2>2 DEF Crash
<1>3. ASSUME BeginGenesis PROVE IInv'
  <2>1. durable = None
    BY <1>3, EncodingAssumption DEF BeginGenesis, Idle, MemoryHolds
  <2>2. disk = EmptyDisk /\ disk.metadata = None /\ ~BuildRefused(None) /\ VersionToWrite = 0
    BY <2>1 DEF DiskHolds, EmptyDisk, BuildRefused, Initialized, VersionToWrite
  <2>3. PICK s \in GenesisStates :
            /\ txn' = Begin("genesis", s, 0, state_mutations(None, s), build_update(None, s), disk)
            /\ failed' = failed
    BY <1>3, <2>2 DEF BeginGenesis
  <2>4. s \in States /\ state_mutations(None, s) = all_entities(s)
    BY StoreAssumption DEF state_mutations
  <2>5. build_update(None, s) = put_value_set(<<>>, all_entities(s), 0)
    BY <2>2, <2>4 DEF build_update, EmptyDisk
  <2>6. TxnOk(txn', disk, durable, pending)
    BY <2>2, <2>3, <2>4, <2>5, FirstWrite
  <2> QED BY <1>3, <2>3, <2>6 DEF BeginGenesis, Idle, MemoryHolds
<1>4. ASSUME FinalizeBlock PROVE IInv'
  <2>1. durable # None /\ committed.state = durable /\ durable \in States
    BY <1>4 DEF FinalizeBlock, Idle, MemoryHolds
  <2>2. PICK t \in Successors(durable) :
          IF BuildRefused(durable) \/ ~ShieldedAppendOnly(durable.ledger, t.ledger)
          THEN failed' = "preview_state_root" /\ UNCHANGED pending
          ELSE /\ pending' = [state |-> t, root |-> build_update(durable, t).root]
               /\ UNCHANGED failed
    BY <1>4, <2>1 DEF FinalizeBlock
  <2>3. pending' = [state |-> t, root |-> all_entities(t)] /\ failed' = failed
    BY <2>1, <2>2, NextWrite
  <2> QED BY <1>4, <2>1, <2>3 DEF FinalizeBlock, Idle, MemoryHolds
<1>5. ASSUME BeginCommit PROVE IInv'
  <2> DEFINE t == pending.state
             x == Begin("commit", t, VersionToWrite, state_mutations(durable, t),
                        build_update(durable, t), disk)
  <2>1. /\ durable # None /\ committed.state = durable /\ durable \in States
        /\ t \in Successors(durable) /\ pending.root = all_entities(t) /\ pending # None
    BY <1>5 DEF BeginCommit, Idle, MemoryHolds
  <2>2. /\ ~BuildRefused(durable) /\ t \in States
        /\ VersionToWrite \in 0..t.height
        /\ Turns(state_mutations(durable, t), all_entities(durable), all_entities(t))
        /\ TreeBefore(disk.nodes, all_entities(durable), VersionToWrite)
        /\ LatestValues(disk.values, all_entities(durable), VersionToWrite)
        /\ build_update(durable, t).root = all_entities(t)
    BY <2>1, NextWrite
  <2>3. txn' = x /\ failed' = failed
    BY <1>5, <2>1, <2>2 DEF BeginCommit
  <2>4. TxnOk(x, disk, durable, pending)
    <3>1. /\ x = [kind |-> x.kind, state |-> x.state, version |-> x.version,
                  mutations |-> x.mutations, update |-> x.update, tables |-> x.tables,
                  step |-> x.step]
          /\ x.kind = "commit" /\ x.state = t /\ x.version = VersionToWrite
          /\ x.mutations = state_mutations(durable, t)
          /\ x.update = build_update(durable, t) /\ x.tables = disk /\ x.step = 1
      BY DEF Begin
    <3> HIDE DEF x, t
    <3>2. Base(x, disk) = disk /\ Before(x, durable) = all_entities(durable)
      BY <3>1 DEF Base, Before
    <3>3. TablesSoFar(x, disk, all_entities(durable)) = disk
      <4>1. /\ disk = [entities |-> all_entities(durable), nodes |-> disk.nodes,
                       values |-> disk.values, metadata |-> disk.metadata]
        BY <2>1 DEF DiskHolds
      <4> QED BY <3>1, <4>1 DEF TablesSoFar
    <3>4. x.update = put_value_set(disk.nodes, x.mutations, x.version)
      BY <3>1 DEF build_update
    <3> QED BY <2>1, <2>2, <3>1, <3>2, <3>3, <3>4 DEF TxnOk, LatestValues, t
  <2> QED BY <1>5, <2>3, <2>4 DEF BeginCommit, Idle, MemoryHolds
<1>6. ASSUME BeginReplace PROVE IInv'
  <2>0. PICK g \in GenesisStates : \E s \in Successors(g) :
          txn' = Begin("replace", s, 0, all_entities(s),
                       put_value_set(<<>>, all_entities(s), 0), EmptyDisk)
    BY <1>6 DEF BeginReplace
  <2>1. PICK s \in Successors(g) :
          txn' = Begin("replace", s, 0, all_entities(s),
                       put_value_set(<<>>, all_entities(s), 0), EmptyDisk)
    BY <2>0
  <2>2. s \in States
    BY DEF Successors
  <2>3. TxnOk(txn', disk, durable, pending)
    BY <2>1, <2>2, FirstWrite
  <2> QED BY <1>6, <2>3 DEF BeginReplace, Idle, MemoryHolds
<1>7. ASSUME Stage PROVE IInv'
  <2>1. /\ Steps[txn.step] = "nodes" => StaleIndexOk(txn.tables.nodes, txn.update)
        /\ TxnOk([txn EXCEPT !.tables = Staged(txn), !.step = @ + 1], disk, durable, pending)
    BY <1>7, StageKeepsTxn DEF Stage
  <2>2. txn' = [txn EXCEPT !.tables = Staged(txn), !.step = @ + 1] /\ failed' = failed
    BY <1>7, <2>1 DEF Stage
  <2> QED BY <1>7, <2>1, <2>2 DEF Stage, MemoryHolds
<1>8. ASSUME WriteFails PROVE IInv'
  BY <1>8, StoreAssumption DEF WriteFails, MemoryHolds
<1>9. ASSUME CommitWrite PROVE IInv'
  <2>1. /\ DiskHolds(txn.tables, txn.state) /\ txn.update.root = all_entities(txn.state)
        /\ txn.state \in States /\ (txn.kind = "commit" => txn.update.root = pending.root)
    BY <1>9, FinishedTxnHolds DEF CommitWrite, TxnOk
  <2>2. /\ committed' = [state |-> txn.state, root |-> txn.update.root]
        /\ pending' = None /\ failed' = failed
    BY <1>9, <2>1 DEF CommitWrite
  <2>3. txn.state # None
    BY <2>1, EncodingAssumption
  <2> QED BY <1>9, <2>1, <2>2, <2>3 DEF CommitWrite, MemoryHolds
<1>10. CASE UNCHANGED vars
  BY <1>10 DEF vars, MemoryHolds
<1> QED BY <1>1, <1>2, <1>3, <1>4, <1>5, <1>6, <1>7, <1>8, <1>9, <1>10 DEF Next

LEMMA Invariance == Spec => []IInv
BY InitInvariant, StepInvariant, PTL DEF Spec

-----------------------------------------------------------------------------
(* The theorems. *)

\* Wherever the process dies, and whichever writes fail, the tables on disk open
\* again and give exactly the state whose transaction committed last, and no
\* call of the store ever returns an error the store caused itself
\* (load_state, build_update, write_tree_update).
THEOREM StoreRecovers == Spec => []RecoversDurableState
<1>1. IInv => RecoversDurableState
  <2> SUFFICES ASSUME IInv PROVE RecoversDurableState
    OBVIOUS
  <2>1. /\ Loadable(disk)
        /\ IF durable = None THEN disk.metadata = None
                             ELSE load_state(disk).state = durable
    BY HeldOpens, HeldMetadata DEF IInv
  <2>2. disk.metadata = None \/ disk.metadata.version \in 0..MaxHeight
    <3>1. CASE durable = None
      BY <3>1, HeldMetadata DEF IInv
    <3>2. CASE durable # None
      <4>1. durable \in States /\ disk.metadata.version \in 0..durable.height
        BY <3>2, HeldMetadata DEF IInv
      <4> QED BY <4>1, StateParts, StoreAssumption
    <3> QED BY <3>1, <3>2
  <2>3. committed = None \/ committed.state \in States
    BY DEF IInv, MemoryHolds
  <2>4. pending = None \/ pending.state \in States
    BY DEF IInv, MemoryHolds, Successors
  <2>5. txn = None \/ txn.step \in 1..5
    BY DEF IInv, TxnOk
  <2>6. TypeOK
    BY <2>2, <2>3, <2>4, <2>5 DEF TypeOK, IInv
  <2> QED BY <2>1, <2>6 DEF RecoversDurableState, IInv
<1> QED BY <1>1, Invariance, PTL

\* Only the current version of the tree is stored, and all of it: no update,
\* deletion or replacement leaks a node or leaves one dangling, and the values
\* the tree reads are those of the entities (write_tree_update).
THEOREM NothingLeaksOrDangles == Spec => []NodesAreCurrentTree
<1>1. IInv => NodesAreCurrentTree
  <2> SUFFICES ASSUME IInv PROVE NodesAreCurrentTree
    OBVIOUS
  <2>1. CASE durable = None
    <3>1. disk.metadata = None /\ disk.entities = <<>> /\ disk.values = <<>>
      BY <2>1, HeldMetadata DEF IInv
    <3> QED BY <3>1, EmptyTable DEF NodesAreCurrentTree, ValuesMatchEntities
  <2>2. CASE durable # None
    <3> DEFINE e == all_entities(durable)
               v == disk.metadata.version
    <3>1. /\ disk.entities = e /\ v \in 0..durable.height
          /\ CurrentTree(disk.nodes, e, v) /\ LatestValues(disk.values, e, v)
      BY <2>2, HeldMetadata DEF IInv, DiskHolds
    <3>2. ValuesMatchEntities
      BY <3>1 DEF LatestValues, ValuesMatchEntities
    <3>3. LET root == disk.nodes[RootKey(v)]
          IN  DOMAIN disk.nodes = {RootKey(v)} \cup {Child(root, k) : k \in DOMAIN root.children}
      BY <3>1 DEF CurrentTree
    <3> QED BY <3>2, <3>3 DEF NodesAreCurrentTree
  <2> QED BY <2>1, <2>2
<1> QED BY <1>1, Invariance, PTL

\* The root FinalizeBlock announces, computed from the difference to the last
\* block, is the root of the whole state (preview_state_root,
\* compute_state_root).
THEOREM PreviewIsExact == Spec => []PreviewIsStateRoot
<1>1. IInv => PreviewIsStateRoot
  BY DEF IInv, MemoryHolds, PreviewIsStateRoot, compute_state_root
<1> QED BY <1>1, Invariance, PTL
=============================================================================
