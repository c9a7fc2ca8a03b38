--------------------------- MODULE EventFeedProofs ---------------------------
(***************************************************************************)
(* What holds of the events for every size of the retained log, of the     *)
(* channel, of a page and of a block: the links show what a client missed, *)
(* and what is committed and still retained has been published.            *)
(***************************************************************************)
EXTENDS EventFeed, Integers, SequenceTheorems, WellFoundedInduction, TLAPS

(***************************************************************************)
(* Induction over the naturals, for sets.                                  *)
(***************************************************************************)

LEMMA Induction ==
  ASSUME NEW S, 0 \in S, \A i \in Nat : i \in S => i + 1 \in S
  PROVE  Nat \subseteq S
<1> DEFINE R == OpToRel(<, Nat)
<1> SUFFICES ASSUME Nat \ S # {} PROVE FALSE OBVIOUS
<1>1. IsWellFoundedOn(R, Nat) BY NatLessThanWellFounded
<1>2. \A i, j \in Nat : i < j => <<i, j>> \in R BY DEF OpToRel
<1> HIDE DEF R
<1>3. PICK m \in Nat \ S : \A i \in Nat \ S : ~(<<i, m>> \in R) BY <1>1, WFMin
<1>4. m # 0 /\ m - 1 \in Nat /\ m - 1 < m BY <1>3
<1>5. m - 1 \in S BY <1>2, <1>3, <1>4
<1> QED BY <1>3, <1>4, <1>5

LEMMA SameInterval ==
  ASSUME NEW m \in Nat, NEW n \in Nat, 1 .. m = 1 .. n
  PROVE  m = n
<1>1. m > n => m \in 1 .. m /\ m \notin 1 .. n OBVIOUS
<1>2. n > m => n \in 1 .. n /\ n \notin 1 .. m OBVIOUS
<1> QED BY <1>1, <1>2

(***************************************************************************)
(* Pruning.                                                                *)
(***************************************************************************)

Event == [sequence : Nat, previous : Nat]

\* How many events prune drops of n.
Excess(n) == IF n > MaxRetainedEvents THEN n - MaxRetainedEvents ELSE 0

LEMMA ExcessFacts ==
  ASSUME NEW n \in Nat
  PROVE  /\ Excess(n) \in 0 .. n /\ n - Excess(n) <= MaxRetainedEvents
         /\ n - Excess(n) \in Nat
         /\ n > 0 => n - Excess(n) > 0
         /\ n <= MaxRetainedEvents => Excess(n) = 0
         /\ Excess(n + 1) = Excess((n - Excess(n)) + 1) + Excess(n)
BY FeedAssumption DEF Excess

LEMMA PruneFacts ==
  ASSUME NEW q \in Seq(Event)
  PROVE  /\ prune(q) \in Seq(Event) /\ Excess(Len(q)) \in 0 .. Len(q)
         /\ Len(prune(q)) = Len(q) - Excess(Len(q))
         /\ Len(prune(q)) <= MaxRetainedEvents
         /\ Len(q) > 0 => Len(prune(q)) > 0
         /\ \A i \in 1 .. Len(prune(q)) :
               /\ prune(q)[i] = q[i + Excess(Len(q))]
               /\ i + Excess(Len(q)) \in 1 .. Len(q)
<1>1. prune(q) = SubSeq(q, Excess(Len(q)) + 1, Len(q)) BY DEF prune, Excess
<1>2. Len(q) \in Nat /\ \A i \in 1 .. Len(q) : q[i] \in Event OBVIOUS
<1> DEFINE d == Excess(Len(q))
<1>3. /\ d \in 0 .. Len(q) /\ Len(q) - d <= MaxRetainedEvents
      /\ Len(q) > 0 => Len(q) - d > 0
  BY <1>2, ExcessFacts
<1> HIDE DEF d
<1>4. /\ SubSeq(q, d + 1, Len(q)) \in Seq(Event)
      /\ Len(SubSeq(q, d + 1, Len(q))) = Len(q) - d
      /\ \A i \in 1 .. Len(q) - d : SubSeq(q, d + 1, Len(q))[i] = q[i + d]
  BY <1>2, <1>3, SubSeqProperties
<1> QED BY <1>1, <1>2, <1>3, <1>4 DEF d

LEMMA SeqExtensional ==
  ASSUME NEW q \in Seq(Event), NEW r \in Seq(Event), Len(q) = Len(r),
         \A i \in 1 .. Len(q) : q[i] = r[i]
  PROVE  q = r
BY SeqEqual

LEMMA PruneOfPruned ==
  ASSUME NEW q \in Seq(Event)
  PROVE  prune(prune(q)) = prune(q)
<1> DEFINE p == prune(q)
<1>1. p \in Seq(Event) /\ Len(p) <= MaxRetainedEvents /\ Len(p) \in Nat BY PruneFacts
<1>2. Excess(Len(p)) = 0 BY <1>1, ExcessFacts
<1> HIDE DEF p
<1>3. /\ prune(p) \in Seq(Event) /\ Len(prune(p)) = Len(p) - Excess(Len(p))
      /\ \A i \in 1 .. Len(prune(p)) : prune(p)[i] = p[i + Excess(Len(p))]
  BY <1>1, PruneFacts
<1>4. Len(prune(p)) = Len(p) BY <1>1, <1>2, <1>3
<1>5. \A i \in 1 .. Len(prune(p)) : prune(p)[i] = p[i]
  <2> TAKE i \in 1 .. Len(prune(p))
  <2>1. i + Excess(Len(p)) = i BY <1>1, <1>2, <1>4
  <2> QED BY <1>3, <2>1
<1>6. prune(p) = p BY <1>1, <1>3, <1>4, <1>5, SeqExtensional
<1> QED BY <1>6 DEF p

LEMMA AppendToPruned ==
  ASSUME NEW q \in Seq(Event), NEW e \in Event
  PROVE  prune(Append(prune(q), e)) = prune(Append(q, e))
<1> DEFINE p == prune(q)
           a == Append(p, e)
           b == Append(q, e)
           d == Excess(Len(q))
           x == Excess(Len(a))
           y == Excess(Len(b))
<1>1. /\ p \in Seq(Event) /\ Len(p) = Len(q) - d /\ d \in 0 .. Len(q)
      /\ \A i \in 1 .. Len(p) : p[i] = q[i + d]
  BY PruneFacts
<1>0. Len(q) \in Nat /\ Len(p) \in Nat BY <1>1
<1> HIDE DEF p, d
<1>2. /\ a \in Seq(Event) /\ Len(a) = Len(p) + 1
      /\ b \in Seq(Event) /\ Len(b) = Len(q) + 1
      /\ \A i \in 1 .. Len(p) : a[i] = p[i]
      /\ \A i \in 1 .. Len(q) : b[i] = q[i]
      /\ a[Len(p) + 1] = e /\ b[Len(q) + 1] = e
  BY <1>0, <1>1
<1>3. Excess(Len(q) + 1) = Excess((Len(q) - Excess(Len(q))) + 1) + Excess(Len(q))
  BY <1>1, ExcessFacts
<1>4. y = x + d BY <1>0, <1>1, <1>2, <1>3 DEF d
<1> HIDE DEF a, b
<1>5. /\ prune(a) \in Seq(Event) /\ x \in 0 .. Len(a) /\ Len(prune(a)) = Len(a) - x
      /\ \A i \in 1 .. Len(prune(a)) : prune(a)[i] = a[i + x] /\ i + x \in 1 .. Len(a)
  BY <1>2, PruneFacts
<1>10. /\ prune(b) \in Seq(Event) /\ y \in 0 .. Len(b) /\ Len(prune(b)) = Len(b) - y
       /\ \A i \in 1 .. Len(prune(b)) : prune(b)[i] = b[i + y]
  BY <1>2, PruneFacts
<1> HIDE DEF x, y
<1>11. x \in Nat /\ y \in Nat /\ Len(prune(a)) \in Nat
  BY <1>0, <1>2, <1>5, <1>10
<1>6. ASSUME NEW i \in 1 .. Len(a) PROVE a[i] = b[i + d]
  <2>1. CASE i = Len(p) + 1
    <3>1. i + d = Len(q) + 1 BY <1>0, <1>1, <2>1
    <3> QED BY <1>2, <2>1, <3>1
  <2>2. CASE i # Len(p) + 1
    <3>1. i \in 1 .. Len(p) BY <1>0, <1>1, <1>2, <2>2
    <3>2. i + d \in 1 .. Len(q) BY <1>0, <1>1, <3>1
    <3> QED BY <1>0, <1>1, <1>2, <3>1, <3>2
  <2> QED BY <2>1, <2>2
<1>7. Len(prune(a)) = Len(prune(b)) BY <1>0, <1>1, <1>2, <1>4, <1>5, <1>10, <1>11
<1>8. ASSUME NEW i \in 1 .. Len(prune(a)) PROVE prune(a)[i] = prune(b)[i]
  <2>1. prune(a)[i] = b[(i + x) + d] BY <1>5, <1>6
  <2>2. (i + x) + d = i + y /\ i \in 1 .. Len(prune(b)) BY <1>0, <1>1, <1>4, <1>7, <1>11
  <2> QED BY <1>10, <2>1, <2>2
<1>9. prune(a) = prune(b) BY <1>5, <1>7, <1>8, <1>10, SeqExtensional
<1> QED BY <1>9 DEF a, b, p

(***************************************************************************)
(* States: the retained log is what pruning leaves of a chain of events.   *)
(***************************************************************************)

\* What event i of a history is linked to.
Linked(all, i) == all[i].previous = IF i = 1 THEN 0 ELSE all[i - 1].sequence

Increasing(q) == \A i, j \in 1 .. Len(q) : i < j => q[i].sequence < q[j].sequence

\* A history numbered with what was used up to top.
Chain(all, top) ==
    /\ all \in Seq(Event)
    /\ Len(all) <= top
    /\ \A i \in 1 .. Len(all) : all[i].sequence \in 1 .. top /\ Linked(all, i)
    /\ Increasing(all)

State == [log : Seq(Event), sequence : Nat, all : Seq(Event)]

Good(s) == s \in State /\ Chain(s.all, s.sequence) /\ s.log = prune(s.all)

\* s follows on c, with at most n events more.
Extends(s, c, n) ==
    /\ c.sequence <= s.sequence
    /\ Len(s.all) \in Len(c.all) .. Len(c.all) + n
    /\ \A i \in 1 .. Len(c.all) : s.all[i] = c.all[i]
    /\ \A i \in Len(c.all) + 1 .. Len(s.all) : s.all[i].sequence > c.sequence

\* The event that append adds.
NewEvent(s) ==
    [sequence |-> s.sequence + 1,
     previous |-> IF s.log = <<>> THEN 0 ELSE Last(s.log).sequence]

LEMMA NewStateIsGood == Good(NewState)
<1>1. /\ NewState.all = <<>> /\ NewState.log = <<>> /\ NewState.sequence = 0
      /\ NewState \in State
  BY EmptySeq DEF NewState, State
<1>2. Chain(<<>>, 0) BY EmptySeq DEF Chain, Increasing
<1>3. prune(<<>>) = <<>>
  <2>1. <<>> \in Seq(Event) /\ Len(<<>>) = 0 BY EmptySeq
  <2> DEFINE q == prune(<<>>)
             d == Excess(Len(<<>>))
  <2>2. q \in Seq(Event) /\ d \in 0 .. Len(<<>>) /\ Len(q) = Len(<<>>) - d
    BY <2>1, PruneFacts
  <2> HIDE DEF q, d
  <2>3. Len(q) = 0 BY <2>1, <2>2
  <2>4. q = <<>> BY <2>2, <2>3, EmptySeq
  <2> QED BY <2>4 DEF q
<1> QED BY <1>1, <1>2, <1>3 DEF Good

\* The log and the history end with the same event.
LEMMA SameLast ==
  ASSUME NEW s, Good(s)
  PROVE  /\ s.log = <<>> <=> Len(s.all) = 0
         /\ s.log # <<>> => Last(s.log) = s.all[Len(s.all)]
<1> DEFINE d == Excess(Len(s.all))
<1>1. s.all \in Seq(Event) /\ s.log = prune(s.all) BY DEF Good, State
<1>2. /\ s.log \in Seq(Event) /\ d \in 0 .. Len(s.all)
      /\ Len(s.log) = Len(s.all) - d
      /\ Len(s.all) > 0 => Len(s.log) > 0
      /\ \A i \in 1 .. Len(s.log) : s.log[i] = s.all[i + d]
  BY <1>1, PruneFacts
<1>3. Len(s.all) \in Nat /\ Len(s.log) \in Nat /\ (s.log = <<>> <=> Len(s.log) = 0)
  BY <1>1, <1>2, EmptySeq
<1> HIDE DEF d
<1>4. s.log = <<>> <=> Len(s.all) = 0 BY <1>2, <1>3
<1>5. ASSUME s.log # <<>> PROVE Last(s.log) = s.all[Len(s.all)]
  <2>1. Len(s.log) \in 1 .. Len(s.log) /\ Len(s.log) + d = Len(s.all) BY <1>2, <1>3, <1>5
  <2>2. Last(s.log) = s.log[Len(s.log)] BY DEF Last
  <2> QED BY <1>2, <2>1, <2>2
<1> QED BY <1>4, <1>5

LEMMA AppendEvent ==
  ASSUME NEW s, Good(s)
  PROVE  LET t == append_event(s)
         IN  /\ t \in State /\ t.sequence = s.sequence + 1
             /\ t.all = Append(s.all, NewEvent(s))
             /\ t.log = prune(t.all)
<1> DEFINE e == NewEvent(s)
           numbered == next_sequence(s)
           l == append(s.log, numbered.sequence)
<1>1. /\ s \in State /\ s.all \in Seq(Event) /\ s.log \in Seq(Event)
      /\ s.sequence \in Nat /\ s.log = prune(s.all)
  BY DEF Good, State
<1>2. /\ numbered \in State /\ numbered.sequence = s.sequence + 1
      /\ numbered.log = s.log /\ numbered.all = s.all
  BY <1>1 DEF next_sequence, State
<1>3. e \in Event
  <2>1. s.log # <<>> => Last(s.log) \in Event
    <3>1. Len(s.log) \in Nat /\ (s.log # <<>> => Len(s.log) \in 1 .. Len(s.log))
      BY <1>1, EmptySeq
    <3> QED BY <1>1, <3>1, ElementOfSeq DEF Last
  <2> QED BY <1>1, <2>1 DEF NewEvent, Event
<1>4. l = prune(Append(s.log, e)) BY <1>2 DEF append, NewEvent
<1>5. l = prune(Append(s.all, e)) BY <1>1, <1>3, <1>4, AppendToPruned
<1> HIDE DEF e
<1>6. /\ Append(s.all, e) \in Seq(Event) /\ Append(s.log, e) \in Seq(Event)
      /\ Len(Append(s.log, e)) = Len(s.log) + 1
      /\ Append(s.log, e)[Len(s.log) + 1] = e
      /\ Len(s.log) \in Nat
  BY <1>1, <1>3
<1>7. Last(l) = e
  <2> DEFINE q == Append(s.log, e)
             d == Excess(Len(q))
  <2>1. /\ l \in Seq(Event) /\ d \in 0 .. Len(q) /\ Len(l) = Len(q) - d
        /\ Len(q) > 0 => Len(l) > 0
        /\ \A i \in 1 .. Len(l) : l[i] = q[i + d]
    BY <1>4, <1>6, PruneFacts
  <2> HIDE DEF d, l
  <2>2. Len(l) \in 1 .. Len(l) /\ Len(l) + d = Len(s.log) + 1 BY <1>6, <2>1
  <2> QED BY <1>6, <2>1, <2>2 DEF Last
<1>8. append_event(s) = [numbered EXCEPT !.log = append(@, numbered.sequence),
                                         !.all = Append(@, Last(l))]
  BY DEF append_event
<1>9. l \in Seq(Event) BY <1>5, <1>6, PruneFacts
<1>10. append_event(s) = [numbered EXCEPT !.log = l, !.all = Append(s.all, e)]
  BY <1>2, <1>7, <1>8
<1> HIDE DEF numbered, l
<1>11. /\ append_event(s).sequence = numbered.sequence
       /\ append_event(s).all = Append(s.all, e)
       /\ append_event(s).log = l
       /\ append_event(s) \in State
  BY <1>2, <1>6, <1>9, <1>10 DEF State
<1> QED BY <1>2, <1>5, <1>11 DEF e

LEMMA ChainGrows ==
  ASSUME NEW s, Good(s)
  PROVE  Chain(Append(s.all, NewEvent(s)), s.sequence + 1)
<1> DEFINE e == NewEvent(s)
           a == Append(s.all, e)
           n == Len(s.all)
<1>1. /\ s.all \in Seq(Event) /\ n \in Nat /\ s.sequence \in Nat
      /\ n <= s.sequence
      /\ \A i \in 1 .. n : s.all[i] \in Event /\ s.all[i].sequence \in 1 .. s.sequence
      /\ \A i \in 1 .. n : Linked(s.all, i)
      /\ Increasing(s.all)
  BY DEF Good, State, Chain
<1>2. /\ e.sequence = s.sequence + 1
      /\ e.previous = IF n = 0 THEN 0 ELSE s.all[n].sequence
  BY SameLast DEF NewEvent
<1>3. e \in Event
  <2>1. e = [sequence |-> e.sequence, previous |-> e.previous] BY DEF NewEvent
  <2>2. n # 0 => s.all[n].sequence \in Nat BY <1>1
  <2>3. e.sequence \in Nat /\ e.previous \in Nat BY <1>1, <1>2, <2>2
  <2> HIDE DEF e
  <2> QED BY <2>1, <2>3 DEF Event
<1> HIDE DEF e
<1>4. /\ a \in Seq(Event) /\ Len(a) = n + 1 /\ a[n + 1] = e
      /\ \A i \in 1 .. n : a[i] = s.all[i]
  BY <1>1, <1>3
<1> HIDE DEF a, n
<1>5. ASSUME NEW i \in 1 .. Len(a) PROVE a[i].sequence \in 1 .. s.sequence + 1 /\ Linked(a, i)
  <2>1. CASE i = n + 1
    <3>1. n # 0 => n \in 1 .. n BY <1>1
    <3> QED BY <1>1, <1>2, <1>4, <2>1, <3>1 DEF Linked
  <2>2. CASE i # n + 1
    <3>1. i \in 1 .. n /\ (i # 1 => i - 1 \in 1 .. n) BY <1>1, <1>4, <2>2
    <3>2. s.all[i].sequence \in 1 .. s.sequence /\ Linked(s.all, i) BY <1>1, <3>1
    <3>3. s.all[i].sequence \in 1 .. s.sequence + 1 BY <1>1, <3>2
    <3> QED BY <1>4, <3>1, <3>2, <3>3 DEF Linked
  <2> QED BY <2>1, <2>2
<1>6. Increasing(a)
  <2> SUFFICES ASSUME NEW i \in 1 .. Len(a), NEW j \in 1 .. Len(a), i < j
               PROVE  a[i].sequence < a[j].sequence
    BY DEF Increasing
  <2>1. i \in 1 .. n /\ (j \in 1 .. n \/ j = n + 1) BY <1>1, <1>4
  <2>2. s.all[i].sequence \in 1 .. s.sequence BY <1>1, <2>1
  <2>3. CASE j = n + 1
    <3>1. s.all[i].sequence < s.sequence + 1 BY <1>1, <2>2
    <3> QED BY <1>2, <1>4, <2>1, <2>3, <3>1
  <2>4. CASE j \in 1 .. n
    <3>1. s.all[i].sequence < s.all[j].sequence BY <1>1, <2>1, <2>4 DEF Increasing, n
    <3> QED BY <1>4, <2>1, <2>4, <3>1
  <2> QED BY <2>1, <2>3, <2>4
<1>7. Len(a) <= s.sequence + 1 BY <1>1, <1>4
<1> QED BY <1>4, <1>5, <1>6, <1>7 DEF Chain, a, e

(***************************************************************************)
(* Executing a block, and reading after a sequence number.                 *)
(***************************************************************************)

\* The state after i of the block's uses.
BlockStep(c, uses, f, i) ==
    IF i = 0 THEN c
    ELSE IF uses[i] = "event" THEN append_event(f[i - 1])
    ELSE next_sequence(f[i - 1])

LEMMA BlockExists ==
  ASSUME NEW c, NEW uses, NEW n \in Nat
  PROVE  \E f : f = [i \in 0 .. n |-> BlockStep(c, uses, f, i)]
<1> DEFINE S == {m \in Nat : \E f : f = [i \in 0 .. m |-> BlockStep(c, uses, f, i)]}
<1>1. 0 \in S
  <2> DEFINE f == [i \in 0 .. 0 |-> c]
  <2>1. f = [i \in 0 .. 0 |-> BlockStep(c, uses, f, i)] BY DEF BlockStep
  <2> QED BY <2>1
<1>2. ASSUME NEW m \in Nat, m \in S PROVE m + 1 \in S
  <2>1. PICK f : f = [i \in 0 .. m |-> BlockStep(c, uses, f, i)] BY <1>2
  <2> DEFINE g == [i \in 0 .. m + 1 |->
                     IF i = m + 1 THEN BlockStep(c, uses, f, m + 1) ELSE f[i]]
  <2>2. ASSUME NEW i \in 0 .. m + 1 PROVE g[i] = BlockStep(c, uses, g, i)
    <3>1. CASE i = m + 1
      <4>1. g[i] = BlockStep(c, uses, f, m + 1) /\ g[m] = f[m] BY <3>1
      <4>2. i - 1 = m /\ i # 0 BY <3>1
      <4> HIDE DEF g
      <4> QED BY <3>1, <4>1, <4>2 DEF BlockStep
    <3>2. CASE i # m + 1
      <4>1. i \in 0 .. m /\ g[i] = f[i] BY <3>2
      <4>2. f[i] = BlockStep(c, uses, f, i) BY <2>1, <4>1
      <4>3. i # 0 => i - 1 \in 0 .. m /\ g[i - 1] = f[i - 1] BY <4>1
      <4> HIDE DEF g
      <4> QED BY <4>1, <4>2, <4>3 DEF BlockStep
    <3> QED BY <3>1, <3>2
  <2>3. g = [i \in 0 .. m + 1 |-> BlockStep(c, uses, g, i)]
    <3>1. g = [i \in 0 .. m + 1 |-> g[i]] OBVIOUS
    <3> HIDE DEF g
    <3> QED BY <2>2, <3>1
  <2> HIDE DEF g
  <2> QED BY <2>3
<1> HIDE DEF S
<1>3. n \in S BY <1>1, <1>2, Induction
<1> QED BY <1>3 DEF S

LEMMA Wider ==
  ASSUME NEW n \in Nat, NEW k \in Nat, NEW s \in k .. k + n
  PROVE  s + 1 \in k .. k + (n + 1) /\ s \in k .. k + (n + 1)
OBVIOUS

\* A use of a sequence number keeps a state good and following on c.
LEMMA UseExtends ==
  ASSUME NEW c, NEW s, NEW t, NEW n \in Nat,
         Good(c), Good(s), Extends(s, c, n),
         t = append_event(s) \/ t = next_sequence(s)
  PROVE  Good(t) /\ Extends(t, c, n + 1) /\ t.sequence = s.sequence + 1
<1>1. /\ s \in State /\ s.all \in Seq(Event) /\ Len(s.all) \in Nat
      /\ s.sequence \in Nat /\ Chain(s.all, s.sequence) /\ s.log = prune(s.all)
      /\ c.sequence \in Nat /\ Len(c.all) \in Nat
  BY DEF Good, State
<1>2. CASE t = append_event(s)
  <2> DEFINE e == NewEvent(s)
  <2>1. /\ t \in State /\ t.sequence = s.sequence + 1 /\ t.all = Append(s.all, e)
        /\ t.log = prune(t.all)
    BY <1>2, AppendEvent
  <2>2. Good(t) BY <2>1, ChainGrows DEF Good
  <2>3. e.sequence = s.sequence + 1 /\ t.all \in Seq(Event) BY <2>1 DEF NewEvent, State
  <2>4. e \in Event
    <3>1. Len(t.all) = Len(s.all) + 1 /\ t.all[Len(s.all) + 1] = e BY <1>1, <2>1
    <3> QED BY <1>1, <2>3, <3>1
  <2> HIDE DEF e
  <2>5. /\ Len(t.all) = Len(s.all) + 1 /\ t.all[Len(s.all) + 1] = e
        /\ \A i \in 1 .. Len(s.all) : t.all[i] = s.all[i]
    BY <1>1, <2>1, <2>4
  <2>6. Extends(t, c, n + 1)
    <3>1. /\ Len(s.all) \in Len(c.all) .. Len(c.all) + n /\ c.sequence <= s.sequence
          /\ \A i \in 1 .. Len(c.all) : s.all[i] = c.all[i]
          /\ \A i \in Len(c.all) + 1 .. Len(s.all) : s.all[i].sequence > c.sequence
      BY DEF Extends
    <3>2. Len(t.all) \in Len(c.all) .. Len(c.all) + (n + 1) /\ c.sequence <= t.sequence
      <4>1. Len(t.all) \in Len(c.all) .. Len(c.all) + (n + 1) BY <1>1, <2>5, <3>1, Wider
      <4>2. c.sequence <= t.sequence BY <1>1, <2>1, <3>1
      <4> QED BY <4>1, <4>2
    <3>3. \A i \in 1 .. Len(c.all) : t.all[i] = c.all[i] BY <1>1, <2>5, <3>1
    <3>4. ASSUME NEW i \in Len(c.all) + 1 .. Len(t.all) PROVE t.all[i].sequence > c.sequence
      <4>1. i = Len(s.all) + 1 \/ i \in Len(c.all) + 1 .. Len(s.all) BY <1>1, <2>5
      <4>2. i \in Len(c.all) + 1 .. Len(s.all) => i \in 1 .. Len(s.all) BY <1>1
      <4>3. s.sequence + 1 > c.sequence BY <1>1, <3>1
      <4> QED BY <2>3, <2>5, <3>1, <4>1, <4>2, <4>3
    <3> QED BY <3>2, <3>3, <3>4 DEF Extends
  <2> QED BY <2>1, <2>2, <2>6
<1>3. CASE t = next_sequence(s)
  <2>1. /\ t \in State /\ t.sequence = s.sequence + 1 /\ t.log = s.log /\ t.all = s.all
    BY <1>1, <1>3 DEF next_sequence, State
  <2>2. Chain(t.all, t.sequence)
    <3>1. \A i \in 1 .. s.sequence : i \in 1 .. t.sequence BY <1>1, <2>1
    <3>2. Len(t.all) <= t.sequence BY <1>1, <2>1 DEF Chain
    <3> QED BY <1>1, <2>1, <3>1, <3>2 DEF Chain
  <2>3. Good(t) BY <1>1, <2>1, <2>2 DEF Good
  <2>4. Extends(t, c, n + 1)
    <3>1. Len(s.all) \in Len(c.all) .. Len(c.all) + n /\ c.sequence <= s.sequence
      BY DEF Extends
    <3>2. Len(t.all) \in Len(c.all) .. Len(c.all) + (n + 1) /\ c.sequence <= t.sequence
      <4>1. Len(t.all) \in Len(c.all) .. Len(c.all) + (n + 1) BY <1>1, <2>1, <3>1, Wider
      <4>2. c.sequence <= t.sequence BY <1>1, <2>1, <3>1
      <4> QED BY <4>1, <4>2
    <3> QED BY <2>1, <3>2 DEF Extends
  <2> QED BY <2>1, <2>3, <2>4
<1> QED BY <1>2, <1>3

\* What FinalizeBlock leaves pending.
LEMMA BlockExtends ==
  ASSUME NEW uses \in BoundedSeq({"event", "order"}, MaxPerBlock),
         Good(committed), FinalizeBlock(uses)
  PROVE  /\ Good(pending') /\ Extends(pending', committed, MaxPerBlock)
         /\ pending'.sequence \in committed.sequence .. MaxSequence
<1> DEFINE n == Len(uses)
<1>1. n \in 0 .. MaxPerBlock /\ n \in Nat
  <2>1. PICK m \in 0 .. MaxPerBlock : uses \in [1 .. m -> {"event", "order"}]
    BY DEF BoundedSeq, SeqOf
  <2>2. m \in Nat BY <2>1, FeedAssumption
  <2>3. uses \in Seq({"event", "order"}) BY <2>1, <2>2, SeqDef
  <2>4. DOMAIN uses = 1 .. Len(uses) /\ Len(uses) \in Nat BY <2>3, LenProperties
  <2>5. 1 .. m = 1 .. Len(uses) BY <2>1, <2>4
  <2>6. m = Len(uses) BY <2>2, <2>4, <2>5, SameInterval
  <2> QED BY <2>1, <2>2, <2>6
<1> DEFINE F == CHOOSE f : f = [i \in 0 .. n |-> BlockStep(committed, uses, f, i)]
<1>2. F = [i \in 0 .. n |-> BlockStep(committed, uses, F, i)] BY <1>1, BlockExists
<1>3. pending' = [F[n] EXCEPT !.log = prune(@)] /\ committed.sequence + n <= MaxSequence
  BY DEF FinalizeBlock, BlockStep
<1> HIDE DEF F, n
<1> DEFINE Kept(i) == i \in 0 .. n => /\ Good(F[i]) /\ Extends(F[i], committed, i)
                                      /\ F[i].sequence = committed.sequence + i
           S == {i \in Nat : Kept(i)}
<1>4. committed.sequence \in Nat /\ Len(committed.all) \in Nat BY DEF Good, State
<1>5. 0 \in S
  <2>1. F[0] = committed BY <1>1, <1>2 DEF BlockStep
  <2>2. Extends(committed, committed, 0) BY <1>4 DEF Extends
  <2> QED BY <1>4, <2>1, <2>2
<1>6. ASSUME NEW i \in Nat, i \in S PROVE i + 1 \in S
  <2> SUFFICES ASSUME i + 1 \in 0 .. n PROVE Kept(i + 1) OBVIOUS
  <2>1. i \in 0 .. n /\ i + 1 # 0 /\ (i + 1) - 1 = i BY <1>1
  <2>2. F[i + 1] = BlockStep(committed, uses, F, i + 1) BY <1>2
  <2>3. F[i + 1] = append_event(F[i]) \/ F[i + 1] = next_sequence(F[i])
    BY <2>1, <2>2 DEF BlockStep
  <2>4. /\ Good(F[i]) /\ Extends(F[i], committed, i)
        /\ F[i].sequence = committed.sequence + i
    BY <1>6, <2>1
  <2>5. /\ Good(F[i + 1]) /\ Extends(F[i + 1], committed, i + 1)
        /\ F[i + 1].sequence = F[i].sequence + 1
    <3> DEFINE a == F[i]
               b == F[i + 1]
    <3>1. b = append_event(a) \/ b = next_sequence(a) BY <2>3
    <3>2. Good(a) /\ Extends(a, committed, i) BY <2>4
    <3> HIDE DEF a, b
    <3>3. Good(b) /\ Extends(b, committed, i + 1) /\ b.sequence = a.sequence + 1
      BY <3>1, <3>2, UseExtends
    <3> QED BY <3>3 DEF a, b
  <2>6. F[i + 1].sequence = committed.sequence + (i + 1) BY <1>4, <2>4, <2>5
  <2> QED BY <2>5, <2>6
<1> HIDE DEF Kept
<1>7. n \in S BY <1>1, <1>5, <1>6, Induction
<1> DEFINE s == F[n]
<1>8. Good(s) /\ Extends(s, committed, n) /\ s.sequence = committed.sequence + n
  BY <1>1, <1>7 DEF Kept
<1> HIDE DEF s
<1>9. pending' = [s EXCEPT !.log = prune(@)] BY <1>3 DEF s
<1>10. s \in State /\ s.all \in Seq(Event) /\ s.log = prune(s.all) /\ s.log \in Seq(Event)
  BY <1>8 DEF Good, State
<1>11. prune(s.log) = s.log BY <1>10, PruneOfPruned
<1>12. /\ pending' \in State /\ pending'.all = s.all /\ pending'.log = s.log
       /\ pending'.sequence = s.sequence
  BY <1>9, <1>10, <1>11 DEF State
<1>13. Good(pending') BY <1>8, <1>10, <1>12 DEF Good
<1>14. Extends(pending', committed, MaxPerBlock)
  <2>1. Len(s.all) \in Len(committed.all) .. Len(committed.all) + MaxPerBlock
    BY <1>1, <1>4, <1>8, FeedAssumption DEF Extends
  <2> QED BY <1>8, <1>12, <2>1 DEF Extends
<1>15. pending'.sequence \in committed.sequence .. MaxSequence
  BY <1>1, <1>3, <1>4, <1>8, <1>12, FeedAssumption
<1> QED BY <1>13, <1>14, <1>15

\* What after has found in the first i events.
LaterStep(log, x, limit, f, i) ==
    IF i = 0 THEN <<>>
    ELSE IF log[i].sequence > x /\ Len(f[i - 1]) < limit
         THEN Append(f[i - 1], log[i])
         ELSE f[i - 1]

LEMMA AfterExists ==
  ASSUME NEW log, NEW x, NEW limit, Len(log) \in Nat
  PROVE  \E f : /\ f = [i \in 0 .. Len(log) |-> LaterStep(log, x, limit, f, i)]
                /\ after(log, x, limit) = f[Len(log)]
<1> DEFINE S == {n \in Nat : \E f : f = [i \in 0 .. n |-> LaterStep(log, x, limit, f, i)]}
<1>1. 0 \in S
  <2> DEFINE f == [i \in 0 .. 0 |-> <<>>]
  <2>1. f = [i \in 0 .. 0 |-> LaterStep(log, x, limit, f, i)] BY DEF LaterStep
  <2> QED BY <2>1
<1>2. ASSUME NEW n \in Nat, n \in S PROVE n + 1 \in S
  <2>1. PICK f : f = [i \in 0 .. n |-> LaterStep(log, x, limit, f, i)] BY <1>2
  <2> DEFINE g == [i \in 0 .. n + 1 |->
                     IF i = n + 1 THEN LaterStep(log, x, limit, f, n + 1) ELSE f[i]]
  <2>2. ASSUME NEW i \in 0 .. n + 1 PROVE g[i] = LaterStep(log, x, limit, g, i)
    <3>1. CASE i = n + 1
      <4>1. g[i] = LaterStep(log, x, limit, f, n + 1) /\ g[n] = f[n] BY <3>1
      <4>2. i - 1 = n /\ i # 0 BY <3>1
      <4> HIDE DEF g
      <4> QED BY <3>1, <4>1, <4>2 DEF LaterStep
    <3>2. CASE i # n + 1
      <4>1. i \in 0 .. n /\ g[i] = f[i] BY <3>2
      <4>2. f[i] = LaterStep(log, x, limit, f, i) BY <2>1, <4>1
      <4>3. i # 0 => i - 1 \in 0 .. n /\ g[i - 1] = f[i - 1] BY <4>1
      <4> HIDE DEF g
      <4> QED BY <4>1, <4>2, <4>3 DEF LaterStep
    <3> QED BY <3>1, <3>2
  <2>3. g = [i \in 0 .. n + 1 |-> LaterStep(log, x, limit, g, i)]
    <3>1. g = [i \in 0 .. n + 1 |-> g[i]] OBVIOUS
    <3> HIDE DEF g
    <3> QED BY <2>2, <3>1
  <2> HIDE DEF g
  <2> QED BY <2>3
<1> HIDE DEF S
<1>3. Len(log) \in S BY <1>1, <1>2, Induction
<1> DEFINE F == CHOOSE f : f = [i \in 0 .. Len(log) |-> LaterStep(log, x, limit, f, i)]
<1>4. F = [i \in 0 .. Len(log) |-> LaterStep(log, x, limit, F, i)] BY <1>3 DEF S
<1>5. after(log, x, limit) = F[Len(log)] BY DEF after, LaterStep
<1> QED BY <1>4, <1>5

\* How many of the events from k + 1 to i fit into a page.
Page(k, i, limit) ==
    IF i <= k THEN 0 ELSE IF i - k <= limit THEN i - k ELSE limit

LEMMA PageFacts ==
  ASSUME NEW k \in Nat, NEW i \in Nat, NEW limit \in Nat
  PROVE  /\ Page(k, i, limit) \in 0 .. limit
         /\ i >= k => k + Page(k, i, limit) <= i
         /\ i < k => Page(k, i + 1, limit) = Page(k, i, limit) /\ Page(k, i, limit) = 0
         /\ i >= k /\ Page(k, i, limit) < limit
               => /\ Page(k, i + 1, limit) = Page(k, i, limit) + 1
                  /\ k + (Page(k, i, limit) + 1) = i + 1
         /\ i >= k /\ ~ (Page(k, i, limit) < limit)
               => Page(k, i + 1, limit) = Page(k, i, limit)
BY DEF Page

\* The first k events of the log, and no others, are those up to x.
SplitsAt(log, k, x) ==
    /\ log \in Seq(Event) /\ k \in 0 .. Len(log)
    /\ \A i \in 1 .. k : ~ (log[i].sequence > x)
    /\ \A i \in k + 1 .. Len(log) : log[i].sequence > x

\* A page of the log that starts after its first k events.
PageOf(page, log, k, limit) ==
    /\ page \in Seq(Event)
    /\ Len(page) = Page(k, Len(log), limit)
    /\ \A j \in 1 .. Page(k, Len(log), limit) : page[j] = log[k + j]

\* In a log whose events after the first k are those after x, after(log, x, _)
\* is a page of the rest.
LEMMA AfterFacts ==
  ASSUME NEW log, NEW x, NEW limit \in Nat, NEW k, SplitsAt(log, k, x)
  PROVE  PageOf(after(log, x, limit), log, k, limit)
<1> USE DEF SplitsAt
<1> DEFINE n == Len(log)
<1>0. n \in Nat /\ k \in Nat /\ k <= n OBVIOUS
<1>1. PICK f : /\ f = [i \in 0 .. n |-> LaterStep(log, x, limit, f, i)]
               /\ after(log, x, limit) = f[n]
  BY <1>0, AfterExists
<1> HIDE DEF n
<1> DEFINE Found(i) == i \in 0 .. n =>
                         /\ f[i] \in Seq(Event)
                         /\ Len(f[i]) = Page(k, i, limit)
                         /\ \A j \in 1 .. Page(k, i, limit) : f[i][j] = log[k + j]
           S == {i \in Nat : Found(i)}
<1>2. 0 \in S
  <2>1. f[0] = <<>> BY <1>0, <1>1 DEF LaterStep
  <2>2. f[0] \in Seq(Event) /\ Len(f[0]) = 0 BY <2>1, EmptySeq
  <2>3. Page(k, 0, limit) = 0 BY <1>0 DEF Page
  <2> QED BY <2>2, <2>3
<1>3. ASSUME NEW i \in Nat, i \in S PROVE i + 1 \in S
  <2> SUFFICES ASSUME i + 1 \in 0 .. n PROVE Found(i + 1) OBVIOUS
  <2>1. i \in 0 .. n /\ i + 1 # 0 /\ (i + 1) - 1 = i /\ i + 1 \in 1 .. n BY <1>0
  <2>2. f[i + 1] = IF log[i + 1].sequence > x /\ Len(f[i]) < limit
                   THEN Append(f[i], log[i + 1]) ELSE f[i]
    BY <1>1, <2>1 DEF LaterStep
  <2> DEFINE p == Page(k, i, limit)
  <2>3. /\ f[i] \in Seq(Event) /\ Len(f[i]) = p
        /\ \A j \in 1 .. p : f[i][j] = log[k + j]
    BY <1>3, <2>1
  <2>4. log[i + 1] \in Event BY <2>1, ElementOfSeq DEF n
  <2>5. /\ p \in 0 .. limit
        /\ i < k => Page(k, i + 1, limit) = p /\ p = 0
        /\ i >= k /\ p < limit => Page(k, i + 1, limit) = p + 1 /\ k + (p + 1) = i + 1
        /\ i >= k /\ ~ (p < limit) => Page(k, i + 1, limit) = p
    BY <1>0, PageFacts
  <2> HIDE DEF p
  <2>6. CASE i < k
    <3>1. i + 1 \in 1 .. k BY <1>0, <2>6
    <3>2. f[i + 1] = f[i] BY <2>2, <3>1
    <3> QED BY <2>3, <2>5, <2>6, <3>2
  <2>7. CASE i >= k /\ ~ (p < limit)
    <3>1. f[i + 1] = f[i] BY <2>2, <2>3, <2>7
    <3> QED BY <2>3, <2>5, <2>7, <3>1
  <2>8. CASE i >= k /\ p < limit
    <3>1. i + 1 \in k + 1 .. n BY <1>0, <2>1, <2>8
    <3>2. log[i + 1].sequence > x BY <3>1 DEF n
    <3>3. f[i + 1] = Append(f[i], log[i + 1]) BY <2>2, <2>3, <2>8, <3>2
    <3>4. /\ f[i + 1] \in Seq(Event) /\ Len(f[i + 1]) = p + 1
          /\ f[i + 1][p + 1] = log[i + 1]
          /\ \A j \in 1 .. p : f[i + 1][j] = f[i][j]
      BY <2>3, <2>4, <3>3
    <3>5. \A j \in 1 .. p + 1 : f[i + 1][j] = log[k + j]
      <4> TAKE j \in 1 .. p + 1
      <4>1. j = p + 1 \/ j \in 1 .. p BY <2>5
      <4> QED BY <2>3, <2>5, <2>8, <3>4, <4>1
    <3> QED BY <2>5, <2>8, <3>4, <3>5
  <2>9. i < k \/ i >= k BY <1>0
  <2> QED BY <2>6, <2>7, <2>8, <2>9
<1> HIDE DEF Found
<1>4. n \in S BY <1>0, <1>2, <1>3, Induction
<1> QED BY <1>0, <1>1, <1>4 DEF Found, n, PageOf

(***************************************************************************)
(* The inductive invariant.  Neither side of the channel forgets its       *)
(* place: what is sent and what is received come from the committed        *)
(* history, in order, and what is still to be received is newer than what  *)
(* has been.                                                               *)
(***************************************************************************)

From(q, all) ==
    /\ q \in Seq(Event) /\ Increasing(q)
    /\ \A i \in 1 .. Len(q) : \E h \in 1 .. Len(all) : q[i] = all[h]

States ==
    /\ Good(committed) /\ Good(pending)
    /\ Extends(pending, committed, MaxPerBlock)
    /\ pending.sequence \in committed.sequence .. MaxSequence

Sent == From(channel, committed.all) /\ position \in 0 .. Len(channel)

Read ==
    /\ From(received, committed.all)
    /\ \A i \in 1 .. Len(received) : \A j \in position + 1 .. Len(channel) :
          received[i].sequence < channel[j].sequence

\* What this process has committed and still retains has been sent.
Fresh ==
    \A i \in 1 .. Len(committed.log) : committed.log[i].sequence > started =>
        \E j \in 1 .. Len(channel) : channel[j] = committed.log[i]

IInv == States /\ Sent /\ Read /\ Fresh /\ connected \in BOOLEAN

LEMMA StillFrom ==
  ASSUME NEW q, NEW c, NEW s, NEW n, Good(c), Good(s), Extends(s, c, n), From(q, c.all)
  PROVE  From(q, s.all)
<1>1. Len(c.all) \in Nat /\ Len(s.all) \in Nat /\ Len(c.all) <= Len(s.all)
  BY DEF Good, State, Extends
<1>2. \A h \in 1 .. Len(c.all) : h \in 1 .. Len(s.all) /\ s.all[h] = c.all[h]
  BY <1>1 DEF Extends
<1> QED BY <1>2 DEF From

\* Nothing of the history is newer than the sequence counter.
LEMMA NotNewer ==
  ASSUME NEW q, NEW c, Good(c), From(q, c.all), NEW i \in 1 .. Len(q)
  PROVE  q[i].sequence \in 1 .. c.sequence
BY DEF From, Good, Chain

\* What Commit sends: the events of the block that are retained, in order.
LEMMA Published ==
  ASSUME States
  PROVE  LET sent == after(pending.log, committed.sequence, MaxSequence)
         IN  /\ From(sent, pending.all)
             /\ \A j \in 1 .. Len(sent) : sent[j].sequence > committed.sequence
             /\ \A i \in 1 .. Len(pending.log) :
                   pending.log[i].sequence > committed.sequence =>
                      \E j \in 1 .. Len(sent) : sent[j] = pending.log[i]
<1> DEFINE a == pending.all
           m == Len(committed.all)
           n == Len(a)
           d == Excess(n)
           log == pending.log
           x == committed.sequence
           sent == after(log, x, MaxSequence)
<1>1. /\ a \in Seq(Event) /\ log = prune(a) /\ Increasing(a)
      /\ pending.sequence \in Nat /\ n <= pending.sequence
      /\ x \in Nat /\ m \in Nat /\ n \in Nat
      /\ \A i \in 1 .. m : committed.all[i].sequence \in 1 .. x
  BY DEF States, Good, State, Chain
<1>2. /\ n \in m .. m + MaxPerBlock
      /\ \A i \in 1 .. m : a[i] = committed.all[i]
      /\ \A i \in m + 1 .. n : a[i].sequence > x
      /\ pending.sequence \in x .. MaxSequence
  BY DEF States, Extends
<1>3. /\ log \in Seq(Event) /\ d \in 0 .. n /\ Len(log) = n - d
      /\ \A i \in 1 .. Len(log) : log[i] = a[i + d]
  BY <1>1, PruneFacts
<1>4. n <= MaxSequence /\ MaxSequence \in Nat
  BY <1>1, <1>2, FeedAssumption
<1> HIDE DEF a, m, n, d, log, x, sent
<1> DEFINE k == IF d <= m THEN m - d ELSE 0
           g == Len(log) - k
<1>5. /\ k \in 0 .. Len(log) /\ k \in Nat /\ Len(log) \in Nat
      /\ g \in Nat /\ g <= MaxSequence /\ k + d >= m /\ k + d + g = n
      /\ k > 0 => k + d = m
  BY <1>1, <1>2, <1>3, <1>4
<1>6. ASSUME NEW i \in 1 .. k PROVE ~ (log[i].sequence > x)
  <2>1. i + d \in 1 .. m /\ i \in 1 .. Len(log) BY <1>1, <1>3, <1>5
  <2>2. log[i] = committed.all[i + d] BY <1>2, <1>3, <2>1
  <2>3. committed.all[i + d].sequence \in 1 .. x BY <1>1, <2>1
  <2> QED BY <1>1, <2>2, <2>3
<1> HIDE DEF k
<1>7. ASSUME NEW i \in k + 1 .. Len(log) PROVE log[i].sequence > x
  <2>1. i + d \in m + 1 .. n /\ i \in 1 .. Len(log) BY <1>1, <1>3, <1>5
  <2> QED BY <1>2, <1>3, <2>1
<1>8. Page(k, Len(log), MaxSequence) = g
  BY <1>4, <1>5 DEF Page
<1>9. /\ sent \in Seq(Event) /\ Len(sent) = g
      /\ \A j \in 1 .. g : sent[j] = log[k + j]
  <2> DEFINE f == Page(k, Len(log), MaxSequence)
  <2>1. SplitsAt(log, k, x) BY <1>3, <1>5, <1>6, <1>7 DEF SplitsAt
  <2>2. PageOf(after(log, x, MaxSequence), log, k, MaxSequence)
    BY <1>4, <1>5, <2>1, AfterFacts
  <2>3. f = g BY <1>8
  <2> HIDE DEF f, g
  <2> QED BY <2>2, <2>3 DEF sent, f, PageOf
<1>10. ASSUME NEW j \in 1 .. g
       PROVE  /\ sent[j] = a[(k + d) + j] /\ (k + d) + j \in 1 .. n
              /\ sent[j].sequence > x
  <2>1. k + j \in k + 1 .. Len(log) /\ k + j \in 1 .. Len(log)
        /\ (k + j) + d = (k + d) + j /\ (k + d) + j \in 1 .. n
    BY <1>1, <1>3, <1>5
  <2>2. log[k + j] = a[(k + d) + j] BY <1>3, <2>1
  <2> QED BY <1>7, <1>9, <2>1, <2>2
<1>11. \A j \in 1 .. Len(sent) : sent[j].sequence > x BY <1>9, <1>10
<1>12. \A i \in 1 .. Len(log) : log[i].sequence > x => \E j \in 1 .. Len(sent) : sent[j] = log[i]
  <2> SUFFICES ASSUME NEW i \in 1 .. Len(log), log[i].sequence > x
               PROVE  \E j \in 1 .. g : sent[j] = log[i]
    BY <1>9
  <2>1. ~ (i \in 1 .. k) BY <1>6
  <2>2. i - k \in 1 .. g /\ k + (i - k) = i BY <1>5, <2>1
  <2> QED BY <1>9, <2>2
<1>13. Increasing(sent)
  <2> SUFFICES ASSUME NEW i \in 1 .. g, NEW j \in 1 .. g, i < j
               PROVE  sent[i].sequence < sent[j].sequence
    BY <1>9 DEF Increasing
  <2>1. (k + d) + i < (k + d) + j BY <1>3, <1>5
  <2> QED BY <1>1, <1>10, <2>1 DEF Increasing, n
<1>14. \A i \in 1 .. Len(sent) : \E h \in 1 .. n : sent[i] = a[h]
  BY <1>9, <1>10
<1> HIDE DEF g
<1> QED BY <1>9, <1>11, <1>12, <1>13, <1>14 DEF From, sent, a, n, log, x

LEMMA InitIInv == Init => IInv
<1> SUFFICES ASSUME Init PROVE IInv OBVIOUS
<1>1. /\ committed = NewState /\ pending = NewState /\ channel = <<>>
      /\ position = 0 /\ connected = FALSE /\ received = <<>>
  BY DEF Init
<1>0. Fresh
  <2>1. committed.log = <<>> /\ Len(<<>>) = 0 BY EmptySeq DEF Init, NewState
  <2> QED BY <2>1 DEF Fresh
<1>2. Good(NewState) BY NewStateIsGood
<1>3. NewState.all = <<>> /\ NewState.sequence = 0 /\ Len(<<>>) = 0 /\ <<>> \in Seq(Event)
  BY EmptySeq DEF NewState
<1>4. From(<<>>, <<>>) BY <1>3 DEF From, Increasing
<1>5. Extends(NewState, NewState, MaxPerBlock) BY <1>3, FeedAssumption DEF Extends
<1>6. States BY <1>1, <1>2, <1>3, <1>5, FeedAssumption DEF States
<1>7. Sent /\ Read BY <1>1, <1>3, <1>4 DEF Sent, Read
<1> QED BY <1>0, <1>1, <1>6, <1>7 DEF IInv

\* A state follows on itself.
LEMMA ExtendsItself ==
  ASSUME NEW s, Good(s)
  PROVE  Extends(s, s, MaxPerBlock)
<1>1. s.sequence \in Nat /\ Len(s.all) \in Nat BY DEF Good, State
<1>2. Len(s.all) \in Len(s.all) .. Len(s.all) + MaxPerBlock BY <1>1, FeedAssumption
<1> QED BY <1>1, <1>2 DEF Extends

\* The retained log is the end of the history.
LEMMA LogOf ==
  ASSUME NEW s, Good(s)
  PROVE  /\ s.log \in Seq(Event) /\ Excess(Len(s.all)) \in 0 .. Len(s.all)
         /\ Len(s.log) = Len(s.all) - Excess(Len(s.all))
         /\ \A i \in 1 .. Len(s.log) : /\ s.log[i] = s.all[i + Excess(Len(s.all))]
                                       /\ i + Excess(Len(s.all)) \in 1 .. Len(s.all)
BY PruneFacts DEF Good, State

\* What the pending log retains of the committed history the committed log
\* retains too, and then it has been sent.
LEMMA StillRetained ==
  ASSUME States, Fresh, NEW i \in 1 .. Len(pending.log),
         pending.log[i].sequence > started,
         ~ (pending.log[i].sequence > committed.sequence)
  PROVE  \E j \in 1 .. Len(channel) : channel[j] = pending.log[i]
<1> DEFINE m == Len(committed.all)
           n == Len(pending.all)
           d == Excess(n)
           e == Excess(m)
<1>1. m \in Nat /\ n \in Nat /\ m <= n
  BY DEF States, Good, State, Extends
<1>2. /\ d \in 0 .. n /\ e \in 0 .. m /\ e <= d
  BY <1>1, FeedAssumption DEF Excess
<1>3. /\ pending.log[i] = pending.all[i + d] /\ i + d \in 1 .. n
      /\ Len(committed.log) = m - e
      /\ \A h \in 1 .. Len(committed.log) : committed.log[h] = committed.all[h + e]
  <2>1. Good(committed) /\ Good(pending) BY DEF States
  <2> QED BY <2>1, LogOf
<1>4. /\ \A h \in 1 .. m : pending.all[h] = committed.all[h]
      /\ \A h \in m + 1 .. n : pending.all[h].sequence > committed.sequence
  BY DEF States, Extends
<1> HIDE DEF m, n, d, e
<1>5. i + d \in 1 .. m BY <1>1, <1>3, <1>4
<1>6. i \in Nat /\ i > 0 BY <1>1, <1>2, <1>3, <1>5
<1>7. (i + d) - e \in 1 .. Len(committed.log) /\ ((i + d) - e) + e = i + d
  BY <1>1, <1>2, <1>3, <1>5, <1>6
<1>8. committed.log[(i + d) - e] = pending.log[i] BY <1>3, <1>4, <1>5, <1>7
<1> QED BY <1>7, <1>8 DEF Fresh

LEMMA CommitKeeps ==
  ASSUME IInv, Commit
  PROVE  IInv'
<1> DEFINE sent == after(pending.log, committed.sequence, MaxSequence)
           c == committed
           s == pending
<1>1. /\ committed' = s /\ channel' = channel \o sent
      /\ pending' = s /\ position' = position /\ connected' = connected
      /\ started' = started
      /\ received' = received
  BY DEF Commit
<1>2. /\ Good(c) /\ Good(s) /\ Extends(s, c, MaxPerBlock)
      /\ s.sequence \in c.sequence .. MaxSequence
      /\ c.sequence \in Nat /\ s.sequence \in Nat
  BY DEF IInv, States, Good, State
<1>3. /\ From(sent, s.all)
      /\ \A j \in 1 .. Len(sent) : sent[j].sequence > c.sequence
      /\ \A i \in 1 .. Len(s.log) : s.log[i].sequence > c.sequence =>
            \E j \in 1 .. Len(sent) : sent[j] = s.log[i]
  BY Published DEF IInv
<1>0. ASSUME NEW i \in 1 .. Len(s.log), s.log[i].sequence > started,
             ~ (s.log[i].sequence > c.sequence)
      PROVE  \E j \in 1 .. Len(channel) : channel[j] = s.log[i]
  BY <1>2, <1>0, StillRetained DEF IInv
<1>4. /\ From(channel, c.all) /\ From(received, c.all)
      /\ position \in 0 .. Len(channel)
      /\ \A i \in 1 .. Len(received) : \A j \in position + 1 .. Len(channel) :
            received[i].sequence < channel[j].sequence
  BY DEF IInv, Sent, Read
<1>5. From(channel, s.all) /\ From(received, s.all) BY <1>2, <1>4, StillFrom
<1>6. /\ \A i \in 1 .. Len(channel) : channel[i].sequence \in 1 .. c.sequence
      /\ \A i \in 1 .. Len(received) : received[i].sequence \in 1 .. c.sequence
  BY <1>2, <1>4, NotNewer
<1>7. States'
  <2>1. Extends(s, s, MaxPerBlock) BY <1>2, ExtendsItself
  <2> QED BY <1>1, <1>2, <2>1 DEF States
<1> HIDE DEF c, s, sent
<1> DEFINE o == channel \o sent
<1>8. /\ channel \in Seq(Event) /\ sent \in Seq(Event)
      /\ Len(channel) \in Nat /\ Len(sent) \in Nat
      /\ \A j \in 1 .. Len(sent) : sent[j].sequence \in Nat
  <2>1. channel \in Seq(Event) /\ sent \in Seq(Event) BY <1>3, <1>4 DEF From
  <2>2. \A j \in 1 .. Len(sent) : sent[j] \in Event BY <2>1
  <2> QED BY <2>1, <2>2 DEF Event
<1>9. /\ o \in Seq(Event) /\ Len(o) = Len(channel) + Len(sent)
      /\ \A i \in 1 .. Len(o) : o[i] = IF i <= Len(channel) THEN channel[i]
                                      ELSE sent[i - Len(channel)]
  BY <1>8, ConcatProperties
<1> HIDE DEF o
<1>10. ASSUME NEW i \in 1 .. Len(o)
       PROVE  \/ i \in 1 .. Len(channel) /\ o[i] = channel[i]
              \/ /\ i - Len(channel) \in 1 .. Len(sent) /\ ~ (i <= Len(channel))
                 /\ o[i] = sent[i - Len(channel)]
  BY <1>8, <1>9
<1>11. Increasing(o)
  <2> SUFFICES ASSUME NEW i \in 1 .. Len(o), NEW j \in 1 .. Len(o), i < j
               PROVE  o[i].sequence < o[j].sequence
    BY DEF Increasing
  <2>1. CASE j \in 1 .. Len(channel) /\ o[j] = channel[j]
    <3>1. i \in 1 .. Len(channel) /\ o[i] = channel[i] BY <1>8, <1>10, <2>1
    <3> QED BY <1>4, <2>1, <3>1 DEF From, Increasing
  <2>2. CASE /\ j - Len(channel) \in 1 .. Len(sent) /\ o[j] = sent[j - Len(channel)]
             /\ i \in 1 .. Len(channel) /\ o[i] = channel[i]
    <3>1. o[i].sequence \in 1 .. c.sequence BY <1>6, <2>2
    <3>2. o[j].sequence > c.sequence /\ o[j].sequence \in Nat BY <1>3, <1>8, <2>2
    <3> QED BY <1>2, <3>1, <3>2 DEF c
  <2>3. CASE /\ j - Len(channel) \in 1 .. Len(sent) /\ o[j] = sent[j - Len(channel)]
             /\ i - Len(channel) \in 1 .. Len(sent) /\ o[i] = sent[i - Len(channel)]
    <3>1. i - Len(channel) < j - Len(channel) BY <1>8
    <3> QED BY <1>3, <2>3, <3>1 DEF From, Increasing
  <2> QED BY <1>10, <2>1, <2>2, <2>3
<1>12. \A i \in 1 .. Len(o) : \E h \in 1 .. Len(s.all) : o[i] = s.all[h]
  <2> TAKE i \in 1 .. Len(o)
  <2>1. \A j \in 1 .. Len(channel) : \E h \in 1 .. Len(s.all) : channel[j] = s.all[h]
    BY <1>5 DEF From
  <2>2. \A j \in 1 .. Len(sent) : \E h \in 1 .. Len(s.all) : sent[j] = s.all[h]
    BY <1>3 DEF From
  <2>3. CASE i \in 1 .. Len(channel) /\ o[i] = channel[i] BY <2>1, <2>3
  <2>4. CASE i - Len(channel) \in 1 .. Len(sent) /\ o[i] = sent[i - Len(channel)]
    BY <2>2, <2>4
  <2> QED BY <1>10, <2>3, <2>4
<1>13. Sent'
  <2>1. From(o, s.all) BY <1>9, <1>11, <1>12 DEF From
  <2>2. position \in 0 .. Len(o) BY <1>4, <1>8, <1>9
  <2> QED BY <1>1, <2>1, <2>2 DEF Sent, o
<1>14. Read'
  <2> SUFFICES ASSUME NEW i \in 1 .. Len(received), NEW j \in position + 1 .. Len(o)
               PROVE  received[i].sequence < o[j].sequence
    BY <1>1, <1>5 DEF Read, o
  <2>1. j \in 1 .. Len(o) BY <1>4, <1>8, <1>9
  <2>2. CASE j \in 1 .. Len(channel) /\ o[j] = channel[j]
    <3>1. j \in position + 1 .. Len(channel) BY <1>4, <1>8, <2>2
    <3> QED BY <1>4, <2>2, <3>1
  <2>3. CASE j - Len(channel) \in 1 .. Len(sent) /\ o[j] = sent[j - Len(channel)]
    <3>1. received[i].sequence \in 1 .. c.sequence BY <1>6
    <3>2. o[j].sequence > c.sequence /\ o[j].sequence \in Nat BY <1>3, <1>8, <2>3
    <3> QED BY <1>2, <3>1, <3>2 DEF c
  <2> QED BY <1>10, <2>1, <2>2, <2>3
<1>15. Fresh'
  <2> SUFFICES ASSUME NEW i \in 1 .. Len(s.log), s.log[i].sequence > started
               PROVE  \E j \in 1 .. Len(o) : o[j] = s.log[i]
    BY <1>1 DEF Fresh, o
  <2>1. CASE s.log[i].sequence > c.sequence
    <3>1. PICK j \in 1 .. Len(sent) : sent[j] = s.log[i] BY <1>3, <2>1
    <3>2. /\ Len(channel) + j \in 1 .. Len(o) /\ ~ (Len(channel) + j <= Len(channel))
          /\ (Len(channel) + j) - Len(channel) = j
      BY <1>8, <1>9
    <3>3. o[Len(channel) + j] = sent[j] BY <1>9, <3>2
    <3> QED BY <3>1, <3>2, <3>3
  <2>2. CASE ~ (s.log[i].sequence > c.sequence)
    <3>1. PICK j \in 1 .. Len(channel) : channel[j] = s.log[i] BY <1>0, <2>2
    <3>2. j \in 1 .. Len(o) /\ j <= Len(channel) BY <1>8, <1>9
    <3> QED BY <1>9, <3>1, <3>2
  <2> QED BY <2>1, <2>2
<1> QED BY <1>1, <1>7, <1>13, <1>14, <1>15 DEF IInv

LEMMA FinalizeKeeps ==
  ASSUME IInv, NEW uses \in BoundedSeq({"event", "order"}, MaxPerBlock),
         FinalizeBlock(uses)
  PROVE  IInv'
<1>1. UNCHANGED <<committed, started, channel, position, connected, received>>
  BY DEF FinalizeBlock
<1>2. /\ Good(pending') /\ Extends(pending', committed, MaxPerBlock)
      /\ pending'.sequence \in committed.sequence .. MaxSequence
  BY BlockExtends DEF IInv, States
<1>3. States' BY <1>1, <1>2 DEF IInv, States
<1>4. Sent' /\ Read' /\ Fresh' BY <1>1 DEF IInv, Sent, Read, Fresh
<1> QED BY <1>1, <1>3, <1>4 DEF IInv

LEMMA CrashKeeps ==
  ASSUME IInv, Crash
  PROVE  IInv'
<1>1. PICK d \in {committed, pending} :
          committed' = d /\ pending' = d /\ started' = d.sequence
  BY DEF Crash
<1>2. /\ channel' = <<>> /\ position' = 0 /\ connected' = FALSE
      /\ received' = received
  BY DEF Crash
<1>3. /\ Good(d) /\ d.sequence \in Nat /\ d.sequence <= MaxSequence
      /\ Extends(d, d, MaxPerBlock)
  <2>1. Good(d) /\ d.sequence \in Nat BY DEF IInv, States, Good, State
  <2>2. d.sequence <= MaxSequence
    <3>1. /\ committed.sequence \in Nat
          /\ pending.sequence \in committed.sequence .. MaxSequence
      BY DEF IInv, States, Good, State
    <3> QED BY <3>1, FeedAssumption
  <2> QED BY <2>1, <2>2, ExtendsItself
<1>4. From(received, d.all)
  <2>1. From(received, committed.all) BY DEF IInv, Read
  <2>2. d = pending => Extends(d, committed, MaxPerBlock) BY DEF IInv, States
  <2> QED BY <1>3, <2>1, <2>2, StillFrom DEF IInv, States
<1>5. From(<<>>, d.all)
  <2>1. <<>> \in Seq(Event) /\ Len(<<>>) = 0 BY EmptySeq
  <2> QED BY <2>1 DEF From, Increasing
<1>6. States'
  <2>1. d.sequence \in d.sequence .. MaxSequence BY <1>3, FeedAssumption
  <2> QED BY <1>1, <1>3, <2>1 DEF States
<1>7. Len(<<>>) = 0 BY EmptySeq
<1>8. Sent' BY <1>1, <1>2, <1>5, <1>7 DEF Sent
<1>9. Read' BY <1>1, <1>2, <1>4, <1>7 DEF Read
<1>10. ASSUME NEW i \in 1 .. Len(d.log) PROVE ~ (d.log[i].sequence > d.sequence)
  <2>1. d.log[i] = d.all[i + Excess(Len(d.all))]
        /\ i + Excess(Len(d.all)) \in 1 .. Len(d.all)
    BY <1>3, LogOf
  <2>2. d.log[i].sequence \in 1 .. d.sequence BY <1>3, <2>1 DEF Good, Chain
  <2> QED BY <1>3, <2>2
<1>11. Fresh' BY <1>1, <1>10 DEF Fresh
<1> QED BY <1>2, <1>6, <1>8, <1>9, <1>11 DEF IInv

\* The websocket: the subscriber's place in the channel only goes up.
LEMMA SkipKeeps ==
  ASSUME IInv, position' \in position .. Len(channel), connected' \in BOOLEAN,
         UNCHANGED <<committed, pending, started, channel, received>>
  PROVE  IInv'
<1>1. /\ channel \in Seq(Event) /\ Len(channel) \in Nat
      /\ position \in 0 .. Len(channel)
  BY DEF IInv, Sent, From
<1>2. position' \in 0 .. Len(channel) /\ position <= position' BY <1>1
<1>3. \A j \in position' + 1 .. Len(channel) : j \in position + 1 .. Len(channel)
  <2> DEFINE p == position
             q == position'
             n == Len(channel)
  <2>1. p \in Nat /\ q \in Nat /\ n \in Nat /\ p <= q BY <1>1, <1>2
  <2> HIDE DEF p, q, n
  <2>2. \A j \in q + 1 .. n : j \in p + 1 .. n BY <2>1
  <2> QED BY <2>2 DEF p, q, n
<1>4. States' BY DEF IInv, States
<1>5. Sent' BY <1>2 DEF IInv, Sent
<1>6. Read' BY <1>3 DEF IInv, Read
<1>7. Fresh' BY DEF IInv, Fresh
<1> QED BY <1>4, <1>5, <1>6, <1>7 DEF IInv

LEMMA ReceiveKeeps ==
  ASSUME IInv, Receive
  PROVE  IInv'
<1> DEFINE e == channel[position + 1]
           r == Append(received, e)
<1>1. /\ received' = r /\ position' = position + 1 /\ position < Len(channel)
      /\ UNCHANGED <<committed, pending, started, channel, connected>>
  BY DEF Receive
<1>2. /\ From(channel, committed.all) /\ From(received, committed.all)
      /\ channel \in Seq(Event) /\ received \in Seq(Event)
      /\ Len(channel) \in Nat /\ Len(received) \in Nat
      /\ position \in 0 .. Len(channel)
  BY DEF IInv, Sent, Read, From
<1>3. /\ position + 1 \in 1 .. Len(channel) /\ position + 1 \in position + 1 .. Len(channel)
      /\ \A j \in position + 2 .. Len(channel) :
            j \in 1 .. Len(channel) /\ j \in position + 1 .. Len(channel) /\ position + 1 < j
      /\ (position + 1) + 1 = position + 2
  BY <1>1, <1>2
<1>4. e \in Event BY <1>2, <1>3
<1>5. \E h \in 1 .. Len(committed.all) : e = committed.all[h] BY <1>2, <1>3 DEF From
<1>6. \A i \in 1 .. Len(received) : received[i].sequence < e.sequence
  BY <1>3 DEF IInv, Read
<1>7. \A j \in position + 2 .. Len(channel) : e.sequence < channel[j].sequence
  BY <1>2, <1>3 DEF From, Increasing
<1> HIDE DEF e
<1>8. /\ r \in Seq(Event) /\ Len(r) = Len(received) + 1 /\ r[Len(received) + 1] = e
      /\ \A i \in 1 .. Len(received) : r[i] = received[i]
  BY <1>2, <1>4
<1> HIDE DEF r
<1>9. \A i \in 1 .. Len(r) : i \in 1 .. Len(received) \/ i = Len(received) + 1
  BY <1>2, <1>8
<1>10. Increasing(r)
  <2> SUFFICES ASSUME NEW i \in 1 .. Len(r), NEW j \in 1 .. Len(r), i < j
               PROVE  r[i].sequence < r[j].sequence
    BY DEF Increasing
  <2>1. i \in 1 .. Len(received) BY <1>2, <1>8
  <2>2. CASE j = Len(received) + 1 BY <1>6, <1>8, <2>1, <2>2
  <2>3. CASE j \in 1 .. Len(received) BY <1>2, <1>8, <2>1, <2>3 DEF From, Increasing
  <2> QED BY <1>9, <2>2, <2>3
<1>11. From(r, committed.all)
  <2>1. ASSUME NEW i \in 1 .. Len(r) PROVE \E h \in 1 .. Len(committed.all) : r[i] = committed.all[h]
    <3>1. CASE i = Len(received) + 1 BY <1>5, <1>8, <3>1
    <3>2. CASE i \in 1 .. Len(received) BY <1>2, <1>8, <3>2 DEF From
    <3> QED BY <1>9, <3>1, <3>2
  <2> QED BY <1>8, <1>10, <2>1 DEF From
<1>12. ASSUME NEW i \in 1 .. Len(r), NEW j \in position + 2 .. Len(channel)
       PROVE  r[i].sequence < channel[j].sequence
  <2>1. CASE i = Len(received) + 1 BY <1>7, <1>8, <2>1
  <2>2. CASE i \in 1 .. Len(received) BY <1>3, <1>8, <2>2 DEF IInv, Read
  <2> QED BY <1>9, <2>1, <2>2
<1>13. States' BY <1>1 DEF IInv, States
<1>14. Sent' BY <1>1, <1>2, <1>3 DEF Sent
<1>15. Read' BY <1>1, <1>3, <1>11, <1>12 DEF Read
<1>16. connected' \in BOOLEAN BY <1>1 DEF IInv
<1>17. Fresh' BY <1>1 DEF IInv, Fresh
<1> QED BY <1>13, <1>14, <1>15, <1>16, <1>17 DEF IInv

LEMMA NextIInv == IInv /\ [Next]_vars => IInv'
<1> SUFFICES ASSUME IInv, [Next]_vars PROVE IInv' OBVIOUS
<1>0. Len(channel) \in Nat /\ position \in 0 .. Len(channel) BY DEF IInv, Sent, From
<1>1. ASSUME NEW uses \in BoundedSeq({"event", "order"}, MaxPerBlock), FinalizeBlock(uses)
      PROVE  IInv'
  BY <1>1, FinalizeKeeps
<1>2. CASE Commit BY <1>2, CommitKeeps
<1>3. CASE Crash BY <1>3, CrashKeeps
<1>4. CASE Subscribe
  <2>1. Len(channel) \in position .. Len(channel) BY <1>0
  <2> QED BY <1>4, <2>1, SkipKeeps DEF Subscribe
<1>5. CASE Disconnect
  <2>1. position \in position .. Len(channel) BY <1>0
  <2> QED BY <1>5, <2>1, SkipKeeps DEF Disconnect
<1>6. CASE Receive BY <1>6, ReceiveKeeps
<1>7. CASE Lagged
  <2>1. Len(channel) - ChannelCapacity \in position .. Len(channel)
    BY <1>0, <1>7, FeedAssumption DEF Lagged, Lagging
  <2>2. connected' \in BOOLEAN BY <1>7 DEF Lagged, IInv
  <2> QED BY <1>7, <2>1, <2>2, SkipKeeps DEF Lagged
<1>8. CASE UNCHANGED vars BY <1>8 DEF vars, IInv, States, Sent, Read, Fresh
<1> QED BY <1>1, <1>2, <1>3, <1>4, <1>5, <1>6, <1>7, <1>8 DEF Next

LEMMA Invariance == Spec => []IInv
<1>1. Init => IInv BY InitIInv
<1>2. IInv /\ [Next]_vars => IInv' BY NextIInv
<1> QED BY <1>1, <1>2, PTL DEF Spec

LEMMA SamePart ==
  ASSUME NEW q \in Seq(Event), NEW r \in Seq(Event), NEW n \in Nat,
         n <= Len(q), n <= Len(r), \A i \in 1 .. n : q[i] = r[i]
  PROVE  SubSeq(q, 1, n) = SubSeq(r, 1, n)
<1>1. /\ SubSeq(q, 1, n) = [i \in 1 .. (n - 1) + 1 |-> q[(1 + i) - 1]]
      /\ SubSeq(r, 1, n) = [i \in 1 .. (n - 1) + 1 |-> r[(1 + i) - 1]]
  OBVIOUS
<1>2. (n - 1) + 1 = n /\ \A i \in 1 .. n : (1 + i) - 1 = i OBVIOUS
<1> QED BY <1>1, <1>2

(***************************************************************************)
(* What the invariant says to a client.                                    *)
(***************************************************************************)

LEMMA Verifies ==
  ASSUME NEW s, Good(s)
  PROVE  verify(s.log)
<1> DEFINE n == Len(s.all)
           d == Excess(n)
           log == s.log
           all == s.all
<1>1. /\ log \in Seq(Event) /\ d \in 0 .. n /\ Len(log) = n - d
      /\ \A i \in 1 .. Len(log) : log[i] = all[i + d] /\ i + d \in 1 .. n
  BY LogOf
<1>2. /\ n \in Nat /\ Increasing(all) /\ all \in Seq(Event)
      /\ \A i \in 1 .. n : Linked(all, i)
  BY DEF Good, State, Chain
<1>3. DOMAIN log = 1 .. Len(log) /\ Len(log) \in Nat BY <1>1
<1>4. ASSUME NEW i \in 1 .. Len(log), i > 1
      PROVE  /\ log[i].previous = log[i - 1].sequence
             /\ log[i].sequence > log[i - 1].sequence
  <2>1. i - 1 \in 1 .. Len(log) /\ (i - 1) + d = (i + d) - 1 /\ i + d # 1
        /\ (i + d) - 1 < i + d
    BY <1>1, <1>2, <1>3, <1>4
  <2>2. /\ log[i] = all[i + d] /\ log[i - 1] = all[(i + d) - 1]
        /\ i + d \in 1 .. n /\ (i + d) - 1 \in 1 .. n
    BY <1>1, <2>1
  <2>3. all[i + d].previous = all[(i + d) - 1].sequence BY <1>2, <2>1, <2>2 DEF Linked
  <2>4. all[(i + d) - 1].sequence < all[i + d].sequence BY <1>2, <2>1, <2>2 DEF Increasing
  <2>5. all[i + d] \in Event /\ all[(i + d) - 1] \in Event BY <1>2, <2>2
  <2>6. all[i + d].sequence \in Nat /\ all[(i + d) - 1].sequence \in Nat BY <2>5 DEF Event
  <2> HIDE DEF n, d, log, all
  <2> QED BY <2>2, <2>3, <2>4, <2>6
<1> HIDE DEF n, d, all
<1> QED BY <1>3, <1>4 DEF verify

LEMMA Resumes ==
  ASSUME Good(committed)
  PROVE  ReaderCanResume
<1> DEFINE a == committed.all
           n == Len(a)
           d == Excess(n)
           log == committed.log
<1>1. /\ log \in Seq(Event) /\ d \in 0 .. n /\ Len(log) = n - d
      /\ n > 0 => n - d > 0
      /\ \A i \in 1 .. Len(log) : log[i] = a[i + d] /\ i + d \in 1 .. n
  <2>1. n \in Nat BY DEF Good, State
  <2> QED BY <2>1, LogOf, ExcessFacts
<1>2. /\ a \in Seq(Event) /\ n \in Nat /\ Increasing(a)
      /\ \A i \in 1 .. n : Linked(a, i) /\ a[i].sequence \in 1 .. committed.sequence
      /\ committed.sequence \in Nat
  BY DEF Good, State, Chain
<1> HIDE DEF a, n, d, log
<1> SUFFICES ASSUME NEW k \in 0 .. n - 1
             PROVE  LET last == IF k = 0 THEN 0 ELSE a[k].sequence
                        page == events(log, last)
                    IN  /\ page # <<>>
                        /\ \/ IsPrefix(page, SubSeq(a, k + 1, n))
                           \/ /\ IsPrefix(page, log)
                              /\ Head(page).previous # last
  BY DEF ReaderCanResume, a, n, log
<1> DEFINE last == IF k = 0 THEN 0 ELSE a[k].sequence
           page == events(log, last)
           b == IF k <= d THEN 0 ELSE k - d
           g == Page(b, Len(log), DefaultLimit)
<1>3. /\ Len(log) \in Nat /\ Len(log) > 0 /\ d \in Nat /\ k \in Nat
      /\ b \in 0 .. Len(log) /\ b < Len(log)
      /\ DefaultLimit \in Nat \ {0}
  BY <1>1, <1>2, FeedAssumption
<1>4. last \in Nat /\ (k # 0 => last = a[k].sequence /\ k \in 1 .. n) /\ (k = 0 => last = 0)
  BY <1>2
<1> HIDE DEF last
<1>5. ASSUME NEW i \in 1 .. b PROVE ~ (log[i].sequence > last)
  <2>1. k > d /\ b = k - d /\ k # 0 BY <1>1, <1>2, <1>3
  <2>2. i \in 1 .. Len(log) /\ i + d \in 1 .. n /\ k \in 1 .. n /\ (i + d = k \/ i + d < k)
    BY <1>1, <1>2, <1>3, <2>1
  <2>3. log[i] = a[i + d] BY <1>1, <2>2
  <2>4. a[i + d].sequence = last \/ a[i + d].sequence < last
    BY <1>2, <1>4, <2>1, <2>2 DEF Increasing, n
  <2>5. a[i + d].sequence \in Nat BY <1>2, <2>2
  <2> QED BY <1>4, <2>3, <2>4, <2>5
<1>6. ASSUME NEW i \in b + 1 .. Len(log) PROVE log[i].sequence > last
  <2>1. i \in 1 .. Len(log) /\ i + d \in 1 .. n /\ k < i + d BY <1>1, <1>2, <1>3
  <2>2. log[i] = a[i + d] /\ a[i + d].sequence \in 1 .. committed.sequence
    BY <1>1, <1>2, <2>1
  <2>3. k # 0 => a[k].sequence < a[i + d].sequence
    BY <1>2, <1>4, <2>1 DEF Increasing, n
  <2> QED BY <1>2, <1>4, <2>2, <2>3
<1> HIDE DEF b
<1>7. /\ page \in Seq(Event) /\ Len(page) = g
      /\ \A j \in 1 .. g : page[j] = log[b + j]
  <2>1. SplitsAt(log, b, last) BY <1>1, <1>3, <1>5, <1>6 DEF SplitsAt
  <2>2. PageOf(after(log, last, DefaultLimit), log, b, DefaultLimit)
    BY <1>1, <1>3, <2>1, AfterFacts
  <2> QED BY <2>2 DEF events, PageOf
<1>8. g \in 1 .. Len(log) - b BY <1>3 DEF Page
<1> HIDE DEF g, page
<1>9. page # <<>> BY <1>3, <1>7, <1>8, EmptySeq
<1>10. ASSUME NEW j \in 1 .. g
       PROVE  page[j] = a[(b + j) + d] /\ b + j \in 1 .. Len(log) /\ (b + j) + d \in 1 .. n
  <2>1. b + j \in 1 .. Len(log) BY <1>3, <1>8
  <2> QED BY <1>1, <1>7, <2>1
<1>11. CASE d <= k
  <2>1. b + d = k BY <1>3, <1>11 DEF b
  <2> DEFINE t == SubSeq(a, k + 1, n)
  <2>2. /\ t \in Seq(Event) /\ Len(t) = n - k
        /\ \A j \in 1 .. n - k : t[j] = a[k + j]
    <3>1. /\ k + 1 \in 1 .. n + 1 /\ n \in k .. n /\ n - (k + 1) + 1 = n - k
          /\ \A j \in 1 .. n - k : (k + 1) + j - 1 = k + j
          /\ k + 1 <= n
      BY <1>2, <1>3
    <3>2. \A i \in k + 1 .. n : a[i] \in Event BY <1>2, <1>3 DEF n
    <3> QED BY <1>2, <1>3, <3>1, <3>2, SubSeqProperties DEF n
  <2> HIDE DEF t
  <2>3. g <= n - k /\ n - k \in Nat
    <3>1. Len(log) - b = n - k BY <1>1, <1>2, <1>3, <2>1
    <3>2. n - k \in Nat BY <1>2, <1>3
    <3> QED BY <1>8, <3>1, <3>2
  <2>4. ASSUME NEW j \in 1 .. g PROVE page[j] = t[j]
    <3>1. (b + j) + d = k + j /\ j \in 1 .. n - k BY <1>2, <1>3, <1>8, <2>1, <2>3
    <3> QED BY <1>10, <2>2, <3>1
  <2>5. SubSeq(page, 1, Len(page)) = SubSeq(t, 1, Len(page))
    BY <1>3, <1>7, <1>8, <2>2, <2>3, <2>4, SamePart
  <2>6. IsPrefix(page, t) BY <1>7, <2>2, <2>3, <2>5 DEF IsPrefix
  <2> QED BY <1>9, <2>6 DEF t, page, last
<1>12. CASE k < d
  <2>1. b = 0 BY <1>3, <1>12 DEF b
  <2>2. ASSUME NEW j \in 1 .. g PROVE page[j] = log[j]
    <3>1. b + j = j BY <1>3, <1>8, <2>1
    <3> QED BY <1>7, <3>1
  <2>3. g \in Nat /\ g <= Len(log) BY <1>3, <1>8, <2>1
  <2>4. SubSeq(page, 1, Len(page)) = SubSeq(log, 1, Len(page))
    BY <1>1, <1>3, <1>7, <1>8, <2>2, <2>3, SamePart
  <2>5. IsPrefix(page, log) BY <1>7, <2>3, <2>4 DEF IsPrefix
  <2>6. Head(page) = a[d + 1]
    <3>1. 1 \in 1 .. g /\ (b + 1) + d = d + 1 BY <1>3, <1>8, <2>1
    <3>2. Head(page) = page[1] OBVIOUS
    <3> QED BY <1>10, <3>1, <3>2
  <2>7. d + 1 \in 1 .. n /\ d \in 1 .. n /\ d + 1 # 1 /\ (d + 1) - 1 = d /\ d # 0
    BY <1>1, <1>2, <1>3, <1>12
  <2>8. Head(page).previous = a[d].sequence BY <1>2, <2>6, <2>7 DEF Linked
  <2>9. a[d].sequence # last
    <3>1. a[d].sequence \in 1 .. committed.sequence BY <1>2, <2>7
    <3>2. k # 0 => a[k].sequence < a[d].sequence BY <1>2, <1>4, <1>12, <2>7 DEF Increasing, n
    <3> QED BY <1>2, <1>4, <3>1, <3>2
  <2> QED BY <1>9, <2>5, <2>8, <2>9 DEF page, last
<1> QED BY <1>3, <1>11, <1>12 DEF last, page

\* In a history the link of an event names the one before, and no other.
LEMMA LinksOf ==
  ASSUME NEW all, NEW top, Chain(all, top),
         NEW i \in 1 .. Len(all), NEW j \in 1 .. Len(all),
         all[i].sequence < all[j].sequence
  PROVE  all[j].previous = all[i].sequence
            <=> {h \in 1 .. Len(all) : /\ all[h].sequence > all[i].sequence
                                       /\ all[h].sequence < all[j].sequence} = {}
<1> DEFINE n == Len(all)
           Between == {h \in 1 .. n : /\ all[h].sequence > all[i].sequence
                                      /\ all[h].sequence < all[j].sequence}
<1>1. /\ all \in Seq(Event) /\ n \in Nat /\ Increasing(all)
      /\ \A h \in 1 .. n : Linked(all, h) /\ all[h] \in Event
  BY DEF Chain
<1>2. \A h \in 1 .. n : all[h].sequence \in Nat BY <1>1 DEF Event
<1>3. \A h, k \in 1 .. n : h < k => all[h].sequence < all[k].sequence
  BY <1>1 DEF Increasing
<1>4. i < j
  <2>1. i = j => FALSE BY <1>2
  <2>2. j < i => FALSE
    <3> SUFFICES ASSUME j < i PROVE FALSE OBVIOUS
    <3>1. all[j].sequence < all[i].sequence BY <1>3
    <3> QED BY <1>2, <3>1
  <2> QED BY <1>1, <2>1, <2>2
<1>5. j # 1 /\ j - 1 \in 1 .. n /\ j - 1 < j /\ (i = j - 1 \/ i < j - 1) BY <1>1, <1>4
<1>6. all[j].previous = all[j - 1].sequence BY <1>1, <1>5 DEF Linked
<1>7. CASE i = j - 1
  <2>1. ASSUME NEW h \in Between PROVE FALSE
    <3>1. h \in 1 .. n /\ (h = i \/ h = j \/ h < i \/ j < h) BY <1>1, <1>7
    <3>2. /\ all[h].sequence > all[i].sequence /\ all[h].sequence < all[j].sequence
          /\ all[h].sequence \in Nat /\ all[i].sequence \in Nat /\ all[j].sequence \in Nat
      BY <1>2, <2>1
    <3>3. h < i => all[h].sequence < all[i].sequence BY <1>3, <3>1
    <3>4. j < h => all[j].sequence < all[h].sequence BY <1>3, <3>1
    <3>5. h = i => all[h].sequence = all[i].sequence OBVIOUS
    <3>6. h = j => all[h].sequence = all[j].sequence OBVIOUS
    <3> QED BY <3>1, <3>2, <3>3, <3>4, <3>5, <3>6
  <2> QED BY <1>6, <1>7, <2>1
<1>8. CASE i < j - 1
  <2>1. /\ all[i].sequence < all[j - 1].sequence
        /\ all[j - 1].sequence < all[j].sequence
        /\ all[i].sequence \in Nat /\ all[j - 1].sequence \in Nat
    BY <1>2, <1>3, <1>5, <1>8
  <2>2. j - 1 \in Between BY <1>5, <2>1
  <2>3. all[j].previous # all[i].sequence BY <1>6, <2>1
  <2> QED BY <2>2, <2>3
<1> QED BY <1>5, <1>7, <1>8

\* The range of a sequence, by its positions.
LEMMA RangeOf ==
  ASSUME NEW q \in Seq(Event), NEW x
  PROVE  x \in Range(q) <=> \E i \in 1 .. Len(q) : x = q[i]
<1>1. DOMAIN q = 1 .. Len(q) OBVIOUS
<1> QED BY <1>1 DEF Range

LEMMA ClientsSeeGaps == IInv => LinksShowGaps
<1> SUFFICES ASSUME IInv PROVE LinksShowGaps OBVIOUS
<1> DEFINE a == committed.all
           log == committed.log
<1>1. /\ Good(committed) /\ Good(pending) /\ From(received, a)
      /\ committed.sequence \in Nat
      /\ a \in Seq(Event) /\ Len(a) \in Nat /\ Chain(a, committed.sequence)
      /\ pending.sequence \in committed.sequence .. MaxSequence
  BY DEF IInv, States, Read, Good, State
<1>2. TypeOK
  <2>1. committed.sequence \in 0 .. MaxSequence BY <1>1, FeedAssumption
  <2>2. Len(committed.log) <= MaxRetainedEvents
    BY <1>1, PruneFacts DEF Good
  <2>3. position \in 0 .. Len(channel) /\ connected \in BOOLEAN BY DEF IInv, Sent
  <2> QED BY <1>1, <2>1, <2>2, <2>3 DEF TypeOK
<1>3. DOMAIN a = 1 .. Len(a) /\ DOMAIN received = 1 .. Len(received)
  BY <1>1 DEF From
<1>4. FeedIsOrdered
  <2>1. \A i \in 1 .. Len(received) : received[i] \in Range(a)
    BY <1>1, RangeOf DEF From
  <2> QED BY <1>1, <1>3, <2>1 DEF FeedIsOrdered, From, Increasing
<1>5. ReaderCanResume BY <1>1, Resumes
<1>6. verify(committed.log) /\ verify(pending.log) BY <1>1, Verifies
<1>7. ASSUME NEW x \in Range(received) \cup Range(committed.log)
      PROVE  \E i \in 1 .. Len(a) : x = a[i]
  <2>1. CASE x \in Range(received)
    <3>1. received \in Seq(Event) BY <1>1 DEF From
    <3>2. PICK k \in 1 .. Len(received) : x = received[k] BY <2>1, <3>1, RangeOf
    <3> QED BY <1>1, <3>2 DEF From
  <2>2. CASE x \in Range(committed.log)
    <3>1. /\ log \in Seq(Event)
          /\ \A i \in 1 .. Len(log) : /\ log[i] = a[i + Excess(Len(a))]
                                      /\ i + Excess(Len(a)) \in 1 .. Len(a)
      BY <1>1, LogOf
    <3>2. PICK k \in 1 .. Len(log) : x = log[k] BY <2>2, <3>1, RangeOf
    <3> QED BY <3>1, <3>2
  <2> QED BY <2>1, <2>2
<1>8. ASSUME NEW x \in Range(received) \cup Range(committed.log),
             NEW y \in Range(received) \cup Range(committed.log),
             x.sequence < y.sequence
      PROVE  y.previous = x.sequence
                <=> {h \in DOMAIN a : /\ a[h].sequence > x.sequence
                                      /\ a[h].sequence < y.sequence} = {}
  <2>1. PICK i \in 1 .. Len(a) : x = a[i] BY <1>7
  <2>2. PICK j \in 1 .. Len(a) : y = a[j] BY <1>7
  <2>3. a[j].previous = a[i].sequence
            <=> {h \in 1 .. Len(a) : /\ a[h].sequence > a[i].sequence
                                     /\ a[h].sequence < a[j].sequence} = {}
    BY <1>1, <1>8, <2>1, <2>2, LinksOf
  <2> QED BY <1>3, <2>1, <2>2, <2>3
<1> QED BY <1>2, <1>4, <1>5, <1>6, <1>8 DEF LinksShowGaps

(* For every size of the log, the channel and a page, two events a client  *)
(* has seen are linked exactly when it missed nothing between them, the    *)
(* feed is in order, a client can go on reading after any event and the    *)
(* log verifies wherever it was pruned (append, prune, commit,             *)
(* stream_events).                                                         *)
THEOREM GapsAreShown == Spec => []LinksShowGaps
BY Invariance, ClientsSeeGaps, PTL

(* What is sent to the subscribers has been committed, and what a process  *)
(* has committed and still retains has been sent, whatever the size of a   *)
(* block and of the log, over repeated blocks and restarts (prune, commit). *)
THEOREM RetainedEventsAreSent == Spec => []PublishedAfterCommit
<1>1. IInv => PublishedAfterCommit
  <2> SUFFICES ASSUME IInv PROVE PublishedAfterCommit OBVIOUS
  <2>1. /\ Good(committed) /\ channel \in Seq(Event) /\ From(channel, committed.all)
        /\ committed.all \in Seq(Event) /\ committed.log \in Seq(Event)
    BY DEF IInv, States, Good, State, Sent, From
  <2>2. \A i \in 1 .. Len(channel) : channel[i] \in Range(committed.all)
    BY <2>1, RangeOf DEF From
  <2>3. Range(channel) \subseteq Range(committed.all) BY <2>1, <2>2, RangeOf
  <2>4. ASSUME NEW event \in Range(committed.log), event.sequence > started
        PROVE  event \in Range(channel)
    <3>1. PICK i \in 1 .. Len(committed.log) : event = committed.log[i]
      BY <2>1, RangeOf
    <3>2. \E j \in 1 .. Len(channel) : channel[j] = event
      BY <2>4, <3>1 DEF IInv, Fresh
    <3> QED BY <2>1, <3>2, RangeOf
  <2> QED BY <2>3, <2>4 DEF PublishedAfterCommit
<1> QED BY <1>1, Invariance, PTL

=============================================================================
