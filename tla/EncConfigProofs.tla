--------------------------- MODULE EncConfigProofs --------------------------
(***************************************************************************)
(* Proofs about EncConfig for every size of the table and any values of the *)
(* parameters: the table holds exactly the requests that are still open,    *)
(* each takes effect with its picture, and sequences start where they must. *)
(***************************************************************************)
EXTENDS EncConfig, WellFoundedInduction, TLAPS

Kinds == {"SIZE", "RATE", "TYPE", "MODE"}
Values == Sizes \cup Rates \cup Types \cup {"header", "picture"}

\* What a slot may hold; a slot whose command was served at once keeps the rest.
Entries == [cmd : Kinds \cup {"FLUSH"}, val : Values, ts : Int, id : Nat]

(* What makes RequestsHeld inductive: no two slots hold the same request, since
   every request has a number of its own.  Freeing or overwriting one slot then
   takes one request out of the table and no more. *)
TableTyped == made \in Nat /\ table \in [SlotIds -> {Free} \cup Entries]
Numbered == \A i \in SlotIds : table[i] # Free => table[i].id < made
NoneTwice ==
  \A i, j \in SlotIds :
    table[i] # Free /\ table[j] # Free /\ table[i].id = table[j].id => i = j
IInv == TableTyped /\ Numbered /\ NoneTwice /\ RequestsHeld

-----------------------------------------------------------------------------
(* The slot a control call takes. *)

\* The search of ih264e_ctl ends: a set of slots that is not empty has a first.
LEMMA FirstExists ==
  ASSUME NEW S, S \subseteq SlotIds, S # {}
  PROVE  \E i \in S : \A j \in S : i <= j
<1>1. S \subseteq Nat
  BY EncConfigAssumption DEF SlotIds
<1>2. \E i \in S : \A j \in S : ~ (<<j, i>> \in OpToRel(<, Nat))
  BY <1>1, NatLessThanWellFounded, WFMin
<1>3. PICK i \in S : \A j \in S : ~ (<<j, i>> \in OpToRel(<, Nat))
  BY <1>2
<1>4. ASSUME NEW j \in S PROVE i <= j
  <2>1. i \in Nat /\ j \in Nat
    BY <1>1
  <2>2. j < i => <<j, i>> \in OpToRel(<, Nat)
    BY <2>1 DEF OpToRel
  <2>3. ~ (j < i)
    BY <1>3, <2>2
  <2> QED BY <2>1, <2>3
<1> QED BY <1>4

\* It is a slot of the table, and a free one unless the table is full.
LEMMA SlotTaken ==
  /\ Slot \in SlotIds
  /\ ~TableFull => table[Slot] = Free
  /\ TableFull => Slot = 1 /\ \A i \in SlotIds : table[i] # Free
<1>1. 1 \in SlotIds
  BY EncConfigAssumption DEF SlotIds
<1>2. FreeSlots \subseteq SlotIds
  BY DEF FreeSlots
<1>3. CASE TableFull
  BY <1>1, <1>3 DEF Slot, TableFull, FreeSlots
<1>4. CASE ~TableFull
  <2>1. \E i \in FreeSlots : \A j \in FreeSlots : i <= j
    BY <1>2, <1>4, FirstExists DEF TableFull
  <2>2. Slot \in FreeSlots
    BY <1>4, <2>1 DEF Slot
  <2> QED BY <1>2, <1>4, <2>2 DEF FreeSlots
<1> QED BY <1>3, <1>4

\* A wish becomes an entry of the table, and one that is not there yet.
LEMMA RequestTyped ==
  ASSUME TableTyped, NEW w \in Wishes, NEW ts \in Int
  PROVE  /\ Request(w, ts) \in Entries
         /\ Request(w, ts).cmd \in Kinds
         /\ Request(w, ts).id = made
<1>1. w.cmd \in Kinds /\ w.val \in Values
  BY DEF Wishes, Kinds, Values
<1> QED BY <1>1 DEF Request, Entries, TableTyped

\* A free slot is not an entry of the table.
LEMMA FreeIsNoEntry == Free \notin Entries /\ Free.cmd = NONE
BY DEF Free, Entries, Kinds, NONE

\* What is in the table, slot by slot.
LEMMA HeldIff ==
  ASSUME NEW r
  PROVE  r \in Held <=> \E i \in SlotIds : table[i] = r /\ r.cmd \notin {NONE, "FLUSH"}
BY DEF Held

-----------------------------------------------------------------------------
\* The invariant holds at the start.
LEMMA InitIInv == Init => IInv
<1> SUFFICES ASSUME Init PROVE IInv
  OBVIOUS
<1>1. \A i \in SlotIds : table[i] = Free
  BY DEF Init
<1>2. TableTyped /\ Numbered /\ NoneTwice
  BY <1>1 DEF Init, TableTyped, Numbered, NoneTwice
<1>3. Held = {}
  BY <1>1, FreeIsNoEntry DEF Held
<1> QED BY <1>2, <1>3 DEF IInv, RequestsHeld, Init

\* A request is stored, in the place of another one at most.
LEMMA SetIInv ==
  ASSUME IInv, NEW w \in Wishes, NEW ts \in Int, Set(w, ts)
  PROVE  IInv'
<1> DEFINE r == Request(w, ts)
<1>1. TableTyped /\ Numbered /\ NoneTwice /\ Held = open
  BY DEF IInv, RequestsHeld
<1>2. r \in Entries /\ r.cmd \in Kinds /\ r.id = made /\ r # Free
  BY <1>1, RequestTyped, FreeIsNoEntry
<1> HIDE DEF r
<1>3. /\ made' = made + 1
      /\ table' = [table EXCEPT ![Slot] = r]
      /\ open' = (open \ Overwritten) \cup {r}
  BY DEF Set, CtlCall, Store, r
<1>4. Slot \in SlotIds
  BY SlotTaken
<1>5. /\ table'[Slot] = r
      /\ \A i \in SlotIds : i # Slot => table'[i] = table[i]
  BY <1>1, <1>3, <1>4 DEF TableTyped
<1>6. TableTyped'
  BY <1>1, <1>2, <1>3, <1>4 DEF TableTyped
<1>7. Numbered'
  BY <1>1, <1>2, <1>3, <1>4, <1>5 DEF TableTyped, Numbered, Entries
<1>8. NoneTwice'
  <2> SUFFICES ASSUME NEW i \in SlotIds, NEW j \in SlotIds,
                      table'[i] # Free, table'[j] # Free,
                      table'[i].id = table'[j].id, i # j
               PROVE  FALSE
    BY DEF NoneTwice
  <2>1. CASE i # Slot /\ j # Slot
    BY <1>1, <1>5, <2>1 DEF NoneTwice
  <2>2. CASE i = Slot \/ j = Slot
    BY <1>1, <1>2, <1>5, <2>2 DEF Numbered, TableTyped, Entries
  <2> QED BY <2>1, <2>2
<1>9. Held' = open'
  <2>1. r \in Held'
    BY <1>2, <1>4, <1>5 DEF Held, Kinds, NONE
  <2>2. Overwritten = IF TableFull THEN {table[Slot]} ELSE {}
    BY SlotTaken DEF Overwritten
  <2>3. table[Slot] \in Held => TableFull
    BY SlotTaken, FreeIsNoEntry DEF Held
  <2>4. ASSUME NEW q, q # r PROVE q \in Held' <=> q \in Held /\ q # table[Slot]
    <3>1. ASSUME q \in Held' PROVE q \in Held /\ q # table[Slot]
      <4>1. PICK i \in SlotIds : table'[i] = q /\ q.cmd \notin {NONE, "FLUSH"}
        BY <3>1 DEF Held
      <4>2. i # Slot /\ table[i] = q
        BY <4>1, <2>4, <1>5
      <4>3. q \in Held
        BY <4>1, <4>2 DEF Held
      <4>4. q # Free
        BY <4>1, FreeIsNoEntry
      <4>5. q # table[Slot]
        BY <4>2, <4>4, <1>1, <1>4 DEF NoneTwice
      <4> QED BY <4>3, <4>5
    <3>2. ASSUME q \in Held, q # table[Slot] PROVE q \in Held'
      <4>1. PICK i \in SlotIds : table[i] = q /\ q.cmd \notin {NONE, "FLUSH"}
        BY <3>2 DEF Held
      <4>2. table'[i] = q
        BY <4>1, <3>2, <1>5
      <4> QED BY <4>1, <4>2 DEF Held
    <3> QED BY <3>1, <3>2
  <2>5. ASSUME NEW q, q # r
        PROVE  q \in open' <=> q \in open /\ q \notin Overwritten
    BY <1>3, <2>5
  <2>6. ASSUME NEW q, q # r PROVE q \in Held' <=> q \in open'
    BY <2>2, <2>3, <2>4, <2>5, <2>6, <1>1
  <2>7. r \in open'
    BY <1>3
  <2> QED BY <2>1, <2>6, <2>7
<1> QED BY <1>6, <1>7, <1>8, <1>9 DEF IInv, RequestsHeld

\* A command that is served at once leaves the table alone, but for the head of
\* a full one.
LEMMA AtOnceIInv ==
  ASSUME IInv, AtOnce, made' = made + 1
  PROVE  IInv'
<1>1. TableTyped /\ Numbered /\ NoneTwice /\ Held = open
  BY DEF IInv, RequestsHeld
<1>2. CASE ~TableFull
  <2>1. table' = table /\ open' = open
    BY <1>2 DEF AtOnce, Overwritten
  <2>2. TableTyped' /\ Numbered' /\ NoneTwice'
    BY <1>1, <2>1 DEF TableTyped, Numbered, NoneTwice, Entries
  <2>3. Held' = open'
    BY <1>1, <2>1 DEF Held
  <2> QED BY <2>2, <2>3 DEF IInv, RequestsHeld
<1>3. CASE TableFull
  <2>1. 1 \in SlotIds /\ \A i \in SlotIds : table[i] # Free /\ table[i] \in Entries
    BY <1>1, <1>3, SlotTaken DEF TableTyped
  <2>2. table' = [table EXCEPT ![1] = [table[1] EXCEPT !.cmd = "FLUSH"]]
    BY <1>3 DEF AtOnce
  <2>3. open' = open \ {table[1]}
    BY <1>3 DEF AtOnce, Overwritten
  <2>4. /\ table'[1] = [table[1] EXCEPT !.cmd = "FLUSH"]
        /\ \A i \in SlotIds : i # 1 => table'[i] = table[i]
    BY <1>1, <2>1, <2>2 DEF TableTyped
  <2>5. /\ table'[1] \in Entries /\ table'[1] # Free
        /\ table'[1].cmd = "FLUSH" /\ table'[1].id = table[1].id
    <3>1. table'[1] \in Entries /\ table'[1].cmd = "FLUSH"
             /\ table'[1].id = table[1].id
      BY <2>1, <2>4 DEF Entries
    <3> QED BY <3>1, FreeIsNoEntry
  <2>6. TableTyped'
    BY <1>1, <2>1, <2>2, <2>4, <2>5 DEF TableTyped
  <2>7. \A i \in SlotIds : table'[i] # Free /\ table'[i].id = table[i].id
    BY <2>1, <2>4, <2>5
  <2>8. Numbered'
    BY <1>1, <2>1, <2>7 DEF Numbered, TableTyped, Entries
  <2>9. NoneTwice'
    BY <1>1, <2>1, <2>7 DEF NoneTwice
  <2>10. Held' = Held \ {table[1]}
    <3>1. ASSUME NEW q \in Held' PROVE q \in Held /\ q # table[1]
      <4>1. PICK i \in SlotIds : table'[i] = q /\ q.cmd \notin {NONE, "FLUSH"}
        BY <3>1 DEF Held
      <4>2. i # 1 /\ table[i] = q
        BY <4>1, <2>4, <2>5
      <4>3. q # table[1]
        BY <4>2, <2>1, <1>1 DEF NoneTwice
      <4> QED BY <4>1, <4>2, <4>3 DEF Held
    <3>2. ASSUME NEW q \in Held, q # table[1] PROVE q \in Held'
      <4>1. PICK i \in SlotIds : table[i] = q /\ q.cmd \notin {NONE, "FLUSH"}
        BY <3>2 DEF Held
      <4>2. table'[i] = q
        BY <4>1, <3>2, <2>4
      <4> QED BY <4>1, <4>2 DEF Held
    <3> QED BY <3>1, <3>2
  <2> QED BY <1>1, <2>3, <2>6, <2>8, <2>9, <2>10 DEF IInv, RequestsHeld
<1> QED BY <1>2, <1>3

\* A call of ih264e_encode frees the slots of what was due.
LEMMA ServeIInv ==
  ASSUME IInv, ServeRequests
  PROVE  IInv'
<1>1. TableTyped /\ Numbered /\ NoneTwice /\ Held = open
  BY DEF IInv, RequestsHeld
<1>2. /\ table' = [i \in SlotIds |-> IF IsDue(table[i]) THEN Free ELSE table[i]]
      /\ open' = open \ Due /\ made' = made
  BY DEF ServeRequests
<1>3. TableTyped'
  BY <1>1, <1>2 DEF TableTyped
<1>4. \A i \in SlotIds :
        table'[i] = IF IsDue(table[i]) THEN Free ELSE table[i]
  BY <1>2
<1>5. Numbered' /\ NoneTwice'
  BY <1>1, <1>2, <1>4 DEF Numbered, NoneTwice
<1>6. ASSUME NEW q, q.cmd \notin {NONE, "FLUSH"}
      PROVE  q # Free /\ (IsDue(q) <=> q.ts \in {stamp, Now})
  BY <1>6, FreeIsNoEntry DEF IsDue
<1>7. Held' = open'
  <2>1. ASSUME NEW q \in Held' PROVE q \in open'
    <3>1. PICK i \in SlotIds : table'[i] = q /\ q.cmd \notin {NONE, "FLUSH"}
      BY <2>1 DEF Held
    <3>2. ~IsDue(q) /\ table[i] = q
      BY <3>1, <1>4, <1>6
    <3>3. q \in open
      BY <1>1, <3>1, <3>2 DEF Held
    <3>4. q \notin Due
      BY <3>1, <3>2, <1>6 DEF Due
    <3> QED BY <1>2, <3>3, <3>4
  <2>2. ASSUME NEW q \in open' PROVE q \in Held'
    <3>1. q \in Held /\ q \notin Due /\ q \in open
      BY <1>1, <1>2, <2>2
    <3>2. PICK i \in SlotIds : table[i] = q /\ q.cmd \notin {NONE, "FLUSH"}
      BY <3>1 DEF Held
    <3>3. ~IsDue(q)
      BY <3>1, <3>2, <1>6 DEF Due
    <3>4. table'[i] = q
      BY <3>2, <3>3, <1>4
    <3> QED BY <3>2, <3>4 DEF Held
  <2> QED BY <2>1, <2>2
<1> QED BY <1>3, <1>5, <1>7 DEF IInv, RequestsHeld

\* Every step keeps it.
LEMMA NextIInv == IInv /\ [Next]_vars => IInv'
<1> SUFFICES ASSUME IInv, [Next]_vars PROVE IInv'
  OBVIOUS
<1>1. ASSUME NEW w \in Wishes, NEW ts \in {Now} \cup 0..LastStamp, Set(w, ts)
      PROVE  IInv'
  <2>1. ts \in Int
    BY EncConfigAssumption DEF Now
  <2> QED BY <1>1, <2>1, SetIInv
<1>2. CASE Flush
  BY <1>2, AtOnceIInv DEF Flush, CtlCall
<1>3. CASE Reset
  BY <1>3, AtOnceIInv DEF Reset, CtlCall
<1>4. CASE VideoEncode
  <2>1. ServeRequests
    BY <1>4 DEF VideoEncode, EncodeHeader, EncodeRefused, EncodeNothing,
                EncodePicture, EncodeFails, Encode
  <2> QED BY <2>1, ServeIInv
<1>5. CASE UNCHANGED vars
  BY <1>5 DEF vars, history, IInv, TableTyped, Numbered, NoneTwice, RequestsHeld,
              Held
<1> QED BY <1>1, <1>2, <1>3, <1>4, <1>5 DEF Next

(* A request that was made is in the table until the call it is due at, and in
   no other call's way, whatever the size of the table: only the head of a full
   one is ever lost. *)
THEOREM RequestsHeldInv == Spec => []RequestsHeld
<1>1. IInv => RequestsHeld
  BY DEF IInv
<1> QED BY InitIInv, NextIInv, <1>1, PTL DEF Spec

-----------------------------------------------------------------------------
(* Serving the table: ServedTo, from the first slot to the last. *)

\* What holds before the first slot, and for a slot if for the one before, holds for
\* every slot.
LEMMA SlotInduction ==
  ASSUME NEW A, 0 \in A, \A i \in 1..Slots : i - 1 \in A => i \in A
  PROVE  0..Slots \subseteq A
<1> DEFINE Bad == (0..Slots) \ A
<1>1. SUFFICES ASSUME Bad # {} PROVE FALSE
  OBVIOUS
<1>2. Slots \in Nat /\ Bad \subseteq Nat
  BY EncConfigAssumption
<1>3. \E i \in Bad : \A j \in Bad : ~ (<<j, i>> \in OpToRel(<, Nat))
  BY <1>1, <1>2, NatLessThanWellFounded, WFMin
<1>4. PICK i \in Bad : \A j \in Bad : ~ (<<j, i>> \in OpToRel(<, Nat))
  BY <1>3
<1>5. i # 0 /\ i \in 1..Slots /\ i - 1 \in Nat /\ i - 1 \in 0..Slots /\ i \notin A
  BY <1>2
<1>6. i - 1 \notin A
  BY <1>5
<1>7. i - 1 \in Bad /\ i - 1 < i
  BY <1>5, <1>6
<1>8. <<i - 1, i>> \in OpToRel(<, Nat)
  BY <1>2, <1>5, <1>7 DEF OpToRel
<1> QED BY <1>4, <1>7, <1>8

\* The codec as the first n slots leave it.
IsServing(f, n) ==
  f = [i \in 0..n |-> IF i = 0 THEN Unserved ELSE Serve(f[i - 1], table[i])]

\* ServedTo is what its definition says: each slot is served after the one before.
LEMMA ServedToIs ==
  /\ ServedTo[0] = Unserved
  /\ \A i \in 1..Slots : ServedTo[i] = Serve(ServedTo[i - 1], table[i])
<1> DEFINE A == {n \in 0..Slots : \E f : IsServing(f, n)}
<1>1. Slots \in Nat
  BY EncConfigAssumption
<1>2. 0 \in A
  <2> DEFINE f == [i \in 0..0 |-> Unserved]
  <2>1. f = [i \in 0..0 |-> IF i = 0 THEN Unserved ELSE Serve(f[i - 1], table[i])]
    OBVIOUS
  <2>2. IsServing(f, 0)
    BY <2>1 DEF IsServing
  <2> HIDE DEF f
  <2> QED BY <1>1, <2>2
<1>3. ASSUME NEW n \in 1..Slots, n - 1 \in A PROVE n \in A
  <2>1. PICK f : IsServing(f, n - 1)
    BY <1>3
  <2>2. /\ DOMAIN f = 0..n - 1
        /\ \A i \in 0..n - 1 : f[i] = IF i = 0 THEN Unserved ELSE Serve(f[i - 1], table[i])
    BY <2>1 DEF IsServing
  <2> DEFINE g == [i \in 0..n |-> IF i = n THEN Serve(f[n - 1], table[n]) ELSE f[i]]
  <2>3. /\ g[n] = Serve(f[n - 1], table[n])
        /\ \A i \in 0..n - 1 : g[i] = f[i]
    BY <1>3, <1>1
  <2>4. ASSUME NEW i \in 0..n
        PROVE  g[i] = IF i = 0 THEN Unserved ELSE Serve(g[i - 1], table[i])
    <3>1. CASE i = n
      <4>1. g[i] = Serve(f[n - 1], table[n]) /\ i # 0 /\ g[n - 1] = f[n - 1]
        BY <1>1, <1>3, <2>3, <3>1
      <4> QED BY <3>1, <4>1
    <3>2. CASE i # n
      <4>1. i \in 0..n - 1 /\ (i # 0 => i - 1 \in 0..n - 1)
        BY <1>1, <1>3, <3>2
      <4>2. g[i] = f[i] /\ (i # 0 => g[i - 1] = f[i - 1])
        BY <2>3, <4>1
      <4> HIDE DEF g
      <4> QED BY <2>2, <4>1, <4>2
    <3> QED BY <3>1, <3>2
  <2>5. g = [i \in 0..n |-> g[i]]
    OBVIOUS
  <2>6. g = [i \in 0..n |-> IF i = 0 THEN Unserved ELSE Serve(g[i - 1], table[i])]
    <3> HIDE DEF g
    <3> QED BY <2>4, <2>5
  <2>7. IsServing(g, n)
    BY <2>6 DEF IsServing
  <2> QED BY <2>7, <1>3, <1>1
<1>4. Slots \in A
  <2> HIDE DEF A
  <2> QED BY <1>1, <1>2, <1>3, SlotInduction
<1>5. \E f : IsServing(f, Slots)
  BY <1>4
<1>6. ServedTo = CHOOSE f : IsServing(f, Slots)
  BY DEF ServedTo, IsServing
<1>7. IsServing(ServedTo, Slots)
  BY <1>5, <1>6
<1>8. ServedTo = [i \in 0..Slots |-> IF i = 0 THEN Unserved
                                     ELSE Serve(ServedTo[i - 1], table[i])]
  BY <1>7 DEF IsServing
<1>9. \A i \in 0..Slots : ServedTo[i] = IF i = 0 THEN Unserved
                                        ELSE Serve(ServedTo[i - 1], table[i])
  <2> DEFINE h(i) == IF i = 0 THEN Unserved ELSE Serve(ServedTo[i - 1], table[i])
  <2>1. ServedTo = [i \in 0..Slots |-> h(i)]
    BY <1>8
  <2> HIDE DEF h
  <2>2. \A i \in 0..Slots : ServedTo[i] = h(i)
    BY <2>1
  <2> QED BY <2>2 DEF h
<1>10. 0 \in 0..Slots /\ \A i \in 1..Slots : i \in 0..Slots /\ i # 0
  BY <1>1
<1> QED BY <1>9, <1>10

\* What a due request of a kind asks for, in the first i slots.
Asks(i, cmd, val) ==
  \E j \in 1..i : IsDue(table[j]) /\ table[j].cmd = cmd /\ table[j].val = val

\* The codec's fields.
Codec(c) ==
  c = [size |-> c.size, rate |-> c.rate, force |-> c.force, gen |-> c.gen,
       mode |-> c.mode, gop |-> c.gop]

\* What a request does to each of them.
LEMMA ServeFacts ==
  ASSUME NEW c, Codec(c), NEW r
  PROVE  LET d == Serve(c, r)
             sized == IsDue(r) /\ r.cmd = "SIZE" /\ r.val # c.size
             typed == IsDue(r) /\ r.cmd = "TYPE" IN
         /\ Codec(d)
         /\ d.size = IF sized THEN r.val ELSE c.size
         /\ d.rate = IF IsDue(r) /\ r.cmd = "RATE" THEN r.val ELSE c.rate
         /\ d.force = IF sized THEN "IDR" ELSE IF typed THEN r.val ELSE c.force
         /\ d.gen = IF sized THEN TRUE ELSE c.gen
         /\ d.gop = IF sized THEN 0 ELSE c.gop
<1> DEFINE d == Serve(c, r)
<1> SUFFICES /\ Codec(d)
             /\ d.size = IF IsDue(r) /\ r.cmd = "SIZE" /\ r.val # c.size THEN r.val ELSE c.size
             /\ d.rate = IF IsDue(r) /\ r.cmd = "RATE" THEN r.val ELSE c.rate
             /\ d.force = IF IsDue(r) /\ r.cmd = "SIZE" /\ r.val # c.size THEN "IDR"
                          ELSE IF IsDue(r) /\ r.cmd = "TYPE" THEN r.val ELSE c.force
             /\ d.gen = IF IsDue(r) /\ r.cmd = "SIZE" /\ r.val # c.size THEN TRUE ELSE c.gen
             /\ d.gop = IF IsDue(r) /\ r.cmd = "SIZE" /\ r.val # c.size THEN 0 ELSE c.gop
  OBVIOUS
<1>1. CASE ~IsDue(r)
  BY <1>1 DEF Serve
<1>2. CASE IsDue(r)
  <2>1. d = Update(c, r)
    BY <1>2 DEF Serve
  <2>2. CASE r.cmd = "SIZE" /\ r.val # c.size
    <3>1. d = [size |-> r.val, rate |-> c.rate, force |-> "IDR", gen |-> TRUE,
               mode |-> c.mode, gop |-> 0]
      BY <2>1, <2>2 DEF Update, Codec
    <3> QED BY <1>2, <2>2, <3>1 DEF Codec
  <2>3. CASE r.cmd = "RATE"
    <3>1. d = [size |-> c.size, rate |-> r.val, force |-> c.force, gen |-> c.gen,
               mode |-> c.mode, gop |-> c.gop]
      BY <2>1, <2>3 DEF Update, Codec
    <3> QED BY <1>2, <2>3, <3>1 DEF Codec
  <2>4. CASE r.cmd = "TYPE"
    <3>1. d = [size |-> c.size, rate |-> c.rate, force |-> r.val, gen |-> c.gen,
               mode |-> c.mode, gop |-> c.gop]
      BY <2>1, <2>4 DEF Update, Codec
    <3> QED BY <1>2, <2>4, <3>1 DEF Codec
  <2>5. CASE r.cmd = "MODE"
    <3>1. d = [size |-> c.size, rate |-> c.rate, force |-> c.force, gen |-> c.gen,
               mode |-> (r.val = "header"), gop |-> c.gop]
      BY <2>1, <2>5 DEF Update, Codec
    <3> QED BY <1>2, <2>5, <3>1 DEF Codec
  <2>6. CASE ~(r.cmd = "SIZE" /\ r.val # c.size) /\ r.cmd \notin {"RATE", "TYPE", "MODE"}
    <3>1. d = c
      BY <2>1, <2>6 DEF Update
    <3> QED BY <1>2, <2>6, <3>1
  <2> QED BY <2>2, <2>3, <2>4, <2>5, <2>6
<1> QED BY <1>1, <1>2

\* A picture can only be asked to be an IDR picture.
OnlyIdr == \A i \in SlotIds : table[i].cmd = "TYPE" => table[i].val = "IDR"

\* What the first i slots leave of the codec: a parameter is what the last of the due
\* requests for it asks for, or what it was; a new size asks for an IDR picture and a
\* header.
ServedAs(i) ==
  LET c == ServedTo[i] IN
  /\ Codec(c)
  /\ Asks(i, "SIZE", c.size) \/ (c.size = cfg.size /\ \A v : ~Asks(i, "SIZE", v))
  /\ Asks(i, "RATE", c.rate) \/ (c.rate = cfg.rate /\ \A v : ~Asks(i, "RATE", v))
  /\ OnlyIdr /\ (force = "IDR" \/ c.size # cfg.size \/ Asks(i, "TYPE", "IDR"))
       => c.force = "IDR"
  /\ genHeader \/ c.size # cfg.size => c.gen
  /\ c.gop = Unserved.gop \/ c.gop = 0

\* Every slot is served so.
LEMMA ServedFacts == \A i \in 0..Slots : ServedAs(i)
<1> DEFINE A == {i \in 0..Slots : ServedAs(i)}
<1>1. Slots \in Nat /\ 0 \in 0..Slots
  BY EncConfigAssumption
<1>2. ServedAs(0)
  <2>1. ServedTo[0] = Unserved
    BY ServedToIs
  <2>2. Codec(Unserved) /\ Unserved.size = cfg.size /\ Unserved.rate = cfg.rate
        /\ Unserved.force = force /\ Unserved.gen = genHeader
    BY DEF Unserved, Codec
  <2>3. \A cmd, v : ~Asks(0, cmd, v)
    BY DEF Asks
  <2> QED BY <2>1, <2>2, <2>3 DEF ServedAs
<1>3. ASSUME NEW i \in 1..Slots, ServedAs(i - 1) PROVE ServedAs(i)
  <2>1. PICK c, d, r : c = ServedTo[i - 1] /\ d = ServedTo[i] /\ r = table[i]
    OBVIOUS
  <2>2. d = Serve(c, r) /\ Codec(c)
    BY <1>3, <2>1, ServedToIs DEF ServedAs
  <2>3. /\ Codec(d)
        /\ d.size = IF IsDue(r) /\ r.cmd = "SIZE" /\ r.val # c.size THEN r.val ELSE c.size
        /\ d.rate = IF IsDue(r) /\ r.cmd = "RATE" THEN r.val ELSE c.rate
        /\ d.force = IF IsDue(r) /\ r.cmd = "SIZE" /\ r.val # c.size THEN "IDR"
                     ELSE IF IsDue(r) /\ r.cmd = "TYPE" THEN r.val ELSE c.force
        /\ d.gen = IF IsDue(r) /\ r.cmd = "SIZE" /\ r.val # c.size THEN TRUE ELSE c.gen
        /\ d.gop = IF IsDue(r) /\ r.cmd = "SIZE" /\ r.val # c.size THEN 0 ELSE c.gop
    BY <2>2, ServeFacts
  <2>4. \A cmd, v : Asks(i, cmd, v) <=> \/ Asks(i - 1, cmd, v)
                                        \/ IsDue(r) /\ r.cmd = cmd /\ r.val = v
    <3>1. \A j : j \in 1..i <=> j \in 1..i - 1 \/ j = i
      BY <1>1
    <3> QED BY <2>1, <3>1 DEF Asks
  <2>5. /\ Asks(i - 1, "SIZE", c.size) \/ (c.size = cfg.size /\ \A v : ~Asks(i - 1, "SIZE", v))
        /\ Asks(i - 1, "RATE", c.rate) \/ (c.rate = cfg.rate /\ \A v : ~Asks(i - 1, "RATE", v))
        /\ OnlyIdr /\ (force = "IDR" \/ c.size # cfg.size \/ Asks(i - 1, "TYPE", "IDR"))
             => c.force = "IDR"
        /\ genHeader \/ c.size # cfg.size => c.gen
        /\ c.gop = Unserved.gop \/ c.gop = 0
    BY <1>3, <2>1 DEF ServedAs
  <2>6. Asks(i, "SIZE", d.size) \/ (d.size = cfg.size /\ \A v : ~Asks(i, "SIZE", v))
    <3>1. CASE IsDue(r) /\ r.cmd = "SIZE"
      BY <2>3, <2>4, <3>1
    <3>2. CASE ~(IsDue(r) /\ r.cmd = "SIZE")
      BY <2>3, <2>4, <2>5, <3>2
    <3> QED BY <3>1, <3>2
  <2>7. Asks(i, "RATE", d.rate) \/ (d.rate = cfg.rate /\ \A v : ~Asks(i, "RATE", v))
    <3>1. CASE IsDue(r) /\ r.cmd = "RATE"
      BY <2>3, <2>4, <3>1
    <3>2. CASE ~(IsDue(r) /\ r.cmd = "RATE")
      BY <2>3, <2>4, <2>5, <3>2
    <3> QED BY <3>1, <3>2
  <2>8. ASSUME OnlyIdr, force = "IDR" \/ d.size # cfg.size \/ Asks(i, "TYPE", "IDR")
        PROVE  d.force = "IDR"
    <3>1. CASE IsDue(r) /\ r.cmd = "SIZE" /\ r.val # c.size
      BY <2>3, <3>1
    <3>2. CASE IsDue(r) /\ r.cmd = "TYPE"
      <4>1. i \in SlotIds
        BY <1>1 DEF SlotIds
      <4>2. r.val = "IDR"
        BY <2>1, <2>8, <3>2, <4>1 DEF OnlyIdr
      <4> QED BY <2>3, <3>2, <4>2
    <3>3. CASE ~(IsDue(r) /\ r.cmd = "SIZE" /\ r.val # c.size) /\ ~(IsDue(r) /\ r.cmd = "TYPE")
      <4>1. d.size = c.size /\ d.force = c.force
            /\ (Asks(i, "TYPE", "IDR") => Asks(i - 1, "TYPE", "IDR"))
        BY <2>3, <2>4, <3>3
      <4> QED BY <2>5, <2>8, <4>1
    <3> QED BY <3>1, <3>2, <3>3
  <2>9. genHeader \/ d.size # cfg.size => d.gen
    BY <2>3, <2>5
  <2>10. d.gop = Unserved.gop \/ d.gop = 0
    BY <2>3, <2>5
  <2> QED BY <2>1, <2>3, <2>6, <2>7, <2>8, <2>9, <2>10 DEF ServedAs
<1>4. \A i \in 1..Slots : i - 1 \in A => i \in A
  BY <1>1, <1>3
<1>5. 0..Slots \subseteq A
  <2>1. 0 \in A
    BY <1>1, <1>2
  <2> HIDE DEF A
  <2> QED BY <1>4, <2>1, SlotInduction
<1> QED BY <1>5

\* What is due in the table is what the application asked for this picture.
LEMMA AskedIsDue ==
  ASSUME IInv
  PROVE  /\ \A cmd \in Kinds : \A v :
              Asks(Slots, cmd, v) <=> \E q \in Due : q.cmd = cmd /\ q.val = v
         /\ Slots \in 0..Slots
<1>1. Held = open /\ Slots \in Nat /\ SlotIds = 1..Slots
  BY EncConfigAssumption DEF IInv, RequestsHeld, SlotIds
<1>2. ASSUME NEW cmd \in Kinds, NEW v, Asks(Slots, cmd, v)
      PROVE  \E q \in Due : q.cmd = cmd /\ q.val = v
  <2>1. PICK j \in SlotIds : IsDue(table[j]) /\ table[j].cmd = cmd /\ table[j].val = v
    BY <1>1, <1>2 DEF Asks
  <2>2. table[j] \in Held
    BY <2>1 DEF Held, Kinds, NONE
  <2>3. table[j] \in Due
    BY <1>1, <2>1, <2>2 DEF Due, IsDue
  <2> QED BY <2>1, <2>3
<1>3. ASSUME NEW cmd \in Kinds, NEW v, NEW q \in Due, q.cmd = cmd, q.val = v
      PROVE  Asks(Slots, cmd, v)
  <2>1. q \in Held /\ q.ts \in {stamp, Now}
    BY <1>1 DEF Due
  <2>2. PICK j \in SlotIds : table[j] = q /\ q.cmd \notin {NONE, "FLUSH"}
    BY <2>1 DEF Held
  <2>3. IsDue(table[j])
    BY <2>1, <2>2, FreeIsNoEntry DEF IsDue
  <2> QED BY <1>1, <1>3, <2>2, <2>3 DEF Asks
<1> QED BY <1>1, <1>2, <1>3

\* A parameter in force after the requests were served is one of those asked for.
LEMMA ServedInForce ==
  ASSUME IInv, made' = made, ServeRequests
  PROVE  InForce("SIZE", cfg.size, cfg'.size) /\ InForce("RATE", cfg.rate, cfg'.rate)
<1>1. cfg'.size = Served.size /\ cfg'.rate = Served.rate
  BY DEF ServeRequests
<1>2. /\ Asks(Slots, "SIZE", Served.size)
           \/ (Served.size = cfg.size /\ \A v : ~Asks(Slots, "SIZE", v))
      /\ Asks(Slots, "RATE", Served.rate)
           \/ (Served.rate = cfg.rate /\ \A v : ~Asks(Slots, "RATE", v))
  BY AskedIsDue, ServedFacts DEF ServedAs, Served
<1>3. "SIZE" \in Kinds /\ "RATE" \in Kinds
  BY DEF Kinds
<1>4. InForce("SIZE", cfg.size, cfg'.size)
  <2> DEFINE asked == {r.val : r \in {q \in Due : q.cmd = "SIZE"}}
  <2>1. \A v : v \in asked <=> Asks(Slots, "SIZE", v)
    BY <1>3, AskedIsDue
  <2>2. InForce("SIZE", cfg.size, cfg'.size) <=>
          IF made' # made \/ asked = {} THEN cfg'.size = cfg.size ELSE cfg'.size \in asked
    BY DEF InForce
  <2> HIDE DEF asked
  <2> QED BY <1>1, <1>2, <2>1, <2>2
<1>5. InForce("RATE", cfg.rate, cfg'.rate)
  <2> DEFINE asked == {r.val : r \in {q \in Due : q.cmd = "RATE"}}
  <2>1. \A v : v \in asked <=> Asks(Slots, "RATE", v)
    BY <1>3, AskedIsDue
  <2>2. InForce("RATE", cfg.rate, cfg'.rate) <=>
          IF made' # made \/ asked = {} THEN cfg'.rate = cfg.rate ELSE cfg'.rate \in asked
    BY DEF InForce
  <2> HIDE DEF asked
  <2> QED BY <1>1, <1>2, <2>1, <2>2
<1> QED BY <1>4, <1>5

(* A call changes a parameter only to what is asked for the picture it brings, or for the
   next one, and if anything is asked for then one of these values is in force, whatever
   the size of the table and the order of its slots (ih264e_encode's loop over as_cfg). *)
THEOREM RequestsTakeEffect == Spec => TakesEffect
<1>1. ASSUME IInv, [Next]_vars
      PROVE  [InForce("SIZE", cfg.size, cfg'.size) /\ InForce("RATE", cfg.rate, cfg'.rate)]_vars
  <2>1. CASE \E w \in Wishes, ts \in {Now} \cup 0..LastStamp : Set(w, ts)
    <3>1. made' # made /\ cfg' = cfg
      BY <2>1, <1>1 DEF Set, CtlCall, codec, IInv, TableTyped
    <3> QED BY <3>1 DEF InForce
  <2>2. CASE Flush \/ Reset
    <3>1. made' # made /\ cfg' = cfg
      BY <2>2, <1>1 DEF Flush, Reset, CtlCall, codec, IInv, TableTyped
    <3> QED BY <3>1 DEF InForce
  <2>3. CASE VideoEncode
    <3>1. ServeRequests /\ made' = made
      BY <2>3 DEF VideoEncode, EncodeHeader, EncodeRefused, EncodeNothing,
                  EncodePicture, EncodeFails, Encode, ServeRequests
    <3> QED BY <1>1, <3>1, ServedInForce
  <2>4. CASE UNCHANGED vars
    BY <2>4
  <2> QED BY <1>1, <2>1, <2>2, <2>3, <2>4 DEF Next
<1>2. IInv /\ [Next]_vars
        => [InForce("SIZE", cfg.size, cfg'.size) /\ InForce("RATE", cfg.rate, cfg'.rate)]_vars
  BY <1>1
<1> QED BY InitIInv, NextIInv, <1>2, PTL DEF Spec, TakesEffect

-----------------------------------------------------------------------------
(* The pictures a sequence starts with. *)

\* The requests for a type ask for one of those the application may ask for.
Meant == \A i \in SlotIds : table[i].cmd = "TYPE" => table[i].val \in Types

(* What makes SequenceStarts hold at the next picture.  With buffers, or once headers
   were written, the last header is of the current size unless one is due; the buffers
   are there after a call that was not refused, or with the headers.  And a sequence that
   has to start is the first one, or is forced to; or the first call was refused, and no
   picture will come. *)
HeaderFits == (bufs \/ headed) /\ ~genHeader => header = cfg.size
BufsCalled == bufs => called \/ headed
StartForced == start => picCnt = -1 \/ force = "IDR" \/ (called /\ ~bufs)
FirstPlace == picCnt \in Int /\ picCnt >= -1 /\ (picCnt = -1 /\ called => gop = 0)
SInv == Meant /\ HeaderFits /\ BufsCalled /\ StartForced /\ FirstPlace

\* It holds at the start.
LEMMA InitSInv == Init => SInv
BY FreeIsNoEntry DEF Init, SInv, Meant, HeaderFits, BufsCalled, StartForced, FirstPlace, NONE, Free

\* What is served keeps the table's types, and the codec as the picture needs it.
LEMMA ServedNow ==
  ASSUME IInv, SInv, ServeRequests
  PROVE  /\ Meant'
         /\ cfg'.size = Served.size
         /\ Served.gen \/ (~genHeader /\ Served.size = cfg.size)
         /\ picCnt = -1 => Served.gop = 0
<1>1. Meant'
  <2>1. \A i \in SlotIds : table'[i] = IF IsDue(table[i]) THEN Free ELSE table[i]
    BY DEF ServeRequests
  <2> QED BY <2>1, FreeIsNoEntry DEF SInv, Meant, NONE
<1>2. cfg'.size = Served.size
  BY DEF ServeRequests
<1>3. ServedAs(Slots)
  BY AskedIsDue, ServedFacts
<1>4. Served.gen \/ (~genHeader /\ Served.size = cfg.size)
  BY <1>3 DEF ServedAs, Served
<1>5. picCnt = -1 => Served.gop = 0
  BY <1>3 DEF ServedAs, Served, Unserved, SInv, FirstPlace
<1> QED BY <1>1, <1>2, <1>4, <1>5

\* A picture that a sequence has to start with is forced to be an IDR picture.
LEMMA StartsForced ==
  ASSUME "I" \notin Types, IInv, SInv, StartsNow
  PROVE  picCnt = -1 \/ Served.force = "IDR" \/ (called /\ ~bufs)
<1>1. OnlyIdr
  BY EncConfigAssumption DEF SInv, Meant, OnlyIdr
<1>2. ServedAs(Slots)
  BY AskedIsDue, ServedFacts
<1>3. force = "IDR" \/ Served.size # cfg.size \/ Asks(Slots, "TYPE", "IDR")
        => Served.force = "IDR"
  BY <1>1, <1>2 DEF ServedAs, Served
<1>4. (\E q \in Due : q.cmd = "TYPE" /\ q.val = "IDR") => Asks(Slots, "TYPE", "IDR")
  BY AskedIsDue DEF Kinds
<1> QED BY <1>3, <1>4 DEF StartsNow, SInv, StartForced

\* The control calls: what they store is meant, and a reset starts a sequence.
LEMMA CtlSInv ==
  ASSUME IInv, SInv,
         Flush \/ Reset \/ \E w \in Wishes, ts \in {Now} \cup 0..LastStamp : Set(w, ts)
  PROVE  SInv'
<1>1. table \in [SlotIds -> {Free} \cup Entries] /\ made \in Nat
  BY DEF IInv, TableTyped
<1>2. CASE Flush \/ Reset
  <2>1. table' = IF TableFull THEN [table EXCEPT ![1].cmd = "FLUSH"] ELSE table
    BY <1>2 DEF Flush, Reset, AtOnce
  <2>2. ASSUME NEW i \in SlotIds, table'[i].cmd = "TYPE" PROVE table'[i].val \in Types
    <3>1. CASE table'[i] = table[i]
      BY <2>2, <3>1 DEF SInv, Meant
    <3>2. CASE table'[i] # table[i]
      <4>1. TableFull /\ i = 1 /\ table[i] \in Entries
        BY <1>1, <2>1, <2>2, <3>2, SlotTaken
      <4>2. table'[i] = [table[i] EXCEPT !.cmd = "FLUSH"]
        BY <1>1, <2>1, <2>2, <4>1
      <4>3. table'[i].cmd = "FLUSH"
        BY <4>1, <4>2 DEF Entries
      <4> QED BY <2>2, <4>3
    <3> QED BY <3>1, <3>2
  <2>3. CASE Flush
    BY <2>2, <2>3 DEF Flush, codec, SInv, Meant, HeaderFits, BufsCalled, StartForced,
       FirstPlace
  <2>4. CASE Reset
    BY <2>2, <2>4 DEF Reset, SInv, Meant, HeaderFits, BufsCalled, StartForced, FirstPlace
  <2> QED BY <1>2, <2>3, <2>4
<1>3. ASSUME NEW w \in Wishes, NEW ts \in {Now} \cup 0..LastStamp, Set(w, ts)
      PROVE  SInv'
  <2>1. table' = [table EXCEPT ![Slot] = Request(w, ts)] /\ Slot \in SlotIds
    BY <1>3, SlotTaken DEF Set, Store
  <2>2. Request(w, ts).cmd = "TYPE" => Request(w, ts).val \in Types
    BY DEF Request, Wishes
  <2>3. Meant'
    BY <1>1, <2>1, <2>2 DEF SInv, Meant
  <2> QED BY <1>3, <2>3 DEF Set, codec, SInv, HeaderFits, BufsCalled, StartForced,
             FirstPlace
<1> QED BY <1>2, <1>3

\* The calls of ih264e_encode.
LEMMA EncodeSInv ==
  ASSUME "I" \notin Types, IInv, SInv, VideoEncode
  PROVE  SInv' /\ (pic' # pic => /\ header' = pic'.size
                                 /\ StartsNow => pic'.type = "IDR")
<1>1. ServeRequests
  BY DEF VideoEncode, EncodeHeader, EncodeRefused, EncodeNothing,
         EncodePicture, EncodeFails, Encode
<1>2. /\ Meant'
      /\ cfg'.size = Served.size
      /\ Served.gen \/ (~genHeader /\ Served.size = cfg.size)
      /\ picCnt = -1 => Served.gop = 0
  BY <1>1, ServedNow
<1>3. StartsNow => picCnt = -1 \/ Served.force = "IDR" \/ (called /\ ~bufs)
  BY StartsForced
<1>4. picCnt \in Int /\ picCnt >= -1 /\ Cnt = picCnt + 1
  BY DEF SInv, FirstPlace, Cnt
<1>5. CASE EncodeHeader
  <2>1. pic' = pic
    BY <1>5 DEF EncodeHeader
  <2>2. HeaderFits' /\ BufsCalled' /\ StartForced'
    BY <1>2, <1>5 DEF EncodeHeader, HeaderFits, BufsCalled, StartForced
  <2>3. FirstPlace'
    BY <1>2, <1>4, <1>5 DEF EncodeHeader, FirstPlace
  <2> QED BY <1>2, <2>1, <2>2, <2>3 DEF SInv
<1>6. ASSUME NEW size \in Sizes, EncodeRefused(size)
      PROVE  SInv' /\ pic' = pic
  <2>1. /\ genHeader' = Served.gen /\ called' /\ bufs' = bufs
        /\ force' = Served.force /\ gop' = Served.gop /\ start' = StartsNow
        /\ UNCHANGED <<picCnt, header, pic, headed>>
    BY <1>6 DEF EncodeRefused, Encode
  <2>2. HeaderFits'
    BY <1>2, <2>1 DEF SInv, HeaderFits
  <2>3. BufsCalled' /\ StartForced' /\ FirstPlace'
    BY <1>2, <1>3, <1>4, <2>1 DEF SInv, BufsCalled, StartForced, FirstPlace
  <2> QED BY <1>2, <2>1, <2>2, <2>3 DEF SInv
<1>7. ASSUME NEW skipped \in BOOLEAN, EncodeNothing(skipped)
      PROVE  SInv' /\ pic' = pic
  <2>1. /\ genHeader' = Gen /\ called' /\ bufs' = Given
        /\ force' = Served.force /\ gop' = Served.gop /\ start' = StartsNow
        /\ UNCHANGED <<picCnt, header, pic, headed>>
    BY <1>7 DEF EncodeNothing, Encode
  <2>2. HeaderFits'
    BY <1>2, <2>1 DEF SInv, HeaderFits, Gen, Given
  <2>3. BufsCalled' /\ StartForced' /\ FirstPlace'
    BY <1>2, <1>3, <1>4, <2>1 DEF SInv, BufsCalled, StartForced, FirstPlace, Given
  <2> QED BY <1>2, <2>1, <2>2, <2>3 DEF SInv
<1>8. CASE EncodePicture
  <2>1. /\ ~genHeader' /\ called' /\ bufs' = Given /\ Given
        /\ header' = IF Gen THEN Served.size ELSE header
        /\ pic' = [stamp |-> stamp, type |-> Type, size |-> Served.size]
        /\ start' = (StartsNow /\ Type # "IDR") /\ picCnt' = Cnt
    BY <1>8 DEF EncodePicture, Encode, TakePicture
  <2>2. header' = Served.size
    <3>1. CASE Gen
      BY <2>1, <3>1
    <3>2. CASE ~Gen
      <4>1. ~Served.gen /\ (called \/ headed) /\ (bufs \/ ~called)
        BY <2>1, <3>2 DEF Gen, Given
      <4> QED BY <1>2, <2>1, <3>2, <4>1 DEF SInv, HeaderFits
    <3> QED BY <3>1, <3>2
  <2>3. StartsNow => Type = "IDR"
    <3> SUFFICES ASSUME StartsNow PROVE Type = "IDR"
      OBVIOUS
    <3>1. ~(called /\ ~bufs)
      BY <2>1 DEF Given
    <3>2. IdrInterval \in Nat \ {0} /\ 0 % IdrInterval = 0
      BY EncConfigAssumption
    <3>3. IdrDue
      BY <1>3, <1>4, <3>1, <3>2 DEF IdrDue
    <3>4. Place = 0
      BY <1>2, <1>4, <3>3 DEF Place
    <3> QED BY <3>3, <3>4 DEF Type
  <2>4. SInv'
    <3>1. ~start'
      BY <2>1, <2>3, Zenon
    <3>5. picCnt' # -1
      BY <1>4, <2>1
    <3>2. HeaderFits'
      BY <1>2, <2>1, <2>2 DEF HeaderFits
    <3>3. BufsCalled' /\ StartForced'
      BY <2>1, <3>1 DEF BufsCalled, StartForced
    <3>4. FirstPlace'
      BY <1>4, <2>1 DEF FirstPlace
    <3> QED BY <1>2, <3>2, <3>3, <3>4 DEF SInv
  <2> QED BY <2>1, <2>2, <2>3, <2>4
<1>9. CASE EncodeFails
  <2>1. /\ genHeader' = Gen /\ called' /\ bufs' = Given /\ ~Given
        /\ start' = StartsNow /\ picCnt' = Cnt
        /\ UNCHANGED <<header, pic, headed>>
    BY <1>9 DEF EncodeFails, Encode, TakePicture
  <2>2. HeaderFits'
    BY <1>2, <2>1 DEF SInv, HeaderFits, Gen, Given
  <2>3. BufsCalled' /\ StartForced' /\ FirstPlace'
    BY <1>4, <2>1 DEF BufsCalled, StartForced, FirstPlace
  <2> QED BY <1>2, <2>1, <2>2, <2>3 DEF SInv
<1> QED BY <1>5, <1>6, <1>7, <1>8, <1>9 DEF VideoEncode

(* The picture after a new size, a header or a reset, and one that an IDR picture was asked
   for, is an IDR picture, however many calls without a picture, or refused ones, come in
   between, and the last header in the stream has the size of the picture
   (ih264e_codec_update_config, ih264e_encode, ih264e_input_queue_update).  Assumed: no
   picture is asked to be an I picture, which would undo it. *)
THEOREM SequencesStart == "I" \notin Types => (Spec => SequenceStarts)
<1> SUFFICES ASSUME "I" \notin Types PROVE Spec => SequenceStarts
  OBVIOUS
<1>1. ASSUME IInv, SInv, [Next]_vars
      PROVE  SInv' /\ [pic' # pic => /\ header' = pic'.size
                                     /\ StartsNow => pic'.type = "IDR"]_vars
  <2>1. CASE Flush \/ Reset \/ \E w \in Wishes, ts \in {Now} \cup 0..LastStamp : Set(w, ts)
    <3>1. pic' = pic
      BY <2>1 DEF Flush, Reset, Set
    <3> QED BY <1>1, <2>1, <3>1, CtlSInv
  <2>2. CASE VideoEncode
    BY <1>1, <2>2, EncodeSInv
  <2>3. CASE UNCHANGED vars
    <3>1. UNCHANGED <<table, cfg, force, genHeader, headed, called, bufs, picCnt, gop,
                      start, header, pic>>
      BY <2>3 DEF vars, codec, history
    <3>2. SInv'
      BY <1>1, <3>1 DEF SInv, Meant, HeaderFits, BufsCalled, StartForced, FirstPlace
    <3> QED BY <3>1, <3>2
  <2> QED BY <1>1, <2>1, <2>2, <2>3 DEF Next
<1>2. IInv /\ SInv /\ [Next]_vars
        => SInv' /\ [pic' # pic => /\ header' = pic'.size
                                   /\ StartsNow => pic'.type = "IDR"]_vars
  BY <1>1
<1> QED BY InitIInv, NextIInv, InitSInv, <1>2, PTL DEF Spec, SequenceStarts
=============================================================================
