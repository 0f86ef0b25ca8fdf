-------------------------- MODULE EncSequenceProofs --------------------------
(***************************************************************************)
(* Proofs about EncSequence for any number of pictures, entries of the      *)
(* reference list and intervals, and any choice of what the application     *)
(* does: that the buffers suffice, and, for streams without B pictures, the *)
(* order and the references of what is coded.                               *)
(***************************************************************************)
EXTENDS EncSequence, FiniteSetTheorems, WellFoundedInduction, TLAPS

-----------------------------------------------------------------------------
(* Least and greatest numbers. *)

\* A set of naturals that is not empty has a least element.
LEMMA LeastExists ==
  ASSUME NEW S, S \subseteq Nat, S # {}
  PROVE  \E i \in S : \A j \in S : i <= j
<1>1. \E i \in S : \A j \in S : ~ (<<j, i>> \in OpToRel(<, Nat))
  BY NatLessThanWellFounded, WFMin
<1>2. PICK i \in S : \A j \in S : ~ (<<j, i>> \in OpToRel(<, Nat))
  BY <1>1
<1>3. ASSUME NEW j \in S PROVE i <= j
  <2>1. i \in Nat /\ j \in Nat
    OBVIOUS
  <2>2. j < i => <<j, i>> \in OpToRel(<, Nat)
    BY <2>1 DEF OpToRel
  <2>3. ~ (j < i)
    BY <1>2, <2>2
  <2> QED BY <2>1, <2>3
<1> QED BY <1>2, <1>3

\* And one with a bound has a greatest.
LEMMA GreatestExists ==
  ASSUME NEW S, NEW n \in Nat, S \subseteq 0..n, S # {}
  PROVE  \E i \in S : \A j \in S : j <= i
<1> DEFINE T == {n - i : i \in S}
<1>1. T \subseteq Nat /\ T # {}
  <2>1. PICK k \in S : TRUE
    OBVIOUS
  <2>2. n - k \in T
    OBVIOUS
  <2>3. ASSUME NEW i \in S PROVE n - i \in Nat
    <3>1. i \in 0..n
      OBVIOUS
    <3> QED BY <3>1
  <2> QED BY <2>2, <2>3
<1>2. PICK t \in T : \A u \in T : t <= u
  <2> HIDE DEF T
  <2> QED BY <1>1, LeastExists
<1>3. PICK i \in S : t = n - i
  OBVIOUS
<1>4. ASSUME NEW j \in S PROVE j <= i
  <2>1. n - j \in T
    OBVIOUS
  <2>2. t <= n - j
    BY <1>2, <2>1
  <2> QED BY <1>3, <2>2
<1> QED BY <1>4

\* Min and Max are what they are named after.
LEMMA MinFacts ==
  ASSUME NEW S, S \subseteq Nat, S # {}
  PROVE  Min(S) \in S /\ \A j \in S : Min(S) <= j
BY LeastExists DEF Min

\* Max is, in a set with a bound.
LEMMA MaxFacts ==
  ASSUME NEW S, NEW n \in Nat, S \subseteq 0..n, S # {}
  PROVE  Max(S) \in S /\ \A j \in S : j <= Max(S)
<1>1. \E x \in S : \A y \in S : x >= y
  BY GreatestExists
<1> QED BY <1>1 DEF Max

-----------------------------------------------------------------------------
(* The statuses of a buffer. *)

\* A buffer is free, or taken and marked.
Statuses == {{}, {"busy", "REF"}, {"busy", "IO"}, {"busy", "REF", "IO"}}

\* What is left when one mark is removed.
Unmark(s, flag) == IF s \ {flag} = {"busy"} THEN {} ELSE s \ {flag}

\* What ih264_buf_mgr_release leaves is a status again.
LEMMA UnmarkFacts ==
  ASSUME NEW s \in Statuses, NEW flag \in {"REF", "IO", "CODEC"}
  PROVE  /\ Unmark(s, flag) \in Statuses
         /\ "REF" \in Unmark(s, flag) <=> "REF" \in s /\ flag # "REF"
         /\ "IO" \in Unmark(s, flag) <=> "IO" \in s /\ flag # "IO"
<1>1. CASE s = {}
  BY <1>1 DEF Unmark, Statuses
<1>2. CASE s = {"busy", "REF"}
  BY <1>2 DEF Unmark, Statuses
<1>3. CASE s = {"busy", "IO"}
  BY <1>3 DEF Unmark, Statuses
<1>4. CASE s = {"busy", "REF", "IO"}
  BY <1>4 DEF Unmark, Statuses
<1> QED BY <1>1, <1>2, <1>3, <1>4 DEF Statuses

\* A buffer is free exactly when it has no mark.
LEMMA StatusFacts ==
  ASSUME NEW s \in Statuses
  PROVE  /\ s = {} <=> "REF" \notin s /\ "IO" \notin s
         /\ s \cap {"REF", "CODEC", "IO"} = {} <=> s = {}
<1>1. CASE s = {}
  BY <1>1
<1>2. CASE s = {"busy", "REF"}
  BY <1>2
<1>3. CASE s = {"busy", "IO"}
  BY <1>3
<1>4. CASE s = {"busy", "REF", "IO"}
  BY <1>4
<1> QED BY <1>1, <1>2, <1>3, <1>4 DEF Statuses

\* What a buffer is marked with when it is taken, and when the last row of the
\* picture is done.
Taken(isRef, recon) ==
  {"busy"} \cup (IF isRef THEN {"REF"} ELSE {}) \cup (IF recon THEN {"IO"} ELSE {})

\* The marks of a buffer that is taken, and once CODEC is let go of.
LEMMA TakenFacts ==
  ASSUME NEW isRef \in BOOLEAN, NEW recon \in BOOLEAN
  PROVE  LET s == Taken(isRef, recon) IN
         /\ "REF" \in s <=> isRef
         /\ "IO" \in s <=> recon
         /\ isRef \/ recon => s \in Statuses
         /\ Unmark(s, "CODEC") \in Statuses
         /\ "REF" \in Unmark(s, "CODEC") <=> isRef
         /\ "IO" \in Unmark(s, "CODEC") <=> recon
<1>1. CASE isRef /\ recon
  BY <1>1 DEF Taken, Statuses, Unmark
<1>2. CASE isRef /\ ~recon
  BY <1>2 DEF Taken, Statuses, Unmark
<1>3. CASE ~isRef /\ recon
  BY <1>3 DEF Taken, Statuses, Unmark
<1>4. CASE ~isRef /\ ~recon
  BY <1>4 DEF Taken, Statuses, Unmark
<1> QED BY <1>1, <1>2, <1>3, <1>4

-----------------------------------------------------------------------------
(* The reference list. *)

\* Entries are taken from the last one down and buffers from the first one up, so
\* that an entry's picture is always in the same buffer.
Buf(i) == MaxRef - i

RefAt(d, i) == "REF" \in d.pic[Buf(i)]
IoAt(d, i) == "IO" \in d.pic[Buf(i)]

Records(d) ==
  /\ d = [set |-> d.set, mv |-> d.mv, pic |-> d.pic]
  /\ d.set = [i \in R!Entries |-> d.set[i]]
  /\ \A i \in R!Entries : LET e == d.set[i] IN
       e = [cnt |-> e.cnt, poc |-> e.poc, mv |-> e.mv, pic |-> e.pic]

Shape(d) ==
  /\ Records(d)
  /\ \A i \in R!Entries : LET e == d.set[i] IN
       e.cnt \in Nat \cup {-1} /\ e.mv \in R!Entries /\ e.pic \in R!Entries
  /\ d.mv \in [R!Entries -> {{}, {"busy", "REF"}}]
  /\ d.pic \in [R!Entries -> Statuses]

\* A buffer that is marked belongs to an entry in use.
Placed(d) ==
  /\ \A i \in R!Live(d) : d.set[i].pic = Buf(i)
  /\ \A i \in R!Entries : d.pic[Buf(i)] # {} => i \in R!Live(d)
  /\ \A i, j \in R!Live(d) : d.set[i].cnt = d.set[j].cnt => i = j

\* A motion vector buffer is taken exactly when a picture kept for prediction
\* has it, and that is one picture.
Paired(d) ==
  /\ \A b \in R!Entries :
       d.mv[b] # {} => \E i \in R!Entries : RefAt(d, i) /\ d.set[i].mv = b
  /\ \A i \in R!Entries : RefAt(d, i) => d.mv[d.set[i].mv] # {}
  /\ \A i, j \in R!Entries :
       RefAt(d, i) /\ RefAt(d, j) /\ d.set[i].mv = d.set[j].mv => i = j

\* At most two pictures are kept for prediction.
Two(d) ==
  \E r \in R!Entries : \E s \in R!Entries :
    \A i \in R!Entries : RefAt(d, i) => i \in {r, s}

Kept(d) == Shape(d) /\ Placed(d) /\ Paired(d) /\ Two(d)

\* The entries are numbered from 0.
LEMMA EntriesAre == R!Entries = 0..MaxRef
BY DEF R!Entries

\* Each entry has its buffer, and each buffer its entry.
LEMMA BufFacts ==
  ASSUME MaxRef \in Nat, NEW i \in R!Entries
  PROVE  /\ Buf(i) \in R!Entries /\ Buf(Buf(i)) = i
         /\ \A j \in R!Entries : Buf(i) = Buf(j) => i = j
BY EntriesAre DEF Buf

\* The entries in use.
LEMMA LiveIs ==
  ASSUME NEW d
  PROVE  R!Live(d) = {i \in R!Entries : d.set[i].cnt # -1}
BY DEF R!Live

\* The entries whose picture has a mark are in use.
LEMMA MarkedFacts ==
  ASSUME MaxRef \in Nat, NEW d, Shape(d), Placed(d)
  PROVE  /\ R!Marked(d, "REF") = {i \in R!Entries : RefAt(d, i)}
         /\ R!Marked(d, "IO") = {i \in R!Entries : IoAt(d, i)}
         /\ \A i \in R!Entries : RefAt(d, i) \/ IoAt(d, i) => i \in R!Live(d)
<1>1. \A i \in R!Live(d) : i \in R!Entries /\ d.set[i].pic = Buf(i)
  BY LiveIs DEF Placed
<1>2. \A i \in R!Entries : RefAt(d, i) \/ IoAt(d, i) => i \in R!Live(d)
  BY DEF Placed, RefAt, IoAt
<1> QED BY <1>1, <1>2 DEF R!Marked, RefAt, IoAt

\* The newest of the pictures kept for prediction.
LEMMA NewestFacts ==
  ASSUME MaxRef \in Nat, NEW d, Kept(d),
         NEW S, S \subseteq {i \in R!Entries : RefAt(d, i)}, S # {}
  PROVE  /\ R!Newest(d, S) \in S
         /\ \A j \in S : d.set[j].cnt <= d.set[R!Newest(d, S)].cnt
<1>1. PICK r \in R!Entries : \E s \in R!Entries :
        \A i \in R!Entries : RefAt(d, i) => i \in {r, s}
  BY DEF Kept, Two
<1>2. PICK s \in R!Entries : \A i \in R!Entries : RefAt(d, i) => i \in {r, s}
  BY <1>1
<1>3. \A i \in R!Entries : d.set[i].cnt \in Int
  BY DEF Kept, Shape
<1>4. \A i \in S : i = r \/ i = s
  BY <1>2
<1>5. \E i \in S : \A j \in S : d.set[j].cnt <= d.set[i].cnt
  <2>1. CASE r \notin S \/ s \notin S
    <3>1. PICK i \in S : TRUE
      OBVIOUS
    <3>2. \A j \in S : j = i
      BY <1>4, <2>1
    <3>3. d.set[i].cnt \in Int
      BY <1>3
    <3> QED BY <3>2, <3>3
  <2>2. CASE r \in S /\ s \in S
    <3>1. d.set[r].cnt \in Int /\ d.set[s].cnt \in Int
      BY <1>3
    <3>2. CASE d.set[r].cnt <= d.set[s].cnt
      BY <1>4, <2>2, <3>1, <3>2
    <3>3. CASE ~(d.set[r].cnt <= d.set[s].cnt)
      BY <1>4, <2>2, <3>1, <3>3
    <3> QED BY <3>2, <3>3
  <2> QED BY <2>1, <2>2
<1> QED BY <1>5 DEF R!Newest

\* ih264e_pic_init finds the one or two pictures there are, the newest first.
LEMMA RefsFacts ==
  ASSUME MaxRef \in Nat, NEW d, Kept(d)
  PROVE  LET M == {i \in R!Entries : RefAt(d, i)} IN
         \/ M = {} /\ R!Refs(d) = << >>
         \/ \E a \in M :
              /\ \A j \in M : d.set[j].cnt <= d.set[a].cnt
              /\ \/ M = {a} /\ R!Refs(d) = <<a>>
                 \/ \E b \in M : b # a /\ M = {a, b} /\ R!Refs(d) = <<a, b>>
<1> DEFINE M == {i \in R!Entries : RefAt(d, i)}
           a == R!Newest(d, M)
           b == R!Newest(d, M \ {a})
<1>1. R!Marked(d, "REF") = M
  BY MarkedFacts DEF Kept
<1> HIDE DEF M
<1>2. CASE M = {}
  BY <1>1, <1>2 DEF R!Refs, M
<1>3. CASE M # {}
  <2>1. a \in M /\ \A j \in M : d.set[j].cnt <= d.set[a].cnt
    BY <1>3, NewestFacts DEF M
  <2> HIDE DEF a
  <2>2. CASE M = {a}
    <3>1. R!Refs(d) = <<a>>
      BY <1>1, <1>3, <2>2 DEF R!Refs, a
    <3> QED BY <2>1, <2>2, <3>1 DEF M
  <2>3. CASE M # {a}
    <3>1. M \ {a} # {} /\ M \ {a} \subseteq M
      BY <2>1, <2>3
    <3>2. b \in M \ {a}
      <4>1. M \ {a} \subseteq {i \in R!Entries : RefAt(d, i)}
        BY DEF M
      <4> QED BY <3>1, <4>1, NewestFacts
    <3>3. R!Refs(d) = <<a, b>>
      BY <1>1, <1>3, <2>3 DEF R!Refs, a
    <3> HIDE DEF b
    <3>4. M = {a, b}
      <4>1. PICK r \in R!Entries : \E s \in R!Entries :
              \A i \in R!Entries : RefAt(d, i) => i \in {r, s}
        BY DEF Kept, Two
      <4>2. PICK s \in R!Entries : \A i \in R!Entries : RefAt(d, i) => i \in {r, s}
        BY <4>1
      <4>3. \A i \in M : i = r \/ i = s
        BY <4>2 DEF M
      <4> QED BY <2>1, <3>2, <4>3
    <3> QED BY <2>1, <3>2, <3>3, <3>4 DEF M
  <2> QED BY <2>2, <2>3
<1> QED BY <1>2, <1>3 DEF M

\* ih264_buf_mgr_release.
LEMMA ReleaseFacts ==
  ASSUME NEW m, NEW D, m \in [R!Entries -> D], NEW b \in R!Entries, NEW flag
  PROVE  LET r == R!B!Release(m, b, flag) IN
         /\ DOMAIN r = R!Entries /\ r = [x \in R!Entries |-> r[x]]
         /\ r[b] = Unmark(m[b], flag)
         /\ \A x \in R!Entries : x # b => r[x] = m[x]
BY DEF R!B!Release, Unmark

\* The same of the picture buffers: one mark goes.
LEMMA ReleasePic ==
  ASSUME NEW p \in [R!Entries -> Statuses], NEW b \in R!Entries,
         NEW flag \in {"REF", "IO", "CODEC"}
  PROVE  LET r == R!B!Release(p, b, flag) IN
         /\ r \in [R!Entries -> Statuses]
         /\ \A x \in R!Entries :
              /\ "REF" \in r[x] <=> "REF" \in p[x] /\ ~(x = b /\ flag = "REF")
              /\ "IO" \in r[x] <=> "IO" \in p[x] /\ ~(x = b /\ flag = "IO")
              /\ r[x] # {} => p[x] # {}
<1> DEFINE r == R!B!Release(p, b, flag)
<1>1. /\ r = [x \in R!Entries |-> r[x]]
      /\ r[b] = Unmark(p[b], flag)
      /\ \A x \in R!Entries : x # b => r[x] = p[x]
  BY ReleaseFacts
<1>2. p[b] \in Statuses
  OBVIOUS
<1>3. /\ Unmark(p[b], flag) \in Statuses
      /\ "REF" \in Unmark(p[b], flag) <=> "REF" \in p[b] /\ flag # "REF"
      /\ "IO" \in Unmark(p[b], flag) <=> "IO" \in p[b] /\ flag # "IO"
  BY <1>2, UnmarkFacts
<1> HIDE DEF r
<1>4. \A x \in R!Entries : r[x] \in Statuses
  BY <1>1, <1>3
<1>5. r \in [R!Entries -> Statuses]
  BY <1>1, <1>4
<1>6. \A x \in R!Entries :
              /\ "REF" \in r[x] <=> "REF" \in p[x] /\ ~(x = b /\ flag = "REF")
              /\ "IO" \in r[x] <=> "IO" \in p[x] /\ ~(x = b /\ flag = "IO")
  BY <1>1, <1>3
<1>7. \A x \in R!Entries : r[x] # {} => p[x] # {}
  <2>1. r[b] # {} => p[b] # {}
    BY <1>1, <1>2, <1>3, <1>4, StatusFacts
  <2> QED BY <1>1, <2>1
<1> QED BY <1>5, <1>6, <1>7 DEF r

\* The managers of a reference list are replaced.
LEMMA ManagersExcept ==
  ASSUME NEW s, NEW v, NEW q, NEW m, NEW p, NEW d, NEW r,
         d = [set |-> s, mv |-> v, pic |-> q], r = [d EXCEPT !.mv = m, !.pic = p]
  PROVE  r = [set |-> s, mv |-> m, pic |-> p]
OBVIOUS

\* Only the picture buffers are.
LEMMA PicExcept ==
  ASSUME NEW s, NEW v, NEW q, NEW p, NEW d, NEW r,
         d = [set |-> s, mv |-> v, pic |-> q], r = [d EXCEPT !.pic = p]
  PROVE  r = [set |-> s, mv |-> v, pic |-> p]
OBVIOUS

\* A mark is removed from the picture of an entry.
LEMMA UnmarkedFacts ==
  ASSUME MaxRef \in Nat, NEW d, Shape(d), Placed(d), NEW e \in R!Entries,
         NEW flag \in {"REF", "IO", "CODEC"}, NEW m, m \in [R!Entries -> {{}, {"busy", "REF"}}]
  PROVE  LET r == [d EXCEPT !.mv = m, !.pic = R!B!Release(@, Buf(e), flag)] IN
         /\ Shape(r) /\ Placed(r) /\ r.set = d.set /\ r.mv = m
         /\ \A i \in R!Entries :
              /\ RefAt(r, i) <=> RefAt(d, i) /\ ~(i = e /\ flag = "REF")
              /\ IoAt(r, i) <=> IoAt(d, i) /\ ~(i = e /\ flag = "IO")
<1> DEFINE p == R!B!Release(d.pic, Buf(e), flag)
           r == [d EXCEPT !.mv = m, !.pic = p]
<1>1. r = [set |-> d.set, mv |-> m, pic |-> p]
  <2> HIDE DEF p
  <2>1. d = [set |-> d.set, mv |-> d.mv, pic |-> d.pic]
    BY DEF Shape, Records
  <2>2. r = [d EXCEPT !.mv = m, !.pic = p]
    OBVIOUS
  <2> HIDE DEF r
  <2>3. QED BY <2>1, <2>2, ManagersExcept
<1>2. /\ p \in [R!Entries -> Statuses]
      /\ \A x \in R!Entries :
              /\ "REF" \in p[x] <=> "REF" \in d.pic[x] /\ ~(x = Buf(e) /\ flag = "REF")
              /\ "IO" \in p[x] <=> "IO" \in d.pic[x] /\ ~(x = Buf(e) /\ flag = "IO")
              /\ p[x] # {} => d.pic[x] # {}
  <2>1. Buf(e) \in R!Entries /\ d.pic \in [R!Entries -> Statuses]
    BY BufFacts DEF Shape
  <2> QED BY <2>1, ReleasePic
<1> HIDE DEF p, r
<1>3. r.set = d.set /\ r.mv = m /\ r.pic = p
  BY <1>1
<1>4. Shape(r)
  <2>1. Records(r)
    <3>1. /\ d.set = [i \in R!Entries |-> d.set[i]]
          /\ \A i \in R!Entries : LET e2 == d.set[i] IN
               e2 = [cnt |-> e2.cnt, poc |-> e2.poc, mv |-> e2.mv, pic |-> e2.pic]
      BY DEF Shape, Records
    <3> QED BY <1>1, <1>3, <3>1, Zenon DEF Records
  <2>2. /\ \A i \in R!Entries : LET e2 == d.set[i] IN
               e2.cnt \in Nat \cup {-1} /\ e2.mv \in R!Entries /\ e2.pic \in R!Entries
    BY DEF Shape
  <2> QED BY <1>2, <1>3, <2>1, <2>2 DEF Shape
<1>5. R!Live(r) = R!Live(d)
  BY <1>3, LiveIs
<1>6. Placed(r)
  BY <1>2, <1>3, <1>5, BufFacts, LiveIs DEF Placed
<1>7. \A i \in R!Entries :
              /\ RefAt(r, i) <=> RefAt(d, i) /\ ~(i = e /\ flag = "REF")
              /\ IoAt(r, i) <=> IoAt(d, i) /\ ~(i = e /\ flag = "IO")
  BY <1>2, <1>3, BufFacts DEF RefAt, IoAt
<1> QED BY <1>3, <1>4, <1>6, <1>7 DEF r, p

\* Before an I or P picture is coded, the older of two references is given up; the
\* newest stays.
LEMMA DiscardFacts ==
  ASSUME MaxRef \in Nat, NEW d, Kept(d), NEW type
  PROVE  LET r == R!DiscardOlder(d, type) IN
         /\ Kept(r) /\ r.set = d.set
         /\ \A i \in R!Entries :
              /\ RefAt(r, i) => RefAt(d, i)
              /\ IoAt(r, i) <=> IoAt(d, i)
              /\ RefAt(d, i) /\ (\A j \in R!Entries : RefAt(d, j) => d.set[j].cnt <= d.set[i].cnt)
                   => RefAt(r, i)
         /\ type # "B" => \A i, j \in R!Entries : RefAt(r, i) /\ RefAt(r, j) => i = j
<1> DEFINE r == R!DiscardOlder(d, type)
           M == {i \in R!Entries : RefAt(d, i)}
           Alone == \A i, j \in R!Entries : RefAt(r, i) /\ RefAt(r, j) => i = j
           Stays == \A i \in R!Entries :
             RefAt(d, i) /\ (\A j \in R!Entries : RefAt(d, j) => d.set[j].cnt <= d.set[i].cnt)
                => RefAt(r, i)
<1>1. \/ M = {} /\ R!Refs(d) = << >>
      \/ \E a \in M :
              /\ \A j \in M : d.set[j].cnt <= d.set[a].cnt
              /\ \/ M = {a} /\ R!Refs(d) = <<a>>
                 \/ \E b \in M : b # a /\ M = {a, b} /\ R!Refs(d) = <<a, b>>
  BY RefsFacts
<1>2. CASE type = "B" \/ Len(R!Refs(d)) < 2
  <2>1. r = d
    BY <1>2 DEF R!DiscardOlder
  <2>2. type = "B" \/ M = {} \/ \E a \in M : M = {a}
    BY <1>1, <1>2
  <2>3. type # "B" => Alone
    BY <2>1, <2>2
  <2> QED BY <2>1, <2>3
<1>3. CASE type # "B" /\ ~(Len(R!Refs(d)) < 2)
  <2>1. Len(<< >>) < 2 /\ \A a : Len(<<a>>) < 2
    OBVIOUS
  <2>2. PICK a \in M :
          /\ \A j \in M : d.set[j].cnt <= d.set[a].cnt
          /\ \E b \in M : b # a /\ M = {a, b} /\ R!Refs(d) = <<a, b>>
    BY <1>1, <1>3, <2>1
  <2>3. PICK b \in M : b # a /\ M = {a, b} /\ R!Refs(d) = <<a, b>>
    BY <2>2
  <2> DEFINE e == d.set[b]
             m == R!B!Release(d.mv, e.mv, "REF")
  <2>4. /\ e.pic = Buf(b) /\ e.mv \in R!Entries
        /\ Shape(d) /\ Placed(d) /\ Paired(d)
        /\ a \in R!Entries /\ b \in R!Entries /\ RefAt(d, a) /\ RefAt(d, b)
        /\ d.mv \in [R!Entries -> {{}, {"busy", "REF"}}]
    BY <2>3, MarkedFacts DEF Kept, Shape, Placed
  <2>5. /\ r = [d EXCEPT !.mv = m, !.pic = R!B!Release(@, Buf(b), "REF")]
    <3>1. R!Refs(d)[2] = b
      BY <2>3
    <3>2. r = [d EXCEPT !.mv = R!B!Release(@, e.mv, "REF"), !.pic = R!B!Release(@, e.pic, "REF")]
      BY <1>3, <3>1 DEF R!DiscardOlder
    <3>3. r = [d EXCEPT !.mv = m, !.pic = R!B!Release(@, e.pic, "REF")]
      BY <3>2, Zenon
    <3> HIDE DEF e, m, r
    <3> QED BY <2>4, <3>3
  <2>6. /\ m \in [R!Entries -> {{}, {"busy", "REF"}}] /\ m[e.mv] = {}
        /\ \A x \in R!Entries : x # e.mv => m[x] = d.mv[x]
    <3>1. /\ m = [x \in R!Entries |-> m[x]]
          /\ m[e.mv] = Unmark(d.mv[e.mv], "REF")
          /\ \A x \in R!Entries : x # e.mv => m[x] = d.mv[x]
      <4> DEFINE D == {{}, {"busy", "REF"}}
      <4>1. d.mv \in [R!Entries -> D] /\ e.mv \in R!Entries
        BY <2>4
      <4> HIDE DEF D, e
      <4> QED BY <4>1 DEF R!B!Release, Unmark
    <3>2. Unmark(d.mv[e.mv], "REF") = {}
      <4>1. d.mv[e.mv] = {} \/ d.mv[e.mv] = {"busy", "REF"}
        BY <2>4
      <4>2. Unmark({}, "REF") = {} /\ Unmark({"busy", "REF"}, "REF") = {}
        BY DEF Unmark
      <4> QED BY <4>1, <4>2
    <3> HIDE DEF m
    <3>3. \A x \in R!Entries : m[x] \in {{}, {"busy", "REF"}}
      BY <2>4, <3>1, <3>2
    <3> QED BY <3>1, <3>2, <3>3
  <2> HIDE DEF m
  <2>7. /\ Shape(r) /\ Placed(r) /\ r.set = d.set /\ r.mv = m
        /\ \A i \in R!Entries :
              /\ RefAt(r, i) <=> RefAt(d, i) /\ i # b
              /\ IoAt(r, i) <=> IoAt(d, i)
    <3> DEFINE q == [d EXCEPT !.mv = m, !.pic = R!B!Release(@, Buf(b), "REF")]
    <3>1. /\ Shape(q) /\ Placed(q) /\ q.set = d.set /\ q.mv = m
          /\ \A i \in R!Entries :
              /\ RefAt(q, i) <=> RefAt(d, i) /\ ~(i = b /\ "REF" = "REF")
              /\ IoAt(q, i) <=> IoAt(d, i) /\ ~(i = b /\ "REF" = "IO")
      BY <2>4, <2>6, UnmarkedFacts
    <3> HIDE DEF r, e
    <3>2. r = q
      BY <2>5
    <3> HIDE DEF q
    <3> QED BY <3>1, <3>2
  <2> HIDE DEF r
  <2>8. Paired(r)
    <3>1. \A x \in R!Entries :
            r.mv[x] # {} => \E i \in R!Entries : RefAt(r, i) /\ r.set[i].mv = x
      <4>1. SUFFICES ASSUME NEW x \in R!Entries, m[x] # {}
                     PROVE  \E i \in R!Entries : RefAt(r, i) /\ r.set[i].mv = x
        BY <2>7
      <4>2. x # d.set[b].mv /\ d.mv[x] # {}
        BY <2>6, <4>1
      <4>3. PICK i \in R!Entries : RefAt(d, i) /\ d.set[i].mv = x
        BY <2>4, <4>2 DEF Paired
      <4> QED BY <2>7, <4>2, <4>3
    <3>2. \A i \in R!Entries : RefAt(r, i) => r.mv[r.set[i].mv] # {}
      <4>1. SUFFICES ASSUME NEW i \in R!Entries, RefAt(r, i)
                     PROVE  m[d.set[i].mv] # {}
        BY <2>7
      <4>2. RefAt(d, i) /\ i # b
        BY <2>7, <4>1
      <4>3. d.set[i].mv # d.set[b].mv /\ d.mv[d.set[i].mv] # {} /\ d.set[i].mv \in R!Entries
        BY <2>4, <4>2 DEF Paired, Shape
      <4> QED BY <2>6, <4>3
    <3>3. \A i, j \in R!Entries :
            RefAt(r, i) /\ RefAt(r, j) /\ r.set[i].mv = r.set[j].mv => i = j
      BY <2>4, <2>7 DEF Paired
    <3> QED BY <3>1, <3>2, <3>3 DEF Paired
  <2>9. \A i \in R!Entries : RefAt(r, i) <=> i = a
    BY <2>3, <2>4, <2>7
  <2>10. Two(r)
    BY <2>4, <2>9 DEF Two
  <2>11. Kept(r)
    BY <2>7, <2>8, <2>10 DEF Kept
  <2>12. Alone
    BY <2>9
  <2>13. Stays
    <3>1. SUFFICES ASSUME NEW i \in R!Entries, RefAt(d, i),
                          \A j \in R!Entries : RefAt(d, j) => d.set[j].cnt <= d.set[i].cnt
                   PROVE  i = a
      BY <2>9
    <3>2. d.set[a].cnt <= d.set[i].cnt /\ d.set[i].cnt <= d.set[a].cnt
      BY <2>2, <2>4, <3>1
    <3>3. i \in R!Live(d) /\ a \in R!Live(d)
      BY <2>4, <3>1, MarkedFacts
    <3>4. d.set[a].cnt = d.set[i].cnt
      BY <2>4, <3>1, <3>2 DEF Shape
    <3> QED BY <2>4, <3>3, <3>4 DEF Placed
  <2>14. QED
    BY <2>7, <2>11, <2>12, <2>13 DEF r
<1> QED BY <1>2, <1>3

\* An entry is given by its fields.
LEMMA EntryFields ==
  ASSUME NEW c, NEW p, NEW m, NEW b, NEW e, e = [cnt |-> c, poc |-> p, mv |-> m, pic |-> b]
  PROVE  /\ e.cnt = c /\ e.poc = p /\ e.mv = m /\ e.pic = b
         /\ e = [cnt |-> e.cnt, poc |-> e.poc, mv |-> e.mv, pic |-> e.pic]
OBVIOUS

\* An entry is marked unused.
LEMMA EntryExcept ==
  ASSUME NEW c, NEW p, NEW m, NEW b, NEW e, NEW r,
         e = [cnt |-> c, poc |-> p, mv |-> m, pic |-> b],
         r = [e EXCEPT !.cnt = -1, !.poc = R!FarPoc]
  PROVE  r = [cnt |-> -1, poc |-> R!FarPoc, mv |-> m, pic |-> b]
OBVIOUS

\* The entries of a reference list are replaced.
LEMMA SetExcept ==
  ASSUME NEW s, NEW v, NEW q, NEW n, NEW d, NEW r,
         d = [set |-> s, mv |-> v, pic |-> q], r = [d EXCEPT !.set = n]
  PROVE  r = [set |-> n, mv |-> v, pic |-> q]
OBVIOUS

\* The entries whose picture nobody needs are given up: what is left in use is
\* marked.
LEMMA PurgeFacts ==
  ASSUME MaxRef \in Nat, NEW d, Kept(d)
  PROVE  LET r == R!Purge(d) IN
         /\ Kept(r) /\ r.mv = d.mv /\ r.pic = d.pic
         /\ \A i \in R!Entries :
              /\ i \in R!Live(r) <=> RefAt(d, i) \/ IoAt(d, i)
              /\ i \in R!Live(r) => i \in R!Live(d) /\ r.set[i] = d.set[i]
              /\ r.set[i].mv = d.set[i].mv
<1> DEFINE Needed(i) == d.pic[d.set[i].pic] \cap {"REF", "CODEC", "IO"} # {}
           left == [i \in R!Entries |->
             IF Needed(i) THEN d.set[i] ELSE [d.set[i] EXCEPT !.cnt = -1, !.poc = R!FarPoc]]
           r == R!Purge(d)
<1>1. /\ Records(d) /\ Shape(d) /\ Placed(d) /\ Paired(d) /\ Two(d)
      /\ d.pic \in [R!Entries -> Statuses]
  BY DEF Kept, Shape
<1>2. r = [set |-> left, mv |-> d.mv, pic |-> d.pic]
  <2>1. r = [d EXCEPT !.set = left]
    BY DEF R!Purge
  <2>2. d = [set |-> d.set, mv |-> d.mv, pic |-> d.pic]
    BY <1>1 DEF Records
  <2> HIDE DEF r, left
  <2> QED BY <2>1, <2>2, SetExcept
<1> HIDE DEF r
<1>3. \A i \in R!Entries :
        left[i] = IF Needed(i) THEN d.set[i]
                  ELSE [cnt |-> -1, poc |-> R!FarPoc, mv |-> d.set[i].mv, pic |-> d.set[i].pic]
  <2>1. SUFFICES ASSUME NEW i \in R!Entries
                 PROVE  left[i] = IF Needed(i) THEN d.set[i]
                          ELSE [cnt |-> -1, poc |-> R!FarPoc, mv |-> d.set[i].mv, pic |-> d.set[i].pic]
    OBVIOUS
  <2>2. PICK e : e = d.set[i]
    OBVIOUS
  <2>3. e = [cnt |-> e.cnt, poc |-> e.poc, mv |-> e.mv, pic |-> e.pic]
    BY <1>1, <2>2 DEF Records
  <2>4. PICK f : f = [e EXCEPT !.cnt = -1, !.poc = R!FarPoc]
    OBVIOUS
  <2>5. f = [cnt |-> -1, poc |-> R!FarPoc, mv |-> e.mv, pic |-> e.pic]
    BY <2>3, <2>4, EntryExcept
  <2>6. left[i] = IF Needed(i) THEN d.set[i] ELSE [d.set[i] EXCEPT !.cnt = -1, !.poc = R!FarPoc]
    BY Zenon
  <2>7. left[i] = IF Needed(i) THEN e ELSE f
    BY <2>2, <2>4, <2>6, Zenon
  <2> HIDE DEF left, Needed
  <2> QED BY <2>2, <2>5, <2>7, Zenon
<1>4. left = [i \in R!Entries |-> left[i]]
  OBVIOUS
<1> HIDE DEF left
<1>5. /\ r.set = left /\ r.mv = d.mv /\ r.pic = d.pic
  BY <1>2
<1>6. \A i \in R!Entries :
        /\ left[i].mv = d.set[i].mv /\ left[i].pic = d.set[i].pic
        /\ left[i].cnt = IF Needed(i) THEN d.set[i].cnt ELSE -1
        /\ left[i] = [cnt |-> left[i].cnt, poc |-> left[i].poc,
                      mv |-> left[i].mv, pic |-> left[i].pic]
  <2> HIDE DEF Needed
  <2>1. SUFFICES ASSUME NEW i \in R!Entries
                 PROVE  /\ left[i].mv = d.set[i].mv /\ left[i].pic = d.set[i].pic
                        /\ left[i].cnt = IF Needed(i) THEN d.set[i].cnt ELSE -1
                        /\ left[i] = [cnt |-> left[i].cnt, poc |-> left[i].poc,
                                      mv |-> left[i].mv, pic |-> left[i].pic]
    BY Zenon
  <2>2. CASE Needed(i)
    <3>1. left[i] = d.set[i]
      BY <1>3, <2>2
    <3> QED BY <1>1, <2>2, <3>1 DEF Records
  <2>3. CASE ~Needed(i)
    <3>1. left[i] = [cnt |-> -1, poc |-> R!FarPoc, mv |-> d.set[i].mv, pic |-> d.set[i].pic]
      BY <1>3, <2>3, Zenon
    <3> QED BY <2>3, <3>1, EntryFields
  <2> QED BY <2>2, <2>3
<1>7. \A i \in R!Entries : i \in R!Live(d) => (Needed(i) <=> RefAt(d, i) \/ IoAt(d, i))
  <2>1. SUFFICES ASSUME NEW i \in R!Entries, i \in R!Live(d)
                 PROVE  Needed(i) <=> RefAt(d, i) \/ IoAt(d, i)
    OBVIOUS
  <2>2. d.set[i].pic = Buf(i) /\ d.pic[Buf(i)] \in Statuses
    BY <1>1, <2>1, BufFacts DEF Placed
  <2>3. Needed(i) <=> d.pic[Buf(i)] # {}
    BY <2>2, StatusFacts
  <2> QED BY <2>2, <2>3, StatusFacts DEF RefAt, IoAt
<1>8. \A i \in R!Entries : i \in R!Live(r) <=> RefAt(d, i) \/ IoAt(d, i)
  <2>1. SUFFICES ASSUME NEW i \in R!Entries
                 PROVE  i \in R!Live(r) <=> RefAt(d, i) \/ IoAt(d, i)
    OBVIOUS
  <2>2. i \in R!Live(r) <=> i \in R!Live(d) /\ Needed(i)
    BY <1>5, <1>6, LiveIs
  <2>3. RefAt(d, i) \/ IoAt(d, i) => i \in R!Live(d)
    BY <1>1, MarkedFacts
  <2> QED BY <1>7, <2>2, <2>3
<1>9. \A i \in R!Entries : i \in R!Live(r) => i \in R!Live(d) /\ Needed(i) /\ r.set[i] = d.set[i]
  BY <1>3, <1>5, <1>6, LiveIs
<1>10. Shape(r)
  <2>1. Records(r)
    <3>1. \A i \in R!Entries : LET e == left[i] IN
            e = [cnt |-> e.cnt, poc |-> e.poc, mv |-> e.mv, pic |-> e.pic]
      BY <1>6, Zenon
    <3> HIDE DEF Needed
    <3> QED BY <1>2, <1>4, <1>5, <3>1, Zenon DEF Records
  <2>2. \A i \in R!Entries : LET e == r.set[i] IN
           e.cnt \in Nat \cup {-1} /\ e.mv \in R!Entries /\ e.pic \in R!Entries
    <3> HIDE DEF Needed
    <3> QED BY <1>1, <1>5, <1>6 DEF Shape
  <2> QED BY <1>1, <1>5, <2>1, <2>2 DEF Shape
<1>11. Placed(r)
  <2>1. \A i \in R!Live(r) : r.set[i].pic = Buf(i)
    BY <1>1, <1>9, LiveIs DEF Placed
  <2>2. \A i \in R!Entries : r.pic[Buf(i)] # {} => i \in R!Live(r)
    BY <1>1, <1>5, <1>8, BufFacts, StatusFacts DEF RefAt, IoAt
  <2>3. \A i, j \in R!Live(r) : r.set[i].cnt = r.set[j].cnt => i = j
    BY <1>1, <1>9, LiveIs DEF Placed
  <2> QED BY <2>1, <2>2, <2>3 DEF Placed
<1>12. \A i \in R!Entries : RefAt(r, i) <=> RefAt(d, i)
  BY <1>5 DEF RefAt
<1>13. \A i \in R!Entries : r.set[i].mv = d.set[i].mv
  BY <1>5, <1>6, Zenon
<1> HIDE DEF Needed
<1>14. Paired(r)
  BY <1>1, <1>5, <1>12, <1>13 DEF Paired
<1>15. Two(r)
  BY <1>1, <1>12 DEF Two
<1>16. Kept(r)
  BY <1>10, <1>11, <1>14, <1>15 DEF Kept
<1> QED BY <1>5, <1>8, <1>9, <1>13, <1>16 DEF r

\* The list when the next picture is to be entered.
Freed(d, type) == R!Purge(R!DiscardOlder(d, type))

\* What is left in use is marked, and the newest reference is left.
LEMMA FreedFacts ==
  ASSUME MaxRef \in Nat, NEW d, Kept(d), NEW type
  PROVE  LET r == Freed(d, type) IN
         /\ Kept(r)
         /\ \A i \in R!Entries :
              /\ RefAt(r, i) => RefAt(d, i)
              /\ IoAt(r, i) <=> IoAt(d, i)
              /\ i \in R!Live(r) <=> RefAt(r, i) \/ IoAt(r, i)
              /\ i \in R!Live(r) => i \in R!Live(d) /\ r.set[i] = d.set[i]
              /\ RefAt(d, i) /\ (\A j \in R!Entries : RefAt(d, j) => d.set[j].cnt <= d.set[i].cnt)
                   => RefAt(r, i)
         /\ type # "B" => \A i, j \in R!Entries : RefAt(r, i) /\ RefAt(r, j) => i = j
<1> DEFINE q == R!DiscardOlder(d, type)
           r == Freed(d, type)
<1>1. /\ Kept(q) /\ q.set = d.set
      /\ \A i \in R!Entries :
              /\ RefAt(q, i) => RefAt(d, i)
              /\ IoAt(q, i) <=> IoAt(d, i)
              /\ RefAt(d, i) /\ (\A j \in R!Entries : RefAt(d, j) => d.set[j].cnt <= d.set[i].cnt)
                   => RefAt(q, i)
      /\ type # "B" => \A i, j \in R!Entries : RefAt(q, i) /\ RefAt(q, j) => i = j
  BY DiscardFacts
<1> HIDE DEF q
<1>2. r = R!Purge(q)
  BY DEF Freed, q
<1>3. /\ Kept(r) /\ r.mv = q.mv /\ r.pic = q.pic
      /\ \A i \in R!Entries :
              /\ i \in R!Live(r) <=> RefAt(q, i) \/ IoAt(q, i)
              /\ i \in R!Live(r) => i \in R!Live(q) /\ r.set[i] = q.set[i]
  <2> HIDE DEF r
  <2> QED BY <1>1, <1>2, PurgeFacts
<1> HIDE DEF r
<1>4. \A i \in R!Entries : (RefAt(r, i) <=> RefAt(q, i)) /\ (IoAt(r, i) <=> IoAt(q, i))
  BY <1>3 DEF RefAt, IoAt
<1>5. R!Live(q) = R!Live(d)
  BY <1>1, LiveIs
<1> QED BY <1>1, <1>3, <1>4, <1>5 DEF r

\* Taking a buffer and marking it.
LEMMA TakeFacts ==
  ASSUME NEW m, m = [x \in R!Entries |-> m[x]], NEW b \in R!Entries, NEW s, NEW flag
  PROVE  R!B!SetStatus([m EXCEPT ![b] = s], b, flag) = [m EXCEPT ![b] = s \cup {flag}]
BY DEF R!B!SetStatus

\* There is a motion vector buffer for the next picture.
LEMMA MvFree ==
  ASSUME MaxRef \in Nat \ {0}, NEW d, Kept(d), NEW type, type = "B" => MaxRef >= 2
  PROVE  \E b \in R!Entries : Freed(d, type).mv[b] = {}
<1> DEFINE r == Freed(d, type)
<1>1. Paired(r) /\ Two(r)
  BY FreedFacts DEF Kept
<1>2. type # "B" => \A i, j \in R!Entries : RefAt(r, i) /\ RefAt(r, j) => i = j
  BY FreedFacts
<1> HIDE DEF r
<1>3. \A b \in R!Entries :
        r.mv[b] # {} => \E i \in R!Entries : RefAt(r, i) /\ r.set[i].mv = b
  BY <1>1 DEF Paired
<1>4. 0 \in R!Entries /\ 1 \in R!Entries /\ (MaxRef >= 2 => 2 \in R!Entries)
  BY EntriesAre
<1>5. CASE type # "B"
  <2>1. SUFFICES ASSUME r.mv[0] # {}, r.mv[1] # {} PROVE FALSE
    BY <1>4 DEF r
  <2>2. PICK i \in R!Entries : RefAt(r, i) /\ r.set[i].mv = 0
    BY <1>3, <1>4, <2>1
  <2>3. PICK j \in R!Entries : RefAt(r, j) /\ r.set[j].mv = 1
    BY <1>3, <1>4, <2>1
  <2> QED BY <1>2, <1>5, <2>2, <2>3
<1>6. CASE type = "B"
  <2>1. SUFFICES ASSUME r.mv[0] # {}, r.mv[1] # {}, r.mv[2] # {} PROVE FALSE
    BY <1>4, <1>6 DEF r
  <2>2. PICK i \in R!Entries : RefAt(r, i) /\ r.set[i].mv = 0
    BY <1>3, <1>4, <2>1
  <2>3. PICK j \in R!Entries : RefAt(r, j) /\ r.set[j].mv = 1
    BY <1>3, <1>4, <2>1
  <2>4. PICK k \in R!Entries : RefAt(r, k) /\ r.set[k].mv = 2
    BY <1>3, <1>4, <1>6, <2>1
  <2>5. PICK a \in R!Entries : \E s \in R!Entries :
          \A x \in R!Entries : RefAt(r, x) => x \in {a, s}
    BY <1>1 DEF Two
  <2>6. PICK s \in R!Entries : \A x \in R!Entries : RefAt(r, x) => x \in {a, s}
    BY <2>5
  <2>7. i # j /\ j # k /\ i # k
    BY <2>2, <2>3, <2>4
  <2> QED BY <2>2, <2>3, <2>4, <2>6, <2>7
<1> QED BY <1>5, <1>6

\* The buffer that is taken is the one that goes with the entry.
LEMMA SameBuffer ==
  ASSUME MaxRef \in Nat, NEW d, Kept(d),
         \A i \in R!Entries : i \in R!Live(d) <=> RefAt(d, i) \/ IoAt(d, i),
         R!Live(d) # R!Entries
  PROVE  /\ R!UnusedEntry(d) \in R!Entries \ R!Live(d)
         /\ R!B!HasFree(d.pic) /\ R!B!NextFree(d.pic) = Buf(R!UnusedEntry(d))
<1> DEFINE U == R!Entries \ R!Live(d)
           F == R!B!FreeBufs(d.pic)
           u == R!UnusedEntry(d)
           b == R!B!NextFree(d.pic)
<1>1. R!Live(d) \subseteq R!Entries /\ R!Entries = 0..MaxRef
  BY LiveIs, EntriesAre
<1>2. u = Max(U) /\ b = Min(F)
  BY DEF R!UnusedEntry, R!B!NextFree, R!Max, R!B!Min, Max, Min
<1>3. U # {} /\ U \subseteq 0..MaxRef
  BY <1>1
<1>4. u \in U /\ \A j \in U : j <= u
  <2> HIDE DEF U, u
  <2> QED BY <1>2, <1>3, MaxFacts
<1>5. \A x \in R!Entries : x \in F <=> Buf(x) \in U
  <2>1. SUFFICES ASSUME NEW x \in R!Entries PROVE x \in F <=> Buf(x) \in U
    OBVIOUS
  <2>2. Buf(x) \in R!Entries /\ Buf(Buf(x)) = x
    BY BufFacts
  <2>3. d.pic[x] \in Statuses
    BY DEF Kept, Shape
  <2>4. Buf(x) \in R!Live(d) <=> "REF" \in d.pic[x] \/ "IO" \in d.pic[x]
    BY <2>2 DEF RefAt, IoAt
  <2> QED BY <2>2, <2>3, <2>4, StatusFacts DEF R!B!FreeBufs
<1>6. F \subseteq R!Entries
  BY DEF R!B!FreeBufs
<1> HIDE DEF U, F, u, b
<1>7. Buf(u) \in F
  <2>1. u \in R!Entries
    BY <1>1, <1>3, <1>4
  <2> QED BY <1>4, <1>5, <2>1, BufFacts
<1>8. b \in F /\ \A x \in F : b <= x
  <2>1. F \subseteq Nat /\ F # {}
    BY <1>1, <1>6, <1>7
  <2> QED BY <1>2, <2>1, MinFacts
<1>9. b = Buf(u)
  <2>1. b \in R!Entries /\ u \in R!Entries
    BY <1>1, <1>3, <1>4, <1>6, <1>8
  <2>2. Buf(b) \in U
    BY <1>5, <1>8, <2>1
  <2>3. Buf(b) <= u /\ b <= Buf(u)
    BY <1>4, <1>7, <1>8, <2>2
  <2> QED BY <1>1, <2>1, <2>3 DEF Buf
<1> QED BY <1>4, <1>7, <1>9 DEF U, F, u, b, R!B!HasFree

\* The picture in entry u, with motion vectors in buffer v, whose buffers have the
\* statuses sm and sp.
With(d, u, v, cnt, poc, sm, sp) ==
  [set |-> [d.set EXCEPT ![u] = [cnt |-> cnt, poc |-> poc, mv |-> v, pic |-> Buf(u)]],
   mv |-> [d.mv EXCEPT ![v] = sm],
   pic |-> [d.pic EXCEPT ![Buf(u)] = sp]]

\* The picture gets an entry, a motion vector buffer and the picture buffer of the
\* entry, when there is an entry for it.
Entered(d, u, v, cnt, poc, isRef, recon) ==
  With(d, u, v, cnt, poc, Taken(isRef, FALSE), Taken(isRef, recon))

\* What the setup of a picture returns: an error when every entry is in use, and
\* otherwise the list with the picture.
Outcome(d, n, cnt, poc, isRef, recon) ==
  /\ R!Live(d) = R!Entries => n.err = "ASSERT" /\ n.refs = d
  /\ R!Live(d) # R!Entries =>
       /\ n.err = "none"
       /\ \E u \in R!Entries, v \in R!Entries :
            /\ u \notin R!Live(d) /\ d.mv[v] = {}
            /\ n.refs = Entered(d, u, v, cnt, poc, isRef, recon)

\* ih264e_pic_init.
LEMMA NewPictureFacts ==
  ASSUME MaxRef \in Nat \ {0}, NEW d0, Kept(d0), NEW type, type = "B" => MaxRef >= 2,
         NEW cnt, NEW poc, NEW isRef \in BOOLEAN, NEW recon \in BOOLEAN
  PROVE  Outcome(Freed(d0, type), R!NewPicture(d0, type, cnt, poc, isRef, recon),
                 cnt, poc, isRef, recon)
<1> DEFINE d == Freed(d0, type)
           n == R!NewPicture(d0, type, cnt, poc, isRef, recon)
           mark(m, flag, on) == IF on THEN R!B!SetStatus(m, flag[1], flag[2]) ELSE m
           mvId == R!B!NextFree(d.mv)
           picId == R!B!NextFree(d.pic)
           mv == mark(R!B!Take(d.mv), <<mvId, "REF">>, isRef)
           pic == mark(mark(R!B!Take(d.pic), <<picId, "REF">>, isRef),
                       <<picId, "IO">>, recon)
           u == R!UnusedEntry(d)
<1>1. n = CASE R!Live(d) = R!Entries -> [err |-> "ASSERT", refs |-> d]
            [] R!Live(d) # R!Entries /\ ~R!B!HasFree(d.mv) ->
                 [err |-> "NO_FREE_MVBANK", refs |-> d]
            [] R!Live(d) # R!Entries /\ R!B!HasFree(d.mv) /\ ~R!B!HasFree(d.pic) ->
                 [err |-> "NO_FREE_PICBUF", refs |-> [d EXCEPT !.mv = mv]]
            [] OTHER ->
                 [err |-> "none",
                  refs |-> [set |-> [d.set EXCEPT ![u] =
                              [cnt |-> cnt, poc |-> poc, mv |-> mvId, pic |-> picId]],
                            mv |-> mv, pic |-> pic]]
  BY DEF R!NewPicture, Freed
<1>2. /\ Kept(d) /\ Shape(d)
      /\ \A i \in R!Entries : i \in R!Live(d) <=> RefAt(d, i) \/ IoAt(d, i)
      /\ \E b \in R!Entries : d.mv[b] = {}
  BY FreedFacts, MvFree DEF Kept
<1> SUFFICES Outcome(d, n, cnt, poc, isRef, recon)
  OBVIOUS
<1> HIDE DEF d
<1>3. CASE R!Live(d) = R!Entries
  <2>1. n = [err |-> "ASSERT", refs |-> d]
    BY <1>1, <1>3
  <2> HIDE DEF n
  <2>2. n.err = "ASSERT" /\ n.refs = d
    BY <2>1
  <2> QED BY <1>3, <2>2 DEF Outcome
<1>4. CASE R!Live(d) # R!Entries
  <2>1. u \in R!Entries \ R!Live(d) /\ R!B!HasFree(d.pic) /\ picId = Buf(u)
    BY <1>2, <1>4, SameBuffer
  <2>2. R!B!HasFree(d.mv) /\ mvId \in R!Entries /\ d.mv[mvId] = {}
    <3> DEFINE F == R!B!FreeBufs(d.mv)
    <3>1. F = {b \in R!Entries : d.mv[b] = {}}
      BY DEF R!B!FreeBufs
    <3>2. F # {} /\ F \subseteq Nat
      BY <1>2, <3>1, EntriesAre
    <3>3. mvId = Min(F)
      BY DEF R!B!NextFree, R!B!Min, Min
    <3> HIDE DEF F
    <3>4. Min(F) \in F
      BY <3>2, MinFacts
    <3> HIDE DEF mvId
    <3> QED BY <3>1, <3>2, <3>3, <3>4 DEF R!B!HasFree, F
  <2>3. n = [err |-> "none",
             refs |-> [set |-> [d.set EXCEPT ![u] =
                         [cnt |-> cnt, poc |-> poc, mv |-> mvId, pic |-> picId]],
                       mv |-> mv, pic |-> pic]]
    <3> HIDE DEF mv, pic, u, mvId, picId, n
    <3> QED BY <1>1, <1>4, <2>1, <2>2
  <2>4. /\ d.mv = [x \in R!Entries |-> d.mv[x]] /\ d.pic = [x \in R!Entries |-> d.pic[x]]
        /\ Buf(u) \in R!Entries
    BY <1>2, <2>1, BufFacts DEF Shape
  <2>5. mv = [d.mv EXCEPT ![mvId] = Taken(isRef, FALSE)]
    <3>1. R!B!Take(d.mv) = [d.mv EXCEPT ![mvId] = {"busy"}]
      BY DEF R!B!Take
    <3> HIDE DEF mvId
    <3>2. \A s, flag : R!B!SetStatus([d.mv EXCEPT ![mvId] = s], mvId, flag)
            = [d.mv EXCEPT ![mvId] = s \cup {flag}]
      BY <2>2, <2>4, TakeFacts
    <3>3. Taken(isRef, FALSE) = IF isRef THEN {"busy"} \cup {"REF"} ELSE {"busy"}
      BY DEF Taken
    <3>4. CASE isRef
      <4>1. mv = R!B!SetStatus(R!B!Take(d.mv), mvId, "REF")
        BY <3>4
      <4> HIDE DEF mv
      <4>2. mv = [d.mv EXCEPT ![mvId] = {"busy"} \cup {"REF"}]
        BY <3>1, <3>2, <4>1
      <4> QED BY <3>3, <3>4, <4>2
    <3>5. CASE ~isRef
      <4>1. mv = R!B!Take(d.mv)
        BY <3>5
      <4> QED BY <3>1, <3>3, <3>5, <4>1
    <3> QED BY <3>4, <3>5
  <2>6. pic = [d.pic EXCEPT ![Buf(u)] = Taken(isRef, recon)]
    <3>1. R!B!Take(d.pic) = [d.pic EXCEPT ![picId] = {"busy"}]
      BY DEF R!B!Take
    <3>2. picId \in R!Entries
      BY <2>1, <2>4
    <3> HIDE DEF picId
    <3>3. \A s, flag : R!B!SetStatus([d.pic EXCEPT ![picId] = s], picId, flag)
            = [d.pic EXCEPT ![picId] = s \cup {flag}]
      BY <2>4, <3>2, TakeFacts
    <3> DEFINE one == IF isRef THEN R!B!SetStatus(R!B!Take(d.pic), picId, "REF")
                      ELSE R!B!Take(d.pic)
               had == IF isRef THEN {"busy"} \cup {"REF"} ELSE {"busy"}
    <3>4. one = [d.pic EXCEPT ![picId] = had]
      <4>1. CASE isRef
        BY <3>1, <3>3, <4>1
      <4>2. CASE ~isRef
        BY <3>1, <4>2
      <4> QED BY <4>1, <4>2
    <3>5. Taken(isRef, recon) = IF recon THEN had \cup {"IO"} ELSE had
      BY DEF Taken
    <3>6. pic = IF recon THEN R!B!SetStatus(one, picId, "IO") ELSE one
      OBVIOUS
    <3>7. pic = [d.pic EXCEPT ![picId] = Taken(isRef, recon)]
      <4> HIDE DEF pic, one, had
      <4>1. CASE recon
        BY <3>3, <3>4, <3>5, <3>6, <4>1
      <4>2. CASE ~recon
        BY <3>4, <3>5, <3>6, <4>2
      <4> QED BY <4>1, <4>2
    <3> HIDE DEF pic
    <3> QED BY <2>1, <3>7
  <2> HIDE DEF mv, pic, u, mvId, picId, n
  <2>7. n.err = "none" /\ n.refs = Entered(d, u, mvId, cnt, poc, isRef, recon)
    <3> DEFINE e == Entered(d, u, mvId, cnt, poc, isRef, recon)
    <3>1. n = [err |-> "none", refs |-> e]
      BY <2>1, <2>3, <2>5, <2>6 DEF Entered, With
    <3> HIDE DEF e
    <3>2. n.err = "none" /\ n.refs = e
      BY <3>1
    <3> QED BY <3>2 DEF e
  <2> QED BY <1>4, <2>1, <2>2, <2>7 DEF Outcome
<1> QED BY <1>3, <1>4

Built(x) ==
  /\ x = [set |-> x.set, mv |-> x.mv, pic |-> x.pic]
  /\ x.set = [i \in R!Entries |-> x.set[i]]
  /\ x.mv = [b \in R!Entries |-> x.mv[b]]
  /\ x.pic = [b \in R!Entries |-> x.pic[b]]

\* The fields of the list with the picture.
LEMMA WithParts ==
  ASSUME MaxRef \in Nat, NEW d, Shape(d), NEW u \in R!Entries, NEW v \in R!Entries,
         NEW cnt, NEW poc, NEW sm, NEW sp
  PROVE  LET x == With(d, u, v, cnt, poc, sm, sp) IN
         /\ Built(x)
         /\ x.set[u] = [cnt |-> cnt, poc |-> poc, mv |-> v, pic |-> Buf(u)]
         /\ \A i \in R!Entries : i # u => x.set[i] = d.set[i]
         /\ x.mv[v] = sm /\ \A b \in R!Entries : b # v => x.mv[b] = d.mv[b]
         /\ x.pic[Buf(u)] = sp
         /\ \A b \in R!Entries : b # Buf(u) => x.pic[b] = d.pic[b]
<1> DEFINE s == [d.set EXCEPT ![u] = [cnt |-> cnt, poc |-> poc, mv |-> v, pic |-> Buf(u)]]
           m == [d.mv EXCEPT ![v] = sm]
           p == [d.pic EXCEPT ![Buf(u)] = sp]
           x == With(d, u, v, cnt, poc, sm, sp)
<1>1. /\ d.set = [i \in R!Entries |-> d.set[i]] /\ d.mv = [i \in R!Entries |-> d.mv[i]]
      /\ d.pic = [i \in R!Entries |-> d.pic[i]] /\ Buf(u) \in R!Entries
  BY BufFacts DEF Shape, Records
<1>2. /\ s = [i \in R!Entries |-> s[i]]
      /\ s[u] = [cnt |-> cnt, poc |-> poc, mv |-> v, pic |-> Buf(u)]
      /\ \A i \in R!Entries : i # u => s[i] = d.set[i]
  BY <1>1
<1>3. /\ m = [b \in R!Entries |-> m[b]] /\ m[v] = sm
      /\ \A b \in R!Entries : b # v => m[b] = d.mv[b]
  BY <1>1
<1>4. /\ p = [b \in R!Entries |-> p[b]] /\ p[Buf(u)] = sp
      /\ \A b \in R!Entries : b # Buf(u) => p[b] = d.pic[b]
  BY <1>1
<1>5. x = [set |-> s, mv |-> m, pic |-> p]
  BY DEF With
<1> HIDE DEF s, m, p, x
<1>6. x.set = s /\ x.mv = m /\ x.pic = p
  BY <1>5
<1>7. Built(x)
  BY <1>2, <1>3, <1>4, <1>5, <1>6, Zenon DEF Built
<1> QED BY <1>2, <1>3, <1>4, <1>6, <1>7 DEF x

\* Which entries are in use, and how they are marked.
LEMMA WithMarks ==
  ASSUME MaxRef \in Nat, NEW d, Shape(d), NEW u \in R!Entries, NEW v \in R!Entries,
         NEW cnt \in Nat, NEW poc, NEW sm, NEW sp
  PROVE  LET x == With(d, u, v, cnt, poc, sm, sp) IN
         /\ R!Live(x) = R!Live(d) \cup {u}
         /\ \A i \in R!Entries :
              /\ RefAt(x, i) <=> IF i = u THEN "REF" \in sp ELSE RefAt(d, i)
              /\ IoAt(x, i) <=> IF i = u THEN "IO" \in sp ELSE IoAt(d, i)
         /\ \A i \in R!Entries :
              /\ x.set[i].cnt = IF i = u THEN cnt ELSE d.set[i].cnt
              /\ x.set[i].poc = IF i = u THEN poc ELSE d.set[i].poc
              /\ x.set[i].mv = IF i = u THEN v ELSE d.set[i].mv
              /\ x.set[i].pic = IF i = u THEN Buf(u) ELSE d.set[i].pic
<1> DEFINE x == With(d, u, v, cnt, poc, sm, sp)
<1>1. /\ x.set[u] = [cnt |-> cnt, poc |-> poc, mv |-> v, pic |-> Buf(u)]
      /\ \A i \in R!Entries : i # u => x.set[i] = d.set[i]
      /\ x.pic[Buf(u)] = sp
      /\ \A b \in R!Entries : b # Buf(u) => x.pic[b] = d.pic[b]
  BY WithParts
<1> HIDE DEF x
<1>2. \A i \in R!Entries :
        /\ x.set[i].cnt = IF i = u THEN cnt ELSE d.set[i].cnt
        /\ x.set[i].poc = IF i = u THEN poc ELSE d.set[i].poc
        /\ x.set[i].mv = IF i = u THEN v ELSE d.set[i].mv
        /\ x.set[i].pic = IF i = u THEN Buf(u) ELSE d.set[i].pic
  <2>1. x.set[u].cnt = cnt /\ x.set[u].poc = poc /\ x.set[u].mv = v /\ x.set[u].pic = Buf(u)
    <3>1. PICK e : e = x.set[u]
      OBVIOUS
    <3>2. e = [cnt |-> cnt, poc |-> poc, mv |-> v, pic |-> Buf(u)]
      BY <1>1, <3>1
    <3> QED BY <3>1, <3>2, EntryFields
  <2> QED BY <1>1, <2>1
<1>3. R!Live(x) = R!Live(d) \cup {u}
  BY <1>2, LiveIs
<1>4. \A i \in R!Entries : Buf(i) \in R!Entries /\ (Buf(i) = Buf(u) => i = u)
  BY BufFacts
<1>5. \A i \in R!Entries :
              /\ RefAt(x, i) <=> IF i = u THEN "REF" \in sp ELSE RefAt(d, i)
              /\ IoAt(x, i) <=> IF i = u THEN "IO" \in sp ELSE IoAt(d, i)
  BY <1>1, <1>4 DEF RefAt, IoAt
<1> QED BY <1>2, <1>3, <1>5 DEF x

\* What is kept for prediction has motion vectors.
LEMMA KeptTracks ==
  ASSUME MaxRef \in Nat, NEW d, Kept(d)
  PROVE  R!MvTracks(d)
<1>1. R!Marked(d, "REF") = {i \in R!Entries : RefAt(d, i)}
  BY MarkedFacts DEF Kept
<1>2. Shape(d) /\ Paired(d)
  BY DEF Kept
<1>3. \A i \in R!Marked(d, "REF") : "REF" \in d.mv[d.set[i].mv]
  <2>1. SUFFICES ASSUME NEW i \in R!Entries, RefAt(d, i)
                 PROVE  "REF" \in d.mv[d.set[i].mv]
    BY <1>1
  <2>2. d.mv[d.set[i].mv] \in {{}, {"busy", "REF"}} /\ d.mv[d.set[i].mv] # {}
    BY <1>2, <2>1 DEF Shape, Paired
  <2> QED BY <2>2
<1> QED BY <1>1, <1>2, <1>3 DEF R!MvTracks, Paired

\* The picture has motion vectors of its own when it is a reference.
LEMMA WithTracks ==
  ASSUME MaxRef \in Nat, NEW d, Kept(d), NEW u \in R!Entries, NEW v \in R!Entries,
         u \notin R!Live(d), d.mv[v] = {}, NEW cnt \in Nat, NEW poc, NEW sm, NEW sp,
         "REF" \in sp => "REF" \in sm
  PROVE  R!MvTracks(With(d, u, v, cnt, poc, sm, sp))
<1> DEFINE x == With(d, u, v, cnt, poc, sm, sp)
<1>1. Shape(d) /\ Placed(d) /\ Paired(d)
  BY DEF Kept
<1>2. /\ R!Live(x) = R!Live(d) \cup {u}
      /\ \A i \in R!Entries : RefAt(x, i) <=> IF i = u THEN "REF" \in sp ELSE RefAt(d, i)
      /\ \A i \in R!Entries :
           /\ x.set[i].mv = IF i = u THEN v ELSE d.set[i].mv
           /\ x.set[i].pic = IF i = u THEN Buf(u) ELSE d.set[i].pic
  BY <1>1, WithMarks
<1>3. /\ Built(x)
      /\ x.set[u] = [cnt |-> cnt, poc |-> poc, mv |-> v, pic |-> Buf(u)]
      /\ \A i \in R!Entries : i # u => x.set[i] = d.set[i]
      /\ x.mv[v] = sm /\ \A b \in R!Entries : b # v => x.mv[b] = d.mv[b]
  BY <1>1, WithParts
<1> HIDE DEF x
<1>4. \A i \in R!Live(x) : i \in R!Entries /\ x.set[i].pic = Buf(i)
  BY <1>1, <1>2, LiveIs DEF Placed
<1>5. \A i \in R!Marked(x, "REF") :
        /\ i \in R!Entries
        /\ IF i = u THEN "REF" \in sp ELSE RefAt(d, i)
  BY <1>2, <1>4 DEF R!Marked, RefAt
<1>6. \A i \in R!Entries : RefAt(d, i) =>
        /\ d.set[i].mv \in R!Entries /\ d.set[i].mv # v /\ "REF" \in d.mv[d.set[i].mv]
  <2>1. SUFFICES ASSUME NEW i \in R!Entries, RefAt(d, i)
                 PROVE  /\ d.set[i].mv \in R!Entries /\ d.set[i].mv # v
                        /\ "REF" \in d.mv[d.set[i].mv]
    OBVIOUS
  <2>2. d.set[i].mv \in R!Entries /\ d.mv[d.set[i].mv] # {}
    BY <1>1, <2>1 DEF Shape, Paired
  <2>3. d.mv[d.set[i].mv] \in {{}, {"busy", "REF"}}
    BY <1>1, <2>2 DEF Shape
  <2> QED BY <2>2, <2>3
<1>7. \A i \in R!Marked(x, "REF") : "REF" \in x.mv[x.set[i].mv]
  BY <1>2, <1>3, <1>5, <1>6
<1>8. \A i, j \in R!Marked(x, "REF") : x.set[i].mv = x.set[j].mv => i = j
  BY <1>1, <1>2, <1>5, <1>6 DEF Paired
<1> QED BY <1>7, <1>8 DEF R!MvTracks, x

\* The list with the picture is right again.
LEMMA WithKept ==
  ASSUME MaxRef \in Nat, NEW d, Kept(d), NEW u \in R!Entries, NEW v \in R!Entries,
         u \notin R!Live(d), d.mv[v] = {},
         NEW cnt \in Nat, \A i \in R!Live(d) : d.set[i].cnt < cnt, NEW poc,
         NEW sm \in {{}, {"busy", "REF"}}, NEW sp \in Statuses, "REF" \in sp <=> sm # {},
         "REF" \in sp => \A i, j \in R!Entries : RefAt(d, i) /\ RefAt(d, j) => i = j
  PROVE  Kept(With(d, u, v, cnt, poc, sm, sp))
<1> DEFINE x == With(d, u, v, cnt, poc, sm, sp)
<1>1. Shape(d) /\ Records(d) /\ Placed(d) /\ Paired(d) /\ Two(d)
  BY DEF Kept, Shape
<1>2. /\ R!Live(x) = R!Live(d) \cup {u}
      /\ \A i \in R!Entries : RefAt(x, i) <=> IF i = u THEN "REF" \in sp ELSE RefAt(d, i)
      /\ \A i \in R!Entries :
              /\ x.set[i].cnt = IF i = u THEN cnt ELSE d.set[i].cnt
              /\ x.set[i].mv = IF i = u THEN v ELSE d.set[i].mv
              /\ x.set[i].pic = IF i = u THEN Buf(u) ELSE d.set[i].pic
  BY <1>1, WithMarks
<1>3. /\ Built(x)
      /\ x.set[u] = [cnt |-> cnt, poc |-> poc, mv |-> v, pic |-> Buf(u)]
      /\ \A i \in R!Entries : i # u => x.set[i] = d.set[i]
      /\ x.mv[v] = sm /\ \A b \in R!Entries : b # v => x.mv[b] = d.mv[b]
      /\ x.pic[Buf(u)] = sp
      /\ \A b \in R!Entries : b # Buf(u) => x.pic[b] = d.pic[b]
  BY <1>1, WithParts
<1> HIDE DEF x
<1>4. \A i \in R!Entries : Buf(i) \in R!Entries /\ (Buf(i) = Buf(u) => i = u)
  BY BufFacts
<1>5. Shape(x)
  <2>1. \A i \in R!Entries : LET e == x.set[i] IN
          e = [cnt |-> e.cnt, poc |-> e.poc, mv |-> e.mv, pic |-> e.pic]
    <3>1. SUFFICES ASSUME NEW i \in R!Entries
                   PROVE  LET e == x.set[i] IN
                            e = [cnt |-> e.cnt, poc |-> e.poc, mv |-> e.mv, pic |-> e.pic]
      BY Zenon
    <3>2. PICK e : e = x.set[i]
      OBVIOUS
    <3>3. CASE i = u
      <4>1. e = [cnt |-> cnt, poc |-> poc, mv |-> v, pic |-> Buf(u)]
        BY <1>3, <3>2, <3>3
      <4>2. e = [cnt |-> e.cnt, poc |-> e.poc, mv |-> e.mv, pic |-> e.pic]
        BY <4>1, EntryFields
      <4> QED BY <3>2, <4>2, Zenon
    <3>4. CASE i # u
      <4>1. x.set[i] = d.set[i]
        BY <1>3, <3>4
      <4> QED BY <1>1, <4>1, Zenon DEF Records
    <3> QED BY <3>3, <3>4
  <2>2. Records(x)
    BY <1>3, <2>1, Zenon DEF Records, Built
  <2>3. \A i \in R!Entries : LET e == x.set[i] IN
          e.cnt \in Nat \cup {-1} /\ e.mv \in R!Entries /\ e.pic \in R!Entries
    <3>1. \A i \in R!Entries :
            /\ d.set[i].cnt \in Nat \cup {-1} /\ d.set[i].mv \in R!Entries
            /\ d.set[i].pic \in R!Entries
      BY <1>1 DEF Shape
    <3> QED BY <1>2, <1>4, <3>1
  <2>4. x.mv \in [R!Entries -> {{}, {"busy", "REF"}}]
    <3>1. \A b \in R!Entries : x.mv[b] \in {{}, {"busy", "REF"}}
      BY <1>1, <1>3 DEF Shape
    <3>2. x.mv = [b \in R!Entries |-> x.mv[b]]
      BY <1>3 DEF Built
    <3> QED BY <3>1, <3>2
  <2>5. x.pic \in [R!Entries -> Statuses]
    <3>1. \A b \in R!Entries : x.pic[b] \in Statuses
      BY <1>1, <1>3 DEF Shape
    <3>2. x.pic = [b \in R!Entries |-> x.pic[b]]
      BY <1>3 DEF Built
    <3> QED BY <3>1, <3>2
  <2> QED BY <2>2, <2>3, <2>4, <2>5 DEF Shape
<1>6. Placed(x)
  <2>1. \A i \in R!Live(x) : x.set[i].pic = Buf(i)
    BY <1>1, <1>2, LiveIs DEF Placed
  <2>2. \A i \in R!Entries : x.pic[Buf(i)] # {} => i \in R!Live(x)
    BY <1>1, <1>2, <1>3, <1>4 DEF Placed
  <2>3. \A i, j \in R!Live(x) : x.set[i].cnt = x.set[j].cnt => i = j
    <3>1. \A i \in R!Live(d) : i \in R!Entries /\ i # u /\ d.set[i].cnt \in Int /\ d.set[i].cnt < cnt
      BY <1>1, LiveIs DEF Shape
    <3>2. \A i, j \in R!Live(d) : d.set[i].cnt = d.set[j].cnt => i = j
      BY <1>1 DEF Placed
    <3> QED BY <1>2, <3>1, <3>2
  <2> QED BY <2>1, <2>2, <2>3 DEF Placed
<1>7. \A i \in R!Entries : RefAt(d, i) =>
        i # u /\ d.set[i].mv \in R!Entries /\ d.set[i].mv # v
  BY <1>1, MarkedFacts DEF Shape, Paired
<1>8. Paired(x)
  <2>1. \A b \in R!Entries :
          x.mv[b] # {} => \E i \in R!Entries : RefAt(x, i) /\ x.set[i].mv = b
    <3>1. SUFFICES ASSUME NEW b \in R!Entries, x.mv[b] # {}
                   PROVE  \E i \in R!Entries : RefAt(x, i) /\ x.set[i].mv = b
      OBVIOUS
    <3>2. CASE b = v
      BY <1>2, <1>3, <3>1, <3>2
    <3>3. CASE b # v
      <4>1. PICK i \in R!Entries : RefAt(d, i) /\ d.set[i].mv = b
        BY <1>1, <1>3, <3>1, <3>3 DEF Paired
      <4> QED BY <1>2, <1>7, <4>1
    <3> QED BY <3>2, <3>3
  <2>2. \A i \in R!Entries : RefAt(x, i) => x.mv[x.set[i].mv] # {}
    BY <1>1, <1>2, <1>3, <1>7 DEF Paired
  <2>3. \A i, j \in R!Entries :
          RefAt(x, i) /\ RefAt(x, j) /\ x.set[i].mv = x.set[j].mv => i = j
    BY <1>1, <1>2, <1>7 DEF Paired
  <2> QED BY <2>1, <2>2, <2>3 DEF Paired
<1>9. Two(x)
  <2>1. CASE "REF" \in sp
    <3>1. CASE \E r \in R!Entries : RefAt(d, r)
      <4>1. PICK r \in R!Entries : RefAt(d, r)
        BY <3>1
      <4>2. \A i \in R!Entries : RefAt(x, i) => i \in {r, u}
        BY <1>2, <2>1, <4>1
      <4> QED BY <4>1, <4>2 DEF Two
    <3>2. CASE ~\E r \in R!Entries : RefAt(d, r)
      <4>1. \A i \in R!Entries : RefAt(x, i) => i \in {u, u}
        BY <1>2, <3>2
      <4> QED BY <4>1 DEF Two
    <3> QED BY <3>1, <3>2
  <2>2. CASE "REF" \notin sp
    <3>1. \A i \in R!Entries : RefAt(x, i) => RefAt(d, i)
      BY <1>2, <2>2
    <3> QED BY <1>1, <3>1 DEF Two
  <2> QED BY <2>1, <2>2
<1> QED BY <1>5, <1>6, <1>8, <1>9 DEF Kept, x

\* The thread that codes the last row lets go of the picture it belongs to.
LEMMA DoneFacts ==
  ASSUME MaxRef \in Nat, NEW d, Kept(d), NEW u \in R!Entries, NEW v \in R!Entries,
         u \notin R!Live(d), NEW cnt \in Nat, \A i \in R!Live(d) : d.set[i].cnt < cnt, NEW poc,
         NEW sm, NEW sp
  PROVE  R!LastRowDone(With(d, u, v, cnt, poc, sm, sp), cnt)
           = With(d, u, v, cnt, poc, Unmark(sm, "CODEC"), Unmark(sp, "CODEC"))
<1> DEFINE n == With(d, u, v, cnt, poc, sm, sp)
           i0 == CHOOSE i \in R!Entries : n.set[i].cnt = cnt
           e == n.set[i0]
           s == [d.set EXCEPT ![u] = [cnt |-> cnt, poc |-> poc, mv |-> v, pic |-> Buf(u)]]
           m == [d.mv EXCEPT ![v] = sm]
           p == [d.pic EXCEPT ![Buf(u)] = sp]
           r == R!LastRowDone(n, cnt)
<1>1. Shape(d)
  BY DEF Kept
<1>2. \A i \in R!Entries :
        /\ n.set[i].cnt = IF i = u THEN cnt ELSE d.set[i].cnt
        /\ n.set[i].mv = IF i = u THEN v ELSE d.set[i].mv
        /\ n.set[i].pic = IF i = u THEN Buf(u) ELSE d.set[i].pic
  BY <1>1, WithMarks
<1>3. \A i \in R!Entries : i # u => d.set[i].cnt # cnt
  BY <1>1, LiveIs DEF Shape
<1>4. i0 = u /\ e.mv = v /\ e.pic = Buf(u)
  <2> HIDE DEF n
  <2>1. i0 = u
    BY <1>2, <1>3
  <2> HIDE DEF i0
  <2> QED BY <1>2, <2>1
<1>5. r = [n EXCEPT !.mv = R!B!Release(@, e.mv, "CODEC"), !.pic = R!B!Release(@, e.pic, "CODEC")]
  BY DEF R!LastRowDone
<1>6. n = [set |-> s, mv |-> m, pic |-> p]
  BY DEF With
<1> HIDE DEF n, e, s, m, p, r
<1>7. n.mv = m /\ n.pic = p
  BY <1>6
<1>8. r = [n EXCEPT !.mv = R!B!Release(m, v, "CODEC"), !.pic = R!B!Release(p, Buf(u), "CODEC")]
  BY <1>4, <1>5, <1>7
<1>9. r = [set |-> s, mv |-> R!B!Release(m, v, "CODEC"), pic |-> R!B!Release(p, Buf(u), "CODEC")]
  BY <1>6, <1>8, ManagersExcept
<1>10. R!B!Release(m, v, "CODEC") = [d.mv EXCEPT ![v] = Unmark(sm, "CODEC")]
  <2>1. d.mv = [x \in R!Entries |-> d.mv[x]]
    BY <1>1 DEF Shape
  <2> QED BY <2>1 DEF m, R!B!Release, Unmark
<1>11. R!B!Release(p, Buf(u), "CODEC") = [d.pic EXCEPT ![Buf(u)] = Unmark(sp, "CODEC")]
  <2>1. d.pic = [x \in R!Entries |-> d.pic[x]] /\ Buf(u) \in R!Entries
    BY <1>1, BufFacts DEF Shape
  <2> QED BY <2>1 DEF p, R!B!Release, Unmark
<1> QED BY <1>9, <1>10, <1>11 DEF With, r, n, s

\* The recon that is given back is the earliest one there is.
LEMMA ReconFacts ==
  ASSUME MaxRef \in Nat, NEW d, Kept(d), \E i \in R!Entries : IoAt(d, i),
         \A i \in R!Entries : IoAt(d, i) => d.set[i].poc \in Nat
  PROVE  LET e == R!Reconned(d)
             r == R!GiveRecon(d) IN
         /\ e \in R!Entries /\ IoAt(d, e)
         /\ \A j \in R!Entries : IoAt(d, j) => d.set[e].poc <= d.set[j].poc
         /\ Kept(r) /\ r.set = d.set
         /\ \A i \in R!Entries :
              (RefAt(r, i) <=> RefAt(d, i)) /\ (IoAt(r, i) <=> IoAt(d, i) /\ i # e)
<1> DEFINE M == R!Marked(d, "IO")
           pocs == {d.set[i].poc : i \in M}
           e == R!Reconned(d)
           r == R!GiveRecon(d)
<1>1. Shape(d) /\ Placed(d) /\ Paired(d) /\ Two(d) /\ Records(d)
  BY DEF Kept, Shape
<1>2. M = {i \in R!Entries : IoAt(d, i)}
  BY <1>1, MarkedFacts
<1> HIDE DEF M
<1>3. \E x \in pocs : \A y \in pocs : x <= y
  <2>1. pocs \subseteq Nat /\ pocs # {}
    BY <1>2
  <2> HIDE DEF pocs
  <2> QED BY <2>1, LeastExists
<1>4. \E i \in M : \A j \in M : d.set[i].poc <= d.set[j].poc
  <2>1. PICK x \in pocs : \A y \in pocs : x <= y
    BY <1>3
  <2>2. PICK i \in M : x = d.set[i].poc
    OBVIOUS
  <2> QED BY <2>1, <2>2
<1>5. e \in M /\ \A j \in M : d.set[e].poc <= d.set[j].poc
  <2>1. e = CHOOSE i \in M : \A j \in M : d.set[i].poc <= d.set[j].poc
    BY DEF R!Reconned, M
  <2> HIDE DEF e
  <2> QED BY <1>4, <2>1
<1> HIDE DEF e
<1>6. e \in R!Entries /\ IoAt(d, e) /\ d.set[e].pic = Buf(e)
  BY <1>1, <1>2, <1>5, MarkedFacts DEF Placed
<1> DEFINE q == [d EXCEPT !.mv = d.mv, !.pic = R!B!Release(@, Buf(e), "IO")]
           p == R!B!Release(d.pic, Buf(e), "IO")
<1>7. r = q
  <2>1. d = [set |-> d.set, mv |-> d.mv, pic |-> d.pic]
    BY <1>1 DEF Records
  <2>2. r = [d EXCEPT !.pic = p]
    BY <1>6 DEF R!GiveRecon, e
  <2>3. q = [d EXCEPT !.mv = d.mv, !.pic = p]
    BY Zenon
  <2> HIDE DEF r, q, p
  <2>4. q = [set |-> d.set, mv |-> d.mv, pic |-> p]
    BY <2>1, <2>3, ManagersExcept
  <2>5. r = [set |-> d.set, mv |-> d.mv, pic |-> p]
    BY <2>1, <2>2, PicExcept
  <2> QED BY <2>4, <2>5
<1>8. /\ Shape(q) /\ Placed(q) /\ q.set = d.set /\ q.mv = d.mv
      /\ \A i \in R!Entries :
           /\ RefAt(q, i) <=> RefAt(d, i) /\ ~(i = e /\ "IO" = "REF")
           /\ IoAt(q, i) <=> IoAt(d, i) /\ ~(i = e /\ "IO" = "IO")
  <2>1. d.mv \in [R!Entries -> {{}, {"busy", "REF"}}]
    BY <1>1 DEF Shape
  <2> QED BY <1>1, <1>6, <2>1, UnmarkedFacts
<1> HIDE DEF r, q
<1>9. Kept(q)
  BY <1>1, <1>8 DEF Kept, Paired, Two
<1> QED BY <1>2, <1>5, <1>6, <1>7, <1>8, <1>9 DEF r, e

-----------------------------------------------------------------------------
(* The picture stack without B pictures. *)

\* Every picture is a reference, and the ring has three slots.
LEMMA NoBPictures ==
  NumB = 0 => P!Inter = 1 /\ P!MaxInter = 2 /\ P!Ring = 3 /\ P!Slots = 0..2
BY DEF P!Inter, P!MaxInter, P!Ring, P!Slots

\* What the stack is then: neither B pictures nor incomplete sub-GOPs.
Piles == [0..2 -> [id : Int, type : {"I", "P"}]]
Gops == [p : Nat, b : {0}, incomp : {0}, extra : BOOLEAN]
Stacks ==
  [stack : Piles, top : Int, bIdx : 0..2, refIdx : 0..2, disp : Nat, buf : Nat,
   pCount : Nat, bCount : Nat, bSub : Nat, first : BOOLEAN, gop : Gops,
   prev : {"I", "P"}, force : BOOLEAN, newIntra : Nat]

\* A GOP without B pictures.
LEMMA DistbnFacts ==
  ASSUME NumB = 0, NEW n \in Nat \ {0}
  PROVE  P!FindPicDistbn(n) \in Gops
<1>1. (n - 2) \div P!Inter + 1 = n - 1
  BY NoBPictures
<1>2. (P!Inter - 1) * ((n - 1) \div P!Inter) = 0
  BY NoBPictures
<1>3. (IF n = 1 THEN 0 ELSE (n - 2) \div P!Inter + 1) = n - 1
  BY <1>1
<1>4. (n > 1 /\ (n - 2) % P!Inter = 0) \in BOOLEAN
  OBVIOUS
<1> QED BY <1>2, <1>3, <1>4 DEF P!FindPicDistbn, Gops

\* The next picture is an I picture at the beginning of a GOP, otherwise a P.
LEMMA NextTypeIs ==
  ASSUME NumB = 0, NEW s, s.buf \in Nat
  PROVE  P!NextType(s) = IF s.disp = 0 THEN "I" ELSE "P"
<1>1. s.buf % P!Inter = 0
  BY NoBPictures
<1> QED BY <1>1 DEF P!NextType, P!NextIsB

\* A forced I picture begins a new GOP at once.
LEMMA ForceFacts ==
  ASSUME NumB = 0, NEW s \in Stacks
  PROVE  LET r == P!ApplyForce(s) IN
         /\ r \in Stacks
         /\ r.disp = IF s.force THEN 0 ELSE s.disp
         /\ r.first = (s.first /\ ~(s.force /\ s.disp # 0))
         /\ r.newIntra = s.newIntra /\ r.refIdx = s.refIdx /\ r.top = s.top
         /\ r.stack = s.stack
<1> DEFINE r == P!ApplyForce(s)
<1>1. s.buf \in Nat /\ s.disp \in Nat /\ s.first \in BOOLEAN /\ s.force \in BOOLEAN
  BY DEF Stacks
<1>2. P!NextType(s) = IF s.disp = 0 THEN "I" ELSE "P"
  BY <1>1, NextTypeIs
<1>3. CASE ~s.force
  <2>1. r = s
    BY <1>3 DEF P!ApplyForce
  <2> QED BY <1>1, <1>3, <2>1
<1>4. CASE s.force /\ s.disp = 0
  <2>1. r = [s EXCEPT !.force = FALSE]
    BY <1>2, <1>4 DEF P!ApplyForce
  <2> QED BY <1>1, <1>4, <2>1 DEF Stacks
<1>5. CASE s.force /\ s.disp # 0
  <2>1. r = [s EXCEPT !.disp = 0, !.buf = 0, !.first = FALSE]
    BY <1>2, <1>5, NoBPictures DEF P!ApplyForce, P!StartNewGop
  <2>2. [s EXCEPT !.disp = 0, !.buf = 0, !.first = FALSE] \in Stacks
    BY DEF Stacks
  <2>3. /\ r.disp = 0 /\ r.first = FALSE /\ r.stack = s.stack
        /\ r.newIntra = s.newIntra /\ r.refIdx = s.refIdx /\ r.top = s.top
    BY <2>1 DEF Stacks
  <2> QED BY <1>5, <2>1, <2>2, <2>3
<1> QED BY <1>1, <1>3, <1>4, <1>5

\* A new intra interval, of more than one picture, changes nothing else.
LEMMA IntraFacts ==
  ASSUME NumB = 0, NEW s \in Stacks, s.newIntra # 1, NEW disp \in Nat
  PROVE  LET r == P!ApplyIntra(s, disp) IN
         /\ r \in Stacks
         /\ r.newIntra \in {0, s.newIntra} /\ r.disp = s.disp /\ r.first = s.first
         /\ r.refIdx = s.refIdx /\ r.top = s.top /\ r.stack = s.stack
<1> DEFINE r == P!ApplyIntra(s, disp)
<1>1. CASE ~(s.newIntra # 0 /\ disp = 1)
  <2>1. r = s
    BY <1>1 DEF P!ApplyIntra
  <2> QED BY <1>1, <2>1
<1>2. CASE s.newIntra # 0 /\ disp = 1
  <2>1. r = [s EXCEPT !.gop = P!FindPicDistbn(s.newIntra),
                      !.buf = IF s.disp = 0 THEN 0 ELSE 1,
                      !.disp = IF s.newIntra = 1 THEN 0 ELSE s.disp,
                      !.bSub = 0, !.newIntra = 0]
    BY <1>2 DEF P!ApplyIntra, Stacks
  <2>2. s.newIntra \in Nat \ {0}
    BY <1>2 DEF Stacks
  <2>3. PICK b \in Nat : b = IF s.disp = 0 THEN 0 ELSE 1
    OBVIOUS
  <2>4. PICK d \in Nat : d = s.disp
    BY DEF Stacks
  <2>5. PICK g \in Gops : g = P!FindPicDistbn(s.newIntra)
    BY <2>2, DistbnFacts
  <2>6. (IF s.newIntra = 1 THEN 0 ELSE s.disp) = d
    BY <2>4
  <2>7. r = [s EXCEPT !.gop = g, !.buf = b, !.disp = d, !.bSub = 0, !.newIntra = 0]
    BY <2>1, <2>3, <2>5, <2>6, Zenon
  <2> HIDE DEF r
  <2>8. [s EXCEPT !.gop = g, !.buf = b, !.disp = d, !.bSub = 0, !.newIntra = 0] \in Stacks
    BY DEF Stacks
  <2>9. /\ r.newIntra = 0 /\ r.disp = d /\ r.first = s.first
        /\ r.refIdx = s.refIdx /\ r.top = s.top /\ r.stack = s.stack
    BY <2>7 DEF Stacks
  <2> QED BY <1>2, <2>4, <2>7, <2>8, <2>9 DEF r
<1> QED BY <1>1, <1>2

\* The picture is written at the index of the reference pictures, which moves on
\* by one.
LEMMA PutFacts ==
  ASSUME NumB = 0, NEW s \in Stacks, NEW id \in Int
  PROVE  LET r == P!Put(s, id)
             type == IF s.disp = 0 THEN "I" ELSE "P" IN
         /\ r \in Stacks
         /\ r.first => s.first /\ r.disp # 0
         /\ r.top = IF s.first /\ s.disp = 0 THEN 0 ELSE s.top
         /\ r.newIntra = s.newIntra
         /\ r.refIdx = (s.refIdx + 1) % 3
         /\ r.stack = [s.stack EXCEPT ![s.refIdx] = [id |-> id, type |-> type]]
<1> DEFINE r == P!Put(s, id)
           type == IF s.disp = 0 THEN "I" ELSE "P"
           end == s.disp = s.gop.p + s.gop.b
           stack == [s.stack EXCEPT ![s.refIdx] = [id |-> id, type |-> type]]
           next == (s.refIdx + 1) % 3
<1>1. /\ s.buf \in Nat /\ s.disp \in Nat /\ s.first \in BOOLEAN /\ s.refIdx \in 0..2
      /\ s.pCount \in Nat /\ s.bCount \in Nat /\ s.bSub \in Nat
      /\ s.gop \in Gops /\ s.stack \in Piles
  BY DEF Stacks
<1>2. P!NextType(s) = type
  BY <1>1, NextTypeIs
<1>3. stack \in Piles /\ type \in {"I", "P"} /\ next \in 0..2
  BY <1>1 DEF Piles
<1>4. s.gop.incomp = 0 /\ s.gop.p \in Nat /\ s.gop.b = 0 /\ end \in BOOLEAN
  BY <1>1 DEF Gops
<1> HIDE DEF stack, type, end, next
<1>5. \A p, b, u \in Nat, y \in {"I", "P"} :
        [s EXCEPT !.stack = stack, !.refIdx = next, !.pCount = p, !.bCount = b, !.bSub = u,
                  !.prev = y] \in Stacks
  BY <1>3 DEF Stacks
<1>6. PICK q \in Stacks :
        /\ r = [q EXCEPT !.disp = IF s.disp = s.gop.p + s.gop.b THEN 0 ELSE @ + 1,
                         !.buf = IF s.disp = s.gop.p + s.gop.b THEN 0 ELSE @ + 1,
                         !.first = @ /\ ~(s.disp = s.gop.p + s.gop.b),
                         !.top = IF s.first /\ s.disp = 0 THEN 0 ELSE @]
        /\ q.disp = s.disp /\ q.first = s.first /\ q.top = s.top /\ q.buf = s.buf
        /\ q.newIntra = s.newIntra /\ q.refIdx = next /\ q.stack = stack
  <2>1. CASE type = "I"
    <3>1. PICK q : q = P!PutI(s, id)
      OBVIOUS
    <3>2. q = [s EXCEPT !.stack = stack, !.refIdx = next,
                        !.pCount = 0, !.bCount = 0, !.bSub = 0, !.prev = "I"]
      BY <2>1, <3>1, NoBPictures DEF P!PutI, Stacks, stack, next
    <3>3. q \in Stacks
      BY <1>5, <3>2
    <3>4. /\ q.disp = s.disp /\ q.first = s.first /\ q.top = s.top /\ q.buf = s.buf
          /\ q.newIntra = s.newIntra /\ q.refIdx = next /\ q.stack = stack
      BY <3>2 DEF Stacks
    <3>5. r = [q EXCEPT !.disp = IF s.disp = s.gop.p + s.gop.b THEN 0 ELSE @ + 1,
                        !.buf = IF s.disp = s.gop.p + s.gop.b THEN 0 ELSE @ + 1,
                        !.first = @ /\ ~(s.disp = s.gop.p + s.gop.b),
                        !.top = IF s.first /\ s.disp = 0 THEN 0 ELSE @]
      BY <1>2, <2>1, <3>1 DEF P!Put
    <3> QED BY <3>3, <3>4, <3>5
  <2>2. CASE type = "P"
    <3>1. PICK q : q = P!PutP(s, id)
      OBVIOUS
    <3>2. (IF s.pCount + 1 = s.gop.p /\ s.gop.p > 1 /\ (s.gop.incomp # 0 \/ s.gop.extra)
           THEN s.gop.incomp + 1 ELSE P!Inter) = 1
      BY <1>4, NoBPictures
    <3>3. q = [s EXCEPT !.stack = stack, !.refIdx = next,
                        !.pCount = s.pCount + 1, !.bCount = s.bCount, !.bSub = s.bSub,
                        !.prev = "P"]
      BY <2>2, <3>1, <3>2, NoBPictures DEF P!PutP, Stacks, stack, next
    <3>4. s.pCount + 1 \in Nat /\ s.bCount \in Nat /\ s.bSub \in Nat
      BY <1>1
    <3>5. q \in Stacks
      BY <1>5, <3>3, <3>4
    <3>6. /\ q.disp = s.disp /\ q.first = s.first /\ q.top = s.top /\ q.buf = s.buf
          /\ q.newIntra = s.newIntra /\ q.refIdx = next /\ q.stack = stack
      BY <3>3 DEF Stacks
    <3>7. r = [q EXCEPT !.disp = IF s.disp = s.gop.p + s.gop.b THEN 0 ELSE @ + 1,
                        !.buf = IF s.disp = s.gop.p + s.gop.b THEN 0 ELSE @ + 1,
                        !.first = @ /\ ~(s.disp = s.gop.p + s.gop.b),
                        !.top = IF s.first /\ s.disp = 0 THEN 0 ELSE @]
      BY <1>2, <2>2, <3>1 DEF P!Put
    <3> QED BY <3>5, <3>6, <3>7
  <2> QED BY <2>1, <2>2 DEF type
<1>7. PICK d \in Nat, b \in Nat, f \in BOOLEAN, t \in Int :
        /\ r = [q EXCEPT !.disp = d, !.buf = b, !.first = f, !.top = t]
        /\ d = IF s.disp = s.gop.p + s.gop.b THEN 0 ELSE s.disp + 1
        /\ f = (s.first /\ s.disp # s.gop.p + s.gop.b)
        /\ t = IF s.first /\ s.disp = 0 THEN 0 ELSE s.top
  <2>1. PICK d : d = IF s.disp = s.gop.p + s.gop.b THEN 0 ELSE q.disp + 1
    OBVIOUS
  <2>2. PICK b : b = IF s.disp = s.gop.p + s.gop.b THEN 0 ELSE q.buf + 1
    OBVIOUS
  <2>3. PICK f : f = (q.first /\ ~(s.disp = s.gop.p + s.gop.b))
    OBVIOUS
  <2>4. PICK t : t = IF s.first /\ s.disp = 0 THEN 0 ELSE q.top
    OBVIOUS
  <2>5. d \in Nat /\ b \in Nat /\ t \in Int
    BY <2>1, <2>2, <2>4 DEF Stacks
  <2>6. f \in BOOLEAN
    BY <2>3
  <2>7. r = [q EXCEPT !.disp = d, !.buf = b, !.first = f, !.top = t]
    BY <1>6, <2>1, <2>2, <2>3, <2>4, Zenon
  <2>8. d = IF s.disp = s.gop.p + s.gop.b THEN 0 ELSE s.disp + 1
    BY <1>6, <2>1
  <2>9. f = (s.first /\ s.disp # s.gop.p + s.gop.b)
    BY <1>6, <2>3, Zenon
  <2>10. t = IF s.first /\ s.disp = 0 THEN 0 ELSE s.top
    BY <1>6, <2>4
  <2> QED BY <2>5, <2>6, <2>7, <2>8, <2>9, <2>10, Zenon
<1> HIDE DEF r
<1>8. r \in Stacks
  <2>1. [q EXCEPT !.disp = d, !.buf = b, !.first = f, !.top = t] \in Stacks
    BY DEF Stacks
  <2> QED BY <1>7, <2>1
<1>9. /\ r.disp = d /\ r.first = f /\ r.top = t
      /\ r.newIntra = q.newIntra /\ r.refIdx = q.refIdx /\ r.stack = q.stack
  BY <1>7 DEF Stacks
<1>10. r.first => s.first /\ r.disp # 0
  <2>1. f => s.first /\ s.disp # s.gop.p + s.gop.b
    BY <1>7, Zenon
  <2>2. s.disp # s.gop.p + s.gop.b => d # 0
    BY <1>1, <1>7
  <2>3. r.first = f /\ r.disp = d
    BY <1>9
  <2> QED BY <2>1, <2>2, <2>3, Zenon
<1> QED BY <1>6, <1>7, <1>8, <1>9, <1>10 DEF r, type, stack, next

\* irc_add_picture_to_stack.
LEMMA AddPicFacts ==
  ASSUME NumB = 0, NEW s \in Stacks, s.newIntra # 1, NEW id \in Int
  PROVE  LET r == P!AddPic(s, id)
             type == IF s.disp = 0 \/ s.force THEN "I" ELSE "P" IN
         /\ r \in Stacks
         /\ r.first => r.disp # 0
         /\ r.top = IF s.first /\ s.disp = 0 THEN 0 ELSE s.top
         /\ r.newIntra # 1
         /\ r.refIdx = (s.refIdx + 1) % 3
         /\ r.stack = [s.stack EXCEPT ![s.refIdx] = [id |-> id, type |-> type]]
<1> DEFINE f == P!ApplyForce(s)
           i == P!ApplyIntra(f, s.disp)
           r == P!AddPic(s, id)
<1>1. s.disp \in Nat /\ s.first \in BOOLEAN /\ s.force \in BOOLEAN
  BY DEF Stacks
<1>2. /\ f \in Stacks /\ f.disp = IF s.force THEN 0 ELSE s.disp
      /\ f.first = (s.first /\ ~(s.force /\ s.disp # 0))
      /\ f.newIntra = s.newIntra /\ f.refIdx = s.refIdx /\ f.top = s.top /\ f.stack = s.stack
  BY ForceFacts
<1> HIDE DEF f
<1>3. /\ i \in Stacks
      /\ i.newIntra \in {0, f.newIntra} /\ i.disp = f.disp /\ i.first = f.first
      /\ i.refIdx = f.refIdx /\ i.top = f.top /\ i.stack = f.stack
  BY <1>1, <1>2, IntraFacts
<1>4. r = P!Put(i, id)
  BY DEF P!AddPic, f
<1> HIDE DEF i
<1>5. LET p == P!Put(i, id)
          type == IF i.disp = 0 THEN "I" ELSE "P" IN
         /\ p \in Stacks
         /\ p.first => i.first /\ p.disp # 0
         /\ p.top = IF i.first /\ i.disp = 0 THEN 0 ELSE i.top
         /\ p.newIntra = i.newIntra
         /\ p.refIdx = (i.refIdx + 1) % 3
         /\ p.stack = [i.stack EXCEPT ![i.refIdx] = [id |-> id, type |-> type]]
  BY <1>3, PutFacts
<1> HIDE DEF r
<1>6. (IF i.disp = 0 THEN "I" ELSE "P") = (IF s.disp = 0 \/ s.force THEN "I" ELSE "P")
  BY <1>1, <1>2, <1>3
<1>7. i.first /\ i.disp = 0 <=> s.first /\ s.disp = 0
  BY <1>1, <1>2, <1>3
<1>8. /\ r \in Stacks
      /\ r.first => r.disp # 0
      /\ r.top = IF s.first /\ s.disp = 0 THEN 0 ELSE s.top
      /\ r.newIntra # 1
      /\ r.refIdx = (s.refIdx + 1) % 3
  BY <1>2, <1>3, <1>4, <1>5, <1>7
<1>9. r.stack = [s.stack EXCEPT ![s.refIdx] =
                   [id |-> id, type |-> IF s.disp = 0 \/ s.force THEN "I" ELSE "P"]]
  BY <1>2, <1>3, <1>4, <1>5, <1>6
<1> QED BY <1>8, <1>9 DEF r

\* The picture is taken from the stack, and left on it or not.
LEMMA GotPicFacts ==
  ASSUME NEW s \in Stacks
  PROVE  LET r == P!GotPic(s) IN
         /\ r \in Stacks
         /\ r.first = s.first /\ r.disp = s.disp /\ r.newIntra = s.newIntra
         /\ r.refIdx = s.refIdx /\ r.top = s.top /\ r.stack = s.stack
<1> DEFINE r == P!GotPic(s)
<1>1. CASE P!TopPic(s).type = "I"
  <2>1. r = [s EXCEPT !.force = FALSE]
    BY <1>1 DEF P!GotPic
  <2> QED BY <2>1 DEF Stacks
<1>2. CASE P!TopPic(s).type # "I"
  <2>1. r = s
    BY <1>2 DEF P!GotPic
  <2> QED BY <2>1
<1> QED BY <1>1, <1>2

\* irc_update_pic_handling.
LEMMA PopPicFacts ==
  ASSUME NumB = 0, NEW s \in Stacks
  PROVE  LET r == P!PopPic(s) IN
         /\ r \in Stacks /\ r.top = (s.top + 1) % 3
         /\ r.first = s.first /\ r.disp = s.disp /\ r.newIntra = s.newIntra
         /\ r.refIdx = s.refIdx /\ r.stack = s.stack
<1> DEFINE r == P!PopPic(s)
<1>1. PICK t \in Int : t = (s.top + 1) % 3
  BY DEF Stacks
<1>2. r = [s EXCEPT !.top = t]
  BY <1>1, NoBPictures DEF P!PopPic, Stacks
<1> QED BY <1>1, <1>2 DEF Stacks

\* What is asked for beforehand.
LEMMA AskFacts ==
  ASSUME NEW s \in Stacks, NEW n \in Nat
  PROVE  /\ P!SetForceI(s) \in Stacks
         /\ LET r == P!SetForceI(s) IN
            /\ r.force /\ r.first = s.first /\ r.disp = s.disp /\ r.newIntra = s.newIntra
            /\ r.refIdx = s.refIdx /\ r.top = s.top /\ r.stack = s.stack
         /\ P!RegisterNewIntra(s, n) \in Stacks
         /\ LET r == P!RegisterNewIntra(s, n) IN
            /\ r.newIntra = n /\ r.first = s.first /\ r.disp = s.disp
            /\ r.refIdx = s.refIdx /\ r.top = s.top /\ r.stack = s.stack
BY DEF P!SetForceI, P!RegisterNewIntra, Stacks

-----------------------------------------------------------------------------
(* A picture is coded, and recon is given back. *)

\* What the constants and the configuration are.
LEMMA ConfigFacts ==
  ASSUME cfg \in Configs
  PROVE  /\ MaxInp \in Nat /\ MaxInp >= 2 /\ MaxFlush \in Nat
         /\ NumB \in Nat /\ (NumB > 0 => MaxRef >= 2)
         /\ MaxRef \in Nat \ {0} /\ MaxRef \in Nat
         /\ AltRef \in Nat /\ IdrInterval \in Nat \ {0}
         /\ Recon \in BOOLEAN /\ Overflows \in BOOLEAN
         /\ IntraChanges \subseteq Nat \ {0} /\ cfg.intra \in Nat \ {0}
  BY EncSequenceAssumption
     DEF NumB, MaxRef, AltRef, IdrInterval, Recon, Overflows, IntraChanges

\* The list x is d with the next picture in entry u.
Became(d, x, u, cnt, poc, isRef, recon) ==
  /\ R!Live(x) = R!Live(d) \cup {u}
  /\ \A i \in R!Entries :
       /\ x.set[i].cnt = IF i = u THEN cnt ELSE d.set[i].cnt
       /\ x.set[i].poc = IF i = u THEN poc ELSE d.set[i].poc
       /\ RefAt(x, i) <=> IF i = u THEN isRef ELSE RefAt(d, i)
       /\ IoAt(x, i) <=> IF i = u THEN recon ELSE IoAt(d, i)

\* What a frame leaves in the list d: y when its last row is coded, n.refs when its
\* threads leave before.
Leaves(d, n, y, cnt, poc, isRef, recon) ==
  /\ n.err = "none" /\ R!MvTracks(n.refs)
  /\ \E u \in R!Entries \ R!Live(d) : Kept(y) /\ Became(d, y, u, cnt, poc, isRef, recon)
  /\ isRef => \E u \in R!Entries \ R!Live(d) :
                Kept(n.refs) /\ Became(d, n.refs, u, cnt, poc, isRef, recon)

\* So much for a picture that finds an entry.
LEMMA EnteredFacts ==
  ASSUME MaxRef \in Nat \ {0}, NEW d0, Kept(d0), NEW type, type = "B" => MaxRef >= 2,
         NEW cnt \in Nat, \A i \in R!Live(d0) : d0.set[i].cnt < cnt, NEW poc,
         NEW isRef \in BOOLEAN, isRef => type # "B", NEW recon \in BOOLEAN,
         R!Live(Freed(d0, type)) # R!Entries
  PROVE  LET n == R!NewPicture(d0, type, cnt, poc, isRef, recon) IN
         Leaves(Freed(d0, type), n, R!LastRowDone(n.refs, cnt), cnt, poc, isRef, recon)
<1> DEFINE d == Freed(d0, type)
           n == R!NewPicture(d0, type, cnt, poc, isRef, recon)
           y == R!LastRowDone(n.refs, cnt)
           sm == Taken(isRef, FALSE)
           sp == Taken(isRef, recon)
<1>1. /\ Kept(d) /\ \A i \in R!Live(d) : i \in R!Live(d0) /\ d.set[i] = d0.set[i]
      /\ type # "B" => \A i, j \in R!Entries : RefAt(d, i) /\ RefAt(d, j) => i = j
  BY FreedFacts DEF R!Live
<1>2. n.err = "none" /\ \E u \in R!Entries, v \in R!Entries :
        /\ u \notin R!Live(d) /\ d.mv[v] = {}
        /\ n.refs = Entered(d, u, v, cnt, poc, isRef, recon)
  <2>1. Outcome(d, n, cnt, poc, isRef, recon)
    BY NewPictureFacts
  <2> HIDE DEF d, n
  <2> QED BY <2>1 DEF Outcome, d
<1> HIDE DEF d, n
<1>3. PICK u \in R!Entries, v \in R!Entries :
        /\ u \notin R!Live(d) /\ d.mv[v] = {}
        /\ n.refs = With(d, u, v, cnt, poc, sm, sp)
  BY <1>2 DEF Entered
<1>4. \A i \in R!Live(d) : d.set[i].cnt < cnt
  BY <1>1
<1>5. Shape(d)
  BY <1>1 DEF Kept
<1>6. /\ "REF" \in sp <=> isRef
      /\ "IO" \in sp <=> recon
      /\ isRef => sp \in Statuses
      /\ Unmark(sp, "CODEC") \in Statuses
      /\ "REF" \in Unmark(sp, "CODEC") <=> isRef
      /\ "IO" \in Unmark(sp, "CODEC") <=> recon
  BY TakenFacts
<1>7. /\ "REF" \in sm <=> isRef
      /\ isRef => sm = {"busy", "REF"}
      /\ Unmark(sm, "CODEC") = IF isRef THEN {"busy", "REF"} ELSE {}
  BY Zenon DEF Taken, Unmark
<1>8. Unmark(sm, "CODEC") \in {{}, {"busy", "REF"}} /\ (isRef => sm \in {{}, {"busy", "REF"}})
  BY <1>7
<1>9. (isRef <=> Unmark(sm, "CODEC") # {}) /\ (isRef => sm # {})
  BY <1>7
<1> HIDE DEF sm, sp
<1>10. R!MvTracks(n.refs)
  BY <1>1, <1>3, <1>6, <1>7, WithTracks
<1>11. Kept(y) /\ Became(d, y, u, cnt, poc, isRef, recon)
  <2>1. y = With(d, u, v, cnt, poc, Unmark(sm, "CODEC"), Unmark(sp, "CODEC"))
    BY <1>1, <1>3, <1>4, DoneFacts
  <2> HIDE DEF y
  <2>2. Kept(y)
    BY <1>1, <1>3, <1>4, <1>6, <1>8, <1>9, <2>1, WithKept
  <2>3. Became(d, y, u, cnt, poc, isRef, recon)
    BY <1>3, <1>5, <1>6, <2>1, WithMarks DEF Became
  <2> QED BY <2>2, <2>3
<1>12. ASSUME isRef PROVE Kept(n.refs) /\ Became(d, n.refs, u, cnt, poc, isRef, recon)
  <2>1. Kept(n.refs)
    <3>1. /\ sm \in {{}, {"busy", "REF"}} /\ sp \in Statuses /\ ("REF" \in sp <=> sm # {})
          /\ \A i, j \in R!Entries : RefAt(d, i) /\ RefAt(d, j) => i = j
      BY <1>1, <1>6, <1>8, <1>9, <1>12
    <3>2. Kept(With(d, u, v, cnt, poc, sm, sp))
      BY <1>1, <1>3, <1>4, <3>1, WithKept
    <3> QED BY <1>3, <3>2
  <2>2. Became(d, n.refs, u, cnt, poc, isRef, recon)
    BY <1>3, <1>5, <1>6, WithMarks DEF Became
  <2> QED BY <2>1, <2>2
<1> HIDE DEF y
<1>13. Leaves(d, n, y, cnt, poc, isRef, recon)
  BY <1>2, <1>3, <1>10, <1>11, <1>12 DEF Leaves
<1> QED BY <1>13 DEF d, n, y

\* The pictures that wait for their recon are those from "from" to before "upto".
Waiting(d, from, upto) ==
  /\ \A i \in R!Entries : IoAt(d, i) =>
       Recon /\ d.set[i].cnt \in from..upto-1 /\ (AltRef = 0 => RefAt(d, i))
  /\ Recon => \A k \in from..upto-1 : \E i \in R!Entries : IoAt(d, i) /\ d.set[i].cnt = k

\* The pictures in the list are numbered as they are in the stream.
Numbered(d, n) ==
  \A i \in R!Live(d) : d.set[i].poc = d.set[i].cnt /\ d.set[i].cnt \in 0..n-1

\* Recon comes in the order of the stream.
InOrder(s) == s \in Seq(Nat) /\ \A k \in DOMAIN s : s[k] = k - 1

\* A call gives back the earliest picture that waits, once there has been a call
\* before, and all there is by the end.
LEMMA GiveBackFacts ==
  ASSUME cfg \in Configs, NumB = 0, NEW n \in Nat, NEW x, Kept(x), Numbered(x, n),
         InOrder(shown), Len(shown) <= n, Waiting(x, Len(shown), n),
         NEW cnt \in Int, NEW enc, enc.last \in BOOLEAN, NEW err,
         GiveBack(x, cnt, enc, err)
  PROVE  /\ Kept(dpb') /\ Numbered(dpb', n)
         /\ \A i \in R!Entries : (RefAt(dpb', i) <=> RefAt(x, i)) /\ dpb'.set[i] = x.set[i]
         /\ InOrder(shown') /\ Len(shown') <= n /\ Waiting(dpb', Len(shown'), n)
         /\ Len(shown') >= Len(shown)
         /\ Recon /\ (cnt > 0 \/ enc.last) /\ Len(shown) < n => Len(shown') = Len(shown) + 1
         /\ out'.err = err
         /\ out'.last => enc.last /\ (Recon => Len(shown') = n)
         /\ enc.last /\ (Recon => Len(shown) + 1 >= n) => out'.last
<1> DEFINE due == Recon /\ (cnt > 0 \/ enc.last) /\ \E i \in R!Entries : IoAt(x, i)
           rest == IF due THEN R!GiveRecon(x) ELSE x
           held == Recon /\ \E i \in R!Entries : IoAt(rest, i)
           L == Len(shown)
<1>1. Shape(x) /\ Placed(x) /\ MaxRef \in Nat /\ Recon \in BOOLEAN /\ L \in Nat
  BY ConfigFacts DEF Kept, InOrder
<1>2. R!Marked(x, "IO") # {} <=> \E i \in R!Entries : IoAt(x, i)
  BY <1>1, MarkedFacts
<1>3. \A i \in R!Entries : IoAt(x, i) => i \in R!Live(x) /\ x.set[i].poc = x.set[i].cnt
                                         /\ x.set[i].cnt \in 0..n-1
  BY <1>1, MarkedFacts DEF Numbered
<1>4. ASSUME due
      PROVE  LET e == R!Reconned(x) IN
             /\ e \in R!Entries /\ IoAt(x, e) /\ x.set[e].poc = L /\ x.set[e].cnt = L /\ L < n
             /\ Kept(rest) /\ rest.set = x.set
             /\ \A i \in R!Entries :
                  (RefAt(rest, i) <=> RefAt(x, i)) /\ (IoAt(rest, i) <=> IoAt(x, i) /\ i # e)
  <2> DEFINE e == R!Reconned(x)
  <2>1. /\ e \in R!Entries /\ IoAt(x, e)
        /\ \A j \in R!Entries : IoAt(x, j) => x.set[e].poc <= x.set[j].poc
        /\ Kept(rest) /\ rest.set = x.set
        /\ \A i \in R!Entries :
             (RefAt(rest, i) <=> RefAt(x, i)) /\ (IoAt(rest, i) <=> IoAt(x, i) /\ i # e)
    BY <1>1, <1>3, <1>4, ReconFacts
  <2> HIDE DEF e, rest
  <2>2. x.set[e].cnt \in L..n-1
    BY <2>1 DEF Waiting
  <2>3. PICK j \in R!Entries : IoAt(x, j) /\ x.set[j].cnt = L
    <3>1. L \in L..n-1
      BY <1>1, <2>2
    <3> QED BY <1>4, <3>1 DEF Waiting
  <2>4. x.set[e].poc <= x.set[j].poc /\ x.set[e].poc = x.set[e].cnt /\ x.set[j].poc = L
    BY <1>3, <2>1, <2>3
  <2>5. x.set[e].cnt = L /\ L < n
    BY <1>1, <2>2, <2>4
  <2> QED BY <2>1, <2>4, <2>5 DEF e
<1>5. Kept(rest) /\ rest.set = x.set /\ \A i \in R!Entries : RefAt(rest, i) <=> RefAt(x, i)
  BY <1>4
<1>6. R!Marked(rest, "IO") # {} <=> \E i \in R!Entries : IoAt(rest, i)
  BY <1>1, <1>5, MarkedFacts DEF Kept
<1>7. /\ dpb' = rest
      /\ shown' = IF due THEN Append(shown, x.set[R!Reconned(x)].poc) ELSE shown
      /\ out' = [last |-> enc.last /\ ~held, err |-> err]
  BY <1>2, <1>6 DEF GiveBack
<1> DEFINE K == IF due THEN L + 1 ELSE L
<1>8. InOrder(shown') /\ Len(shown') = K /\ K <= n /\ K \in Nat
  <2>1. CASE due
    <3>1. shown' = Append(shown, L) /\ L < n
      BY <1>4, <1>7, <2>1
    <3>2. InOrder(Append(shown, L)) /\ Len(Append(shown, L)) = L + 1
      BY <1>1 DEF InOrder
    <3> QED BY <1>1, <2>1, <3>1, <3>2
  <2>2. CASE ~due
    BY <1>1, <1>7, <2>2
  <2> QED BY <2>1, <2>2
<1>9. Waiting(rest, K, n)
  <2>1. CASE due
    <3> DEFINE e == R!Reconned(x)
    <3>0. /\ IoAt(x, e) /\ x.set[e].cnt = L /\ e \in R!Entries
          /\ \A i \in R!Entries :
               (RefAt(rest, i) <=> RefAt(x, i)) /\ (IoAt(rest, i) <=> IoAt(x, i) /\ i # e)
      BY <1>4, <2>1
    <3>e. rest.set = x.set
      BY <1>5
    <3> HIDE DEF e, rest
    <3>1. ASSUME NEW i \in R!Entries, IoAt(rest, i)
          PROVE  Recon /\ rest.set[i].cnt \in K..n-1 /\ (AltRef = 0 => RefAt(rest, i))
      <4>1. IoAt(x, i) /\ i # e
        BY <3>0, <3>1
      <4>2. Recon /\ x.set[i].cnt \in L..n-1 /\ (AltRef = 0 => RefAt(x, i))
        BY <4>1 DEF Waiting
      <4>3. x.set[i].cnt # L
        BY <1>1, <1>3, <3>0, <4>1 DEF Placed
      <4> QED BY <1>1, <2>1, <3>0, <3>e, <4>2, <4>3
    <3>2. ASSUME Recon, NEW k \in K..n-1
          PROVE  \E i \in R!Entries : IoAt(rest, i) /\ rest.set[i].cnt = k
      <4>1. k \in L..n-1 /\ k # L
        BY <1>1, <2>1
      <4>2. PICK i \in R!Entries : IoAt(x, i) /\ x.set[i].cnt = k
        BY <3>2, <4>1 DEF Waiting
      <4> QED BY <3>0, <3>e, <4>1, <4>2
    <3> QED BY <3>1, <3>2 DEF Waiting
  <2>2. CASE ~due
    BY <2>2
  <2> QED BY <2>1, <2>2
<1>10. Numbered(rest, n)
  BY <1>5 DEF Numbered, R!Live
<1>11. ASSUME Recon, cnt > 0 \/ enc.last, L < n PROVE due
  <2>1. L \in L..n-1
    BY <1>1, <1>11
  <2> QED BY <1>11, <2>1 DEF Waiting
<1>12. held => Recon /\ K < n
  BY <1>1, <1>8, <1>9 DEF Waiting
<1>13. ASSUME ~held, Recon PROVE K = n
  <2>1. K \notin K..n-1
    BY <1>9, <1>13 DEF Waiting
  <2> HIDE DEF K
  <2> QED BY <1>8, <2>1
<1>14. out'.err = err /\ (out'.last <=> enc.last /\ ~held)
  BY <1>7, Zenon
<1>15. enc.last /\ (Recon => L + 1 >= n) => ~held
  BY <1>1, <1>8, <1>11, <1>12
<1> HIDE DEF due, rest, held
<1> QED BY <1>1, <1>5, <1>7, <1>8, <1>9, <1>10, <1>11, <1>13, <1>14, <1>15

\* There is an entry for the next picture: at most one picture is kept for
\* prediction besides it, or two when it is a B picture.
LEMMA RoomFor ==
  ASSUME MaxRef \in Nat \ {0}, NEW d, Kept(d), NEW type, type = "B" => MaxRef >= 2,
         \A i \in R!Entries : ~IoAt(d, i)
  PROVE  R!Live(Freed(d, type)) # R!Entries
<1> DEFINE r == Freed(d, type)
<1> SUFFICES ASSUME R!Live(r) = R!Entries PROVE FALSE
  OBVIOUS
<1>1. /\ Kept(r) /\ \A i \in R!Entries : RefAt(r, i)
      /\ type # "B" => \A i, j \in R!Entries : RefAt(r, i) /\ RefAt(r, j) => i = j
  BY FreedFacts
<1> HIDE DEF r
<1>2. 0 \in R!Entries /\ 1 \in R!Entries /\ (MaxRef >= 2 => 2 \in R!Entries)
  BY EntriesAre
<1>3. \E a \in R!Entries : \E b \in R!Entries : \A i \in R!Entries : i \in {a, b}
  BY <1>1 DEF Kept, Two
<1> QED BY <1>1, <1>2, <1>3

\* There is also one when the newest picture waits for its recon.
LEMMA RoomRecon ==
  ASSUME MaxRef \in Nat \ {0}, NEW d, Kept(d), NEW type, type # "B", NEW w \in R!Entries,
         \A i \in R!Entries : IoAt(d, i) => i = w,
         RefAt(d, w) =>
           \A i \in R!Entries : RefAt(d, i) => d.set[i].cnt <= d.set[w].cnt,
         RefAt(d, w) \/ MaxRef >= 2
  PROVE  R!Live(Freed(d, type)) # R!Entries
<1> DEFINE r == Freed(d, type)
<1> SUFFICES ASSUME R!Live(r) = R!Entries PROVE FALSE
  OBVIOUS
<1>1. /\ \A i \in R!Entries : RefAt(r, i) \/ i = w
      /\ RefAt(d, w) => RefAt(r, w)
      /\ \A i, j \in R!Entries : RefAt(r, i) /\ RefAt(r, j) => i = j
  BY FreedFacts
<1> HIDE DEF r
<1>2. 0 \in R!Entries /\ 1 \in R!Entries /\ (MaxRef >= 2 => 2 \in R!Entries)
  BY EntriesAre
<1> QED BY <1>1, <1>2

\* The picture k is not before an IDR picture of the first n.
AfterIdr(c, n, k) == \A j \in 1..n : c[j].type = "IDR" => j - 1 <= k

\* The list after the pictures c: one of them that can still be used is kept.
Linked(d, c) ==
  /\ Kept(d) /\ Numbered(d, Len(c))
  /\ c # << >> => \E i \in R!Entries : RefAt(d, i) /\ AfterIdr(c, Len(c), d.set[i].cnt)

\* The newest picture kept for prediction.
LEMMA NewestRef ==
  ASSUME MaxRef \in Nat, NEW S, NEW c \in Seq(S), c # << >>, NEW d, Linked(d, c)
  PROVE  \E a \in R!Entries :
           /\ RefAt(d, a) /\ a \in R!Live(d)
           /\ \A j \in R!Entries : RefAt(d, j) => d.set[j].cnt <= d.set[a].cnt
           /\ R!Refs(d) # << >> /\ R!Refs(d)[1] = a
           /\ d.set[a].poc = d.set[a].cnt /\ d.set[a].cnt \in 0..Len(c)-1
           /\ AfterIdr(c, Len(c), d.set[a].cnt)
<1> DEFINE M == {i \in R!Entries : RefAt(d, i)}
<1>1. Kept(d) /\ Shape(d) /\ Placed(d)
  BY DEF Linked, Kept
<1>2. PICK i \in R!Entries : RefAt(d, i) /\ AfterIdr(c, Len(c), d.set[i].cnt)
  BY DEF Linked
<1>3. \/ M = {} /\ R!Refs(d) = << >>
      \/ \E a \in M :
           /\ \A j \in M : d.set[j].cnt <= d.set[a].cnt
           /\ \/ M = {a} /\ R!Refs(d) = <<a>>
              \/ \E b \in M : b # a /\ M = {a, b} /\ R!Refs(d) = <<a, b>>
  BY <1>1, RefsFacts
<1>4. PICK a \in M : /\ \A j \in M : d.set[j].cnt <= d.set[a].cnt
                     /\ R!Refs(d) # << >> /\ R!Refs(d)[1] = a
  BY <1>2, <1>3
<1>5. \A j \in M : j \in R!Live(d) /\ d.set[j].poc = d.set[j].cnt /\ d.set[j].cnt \in 0..Len(c)-1
  BY <1>1, MarkedFacts DEF Linked, Numbered
<1>6. i \in M /\ d.set[i].cnt <= d.set[a].cnt
  BY <1>2, <1>4
<1>7. AfterIdr(c, Len(c), d.set[a].cnt)
  BY <1>2, <1>4, <1>5, <1>6 DEF AfterIdr
<1> QED BY <1>4, <1>5, <1>7

\* The list with the next picture.
LEMMA Joined ==
  ASSUME cfg \in Configs, NEW S, NEW c \in Seq(S), NEW d, Linked(d, c),
         NEW s \in Nat, Waiting(d, s, Len(c)), Recon => Len(c) <= s + 1, s <= Len(c),
         NEW pic \in S, NEW type \in {"IDR", "I", "P"}, pic.type = type, c = << >> => type # "P",
         NEW isRef \in BOOLEAN, type # "P" => isRef, AltRef = 0 => isRef,
         NEW x, Kept(x), NEW u \in R!Entries \ R!Live(Freed(d, type)),
         Became(Freed(d, type), x, u, Len(c), Len(c), isRef, Recon)
  PROVE  Linked(x, Append(c, pic)) /\ Waiting(x, s, Len(c) + 1)
<1> DEFINE r == Freed(d, type)
           n == Len(c)
           cc == Append(c, pic)
<1>1. MaxRef \in Nat /\ Recon \in BOOLEAN /\ n \in Nat /\ Len(cc) = n + 1 /\ cc # << >>
  <2>1. n \in Nat /\ Len(cc) = n + 1
    OBVIOUS
  <2>2. cc # << >>
    BY <2>1
  <2> QED BY <2>1, <2>2, ConfigFacts
<1>2. \A j \in 1..n : cc[j] = c[j]
  OBVIOUS
<1>2a. cc[n + 1] = pic
  OBVIOUS
<1>3. Kept(d) /\ Shape(d) /\ Placed(d) /\ Numbered(d, n)
  BY DEF Linked, Kept
<1>4. \A i \in R!Entries :
        /\ RefAt(r, i) => RefAt(d, i)
        /\ IoAt(r, i) <=> IoAt(d, i)
        /\ i \in R!Live(r) <=> RefAt(r, i) \/ IoAt(r, i)
        /\ i \in R!Live(r) => i \in R!Live(d) /\ r.set[i] = d.set[i]
        /\ RefAt(d, i) /\ (\A j \in R!Entries : RefAt(d, j) => d.set[j].cnt <= d.set[i].cnt)
             => RefAt(r, i)
  BY <1>1, <1>3, FreedFacts
<1> HIDE DEF r, cc
<1>5. /\ R!Live(x) = R!Live(r) \cup {u}
      /\ \A i \in R!Entries :
           /\ x.set[i].cnt = IF i = u THEN n ELSE r.set[i].cnt
           /\ x.set[i].poc = IF i = u THEN n ELSE r.set[i].poc
           /\ RefAt(x, i) <=> IF i = u THEN isRef ELSE RefAt(r, i)
           /\ IoAt(x, i) <=> IF i = u THEN Recon ELSE IoAt(r, i)
  BY DEF Became, r
<1>6. Numbered(x, n + 1)
  <2> SUFFICES ASSUME NEW i \in R!Live(x)
               PROVE  x.set[i].poc = x.set[i].cnt /\ x.set[i].cnt \in 0..n
    BY <1>1 DEF Numbered
  <2>1. CASE i = u
    BY <1>1, <1>5, <2>1
  <2>2. CASE i # u
    <3>1. i \in R!Live(r) /\ i \in R!Entries /\ i \in R!Live(d) /\ r.set[i] = d.set[i]
      BY <1>4, <1>5, <2>2, LiveIs
    <3>2. d.set[i].poc = d.set[i].cnt /\ d.set[i].cnt \in 0..n-1
      BY <1>3, <3>1 DEF Numbered
    <3>3. x.set[i].cnt = d.set[i].cnt /\ x.set[i].poc = d.set[i].poc
      BY <1>5, <2>2, <3>1
    <3> QED BY <1>1, <3>2, <3>3
  <2> QED BY <2>1, <2>2
<1>7. \E i \in R!Entries : RefAt(x, i) /\ AfterIdr(cc, n + 1, x.set[i].cnt)
  <2>1. CASE isRef
    <3>1. RefAt(x, u) /\ x.set[u].cnt = n
      BY <1>5, <2>1
    <3>2. AfterIdr(cc, n + 1, n)
      BY <1>1 DEF AfterIdr
    <3> QED BY <3>1, <3>2
  <2>2. CASE ~isRef
    <3>1. type = "P" /\ c # << >>
      BY <2>2
    <3>2. PICK a \in R!Entries :
           /\ RefAt(d, a) /\ a \in R!Live(d)
           /\ \A j \in R!Entries : RefAt(d, j) => d.set[j].cnt <= d.set[a].cnt
           /\ AfterIdr(c, n, d.set[a].cnt)
      BY <1>1, <3>1, NewestRef
    <3>3. RefAt(r, a) /\ a \in R!Live(r) /\ a # u /\ r.set[a] = d.set[a]
      BY <1>4, <3>2 DEF r
    <3>4. RefAt(x, a) /\ x.set[a].cnt = d.set[a].cnt
      BY <1>5, <3>3
    <3>5. ASSUME NEW j \in 1..n+1, cc[j].type = "IDR" PROVE j - 1 <= d.set[a].cnt
      <4>1. j \in 1..n /\ cc[j] = c[j]
        BY <1>1, <1>2, <1>2a, <3>1, <3>5
      <4> QED BY <3>2, <3>5, <4>1 DEF AfterIdr
    <3> QED BY <3>4, <3>5 DEF AfterIdr
  <2> QED BY <2>1, <2>2
<1>8. Waiting(x, s, n + 1)
  <2>1. ASSUME NEW i \in R!Entries, IoAt(x, i)
        PROVE  Recon /\ x.set[i].cnt \in s..n /\ (AltRef = 0 => RefAt(x, i))
    <3>1. CASE i = u
      BY <1>1, <1>5, <2>1, <3>1
    <3>2. CASE i # u
      <4>1. IoAt(d, i) /\ i \in R!Live(r) /\ i \in R!Live(d) /\ x.set[i].cnt = d.set[i].cnt
        BY <1>4, <1>5, <2>1, <3>2
      <4>2. Recon /\ d.set[i].cnt \in s..n-1 /\ (AltRef = 0 => RefAt(d, i))
        BY <4>1 DEF Waiting
      <4>3. \A j \in R!Entries : RefAt(d, j) => d.set[j].cnt \in 0..n-1
        BY <1>1, <1>3, MarkedFacts DEF Numbered
      <4>4. \A j \in R!Entries : RefAt(d, j) => d.set[j].cnt <= d.set[i].cnt
        BY <1>1, <4>2, <4>3
      <4>5. AltRef = 0 => RefAt(x, i)
        BY <1>4, <1>5, <3>2, <4>2, <4>4
      <4> QED BY <1>1, <4>1, <4>2, <4>5
    <3> QED BY <3>1, <3>2
  <2>2. ASSUME Recon, NEW k \in s..n
        PROVE  \E i \in R!Entries : IoAt(x, i) /\ x.set[i].cnt = k
    <3>1. CASE k = n
      BY <1>5, <2>2, <3>1
    <3>2. CASE k # n
      <4>1. k \in s..n-1
        BY <1>1, <3>2
      <4>2. PICK i \in R!Entries : IoAt(d, i) /\ d.set[i].cnt = k
        BY <2>2, <4>1 DEF Waiting
      <4>3. i \in R!Live(r) /\ IoAt(r, i) /\ i # u /\ r.set[i] = d.set[i]
        BY <1>4, <4>2 DEF r
      <4> QED BY <1>5, <4>2, <4>3
    <3> QED BY <3>1, <3>2
  <2>3. s..(n+1)-1 = s..n
    BY <1>1
  <2> QED BY <2>1, <2>2, <2>3 DEF Waiting
<1> QED BY <1>1, <1>6, <1>7, <1>8 DEF Linked, cc

\* The next picture finds its entry and buffers, and the list is right whether its
\* last row is coded or not.
LEMMA PictureFacts ==
  ASSUME cfg \in Configs, AltRef > 0 /\ Recon => MaxRef >= 2,
         NEW S, NEW c \in Seq(S), NEW d, Linked(d, c),
         NEW s \in Nat, Waiting(d, s, Len(c)), Recon => Len(c) <= s + 1, s <= Len(c),
         NEW pic \in S, NEW type \in {"IDR", "I", "P"}, pic.type = type, c = << >> => type # "P",
         NEW isRef \in BOOLEAN, type # "P" => isRef, AltRef = 0 => isRef
  PROVE  LET n == R!NewPicture(d, type, Len(c), Len(c), isRef, Recon)
             y == R!LastRowDone(n.refs, Len(c)) IN
         /\ n.err = "none"
         /\ Linked(y, Append(c, pic)) /\ Waiting(y, s, Len(c) + 1)
         /\ isRef => Linked(n.refs, Append(c, pic)) /\ Waiting(n.refs, s, Len(c) + 1)
<1> DEFINE n == R!NewPicture(d, type, Len(c), Len(c), isRef, Recon)
           y == R!LastRowDone(n.refs, Len(c))
           r == Freed(d, type)
<1>1. /\ MaxRef \in Nat /\ MaxRef \in Nat \ {0} /\ Recon \in BOOLEAN
      /\ AltRef \in Nat /\ Len(c) \in Nat
  BY ConfigFacts
<1>2. Kept(d) /\ Shape(d) /\ Placed(d) /\ Numbered(d, Len(c))
  BY DEF Linked, Kept
<1>3. R!Live(r) # R!Entries
  <2>1. CASE \A i \in R!Entries : ~IoAt(d, i)
    BY <1>1, <1>2, <2>1, RoomFor
  <2>2. ASSUME NEW w \in R!Entries, IoAt(d, w) PROVE R!Live(r) # R!Entries
    <3>1. \A i \in R!Entries : IoAt(d, i) =>
            Recon /\ d.set[i].cnt \in s..Len(c)-1 /\ (AltRef = 0 => RefAt(d, i))
      BY DEF Waiting
    <3>2. \A i \in R!Entries : RefAt(d, i) \/ IoAt(d, i) =>
            i \in R!Live(d) /\ d.set[i].cnt \in 0..Len(c)-1
      BY <1>1, <1>2, MarkedFacts DEF Numbered
    <3>3. d.set[w].cnt = Len(c) - 1 /\ w \in R!Live(d)
      BY <1>1, <2>2, <3>1, <3>2
    <3>4. \A i \in R!Entries : IoAt(d, i) => i = w
      <4> SUFFICES ASSUME NEW i \in R!Entries, IoAt(d, i) PROVE i = w
        OBVIOUS
      <4>1. d.set[i].cnt = Len(c) - 1 /\ i \in R!Live(d)
        BY <1>1, <3>1, <3>2
      <4> QED BY <1>2, <3>3, <4>1 DEF Placed
    <3>5. \A i \in R!Entries : RefAt(d, i) => d.set[i].cnt <= d.set[w].cnt
      BY <1>1, <3>2, <3>3
    <3>6. RefAt(d, w) \/ MaxRef >= 2
      BY <1>1, <2>2, <3>1
    <3> QED BY <1>1, <1>2, <3>4, <3>5, <3>6, RoomRecon
  <2> QED BY <2>1, <2>2
<1>4. \A i \in R!Live(d) : d.set[i].cnt < Len(c)
  BY <1>1, <1>2 DEF Numbered
<1>5. Leaves(r, n, y, Len(c), Len(c), isRef, Recon)
  BY <1>1, <1>2, <1>3, <1>4, EnteredFacts
<1> HIDE DEF n, y
<1>5a. /\ n.err = "none"
       /\ \E u \in R!Entries \ R!Live(r) :
            Kept(y) /\ Became(r, y, u, Len(c), Len(c), isRef, Recon)
       /\ isRef => \E u \in R!Entries \ R!Live(r) :
                     Kept(n.refs) /\ Became(r, n.refs, u, Len(c), Len(c), isRef, Recon)
  BY <1>5 DEF Leaves
<1>6. Linked(y, Append(c, pic)) /\ Waiting(y, s, Len(c) + 1)
  BY <1>5a, Joined
<1>7. ASSUME isRef PROVE Linked(n.refs, Append(c, pic)) /\ Waiting(n.refs, s, Len(c) + 1)
  BY <1>5a, <1>7, Joined
<1> QED BY <1>5a, <1>6, <1>7 DEF n, y

-----------------------------------------------------------------------------
(* Streams without B pictures: the invariant. *)

\* The intra interval does not change to one; a picture whose threads leave before
\* its last row is kept for prediction; and a picture that waits for its recon and
\* is no reference has an entry of its own.
Single ==
  /\ NumB = 0 /\ 1 \notin IntraChanges
  /\ Overflows => AltRef = 0
  /\ AltRef > 0 /\ Recon => MaxRef >= 2

\* A picture is put on the stack where the next one is read, and all buffers in
\* the input list have been used.
StackInv ==
  /\ ps \in Stacks /\ ps.newIntra # 1
  /\ ps.first /\ ps.disp = 0 => picCnt = -1
  /\ picCnt = -1 => ps.first /\ ps.disp = 0 /\ ps.refIdx = 0
  /\ picCnt >= 0 => ps.top \in 0..2
  /\ picCnt >= 0 /\ ~lastSeen => ps.top = ps.refIdx
  /\ ~lastSeen => ~pendingIdr /\ idrAsked = {}
  /\ pendingIdr \in BOOLEAN /\ lastSeen \in BOOLEAN /\ picCnt \in Nat \cup {-1}
  /\ inp \in [InpSlots -> [pic : {NoPic}, last : BOOLEAN]]

\* Every picture put in the queue has been coded at once, and numbered on.
SinglePics == [pic : Nat, type : {"IDR", "I", "P"}, poc : Nat, refs : Seq(Nat)]

CodedInv ==
  /\ coded \in Seq(SinglePics)
  /\ fed \in Nat
  /\ Len(coded) <= picCnt + 1 /\ (~lastSeen => Len(coded) = picCnt + 1)
  /\ \A i \in DOMAIN coded : coded[i].poc = i - 1 /\ coded[i].pic \in 1..fed
  /\ \A i, j \in DOMAIN coded : i < j => coded[i].pic < coded[j].pic
  /\ queued = {coded[i].pic : i \in DOMAIN coded}
  /\ IsFiniteSet(queued) /\ Cardinality(queued) = Len(coded)
  /\ \A n \in idrAsked : n \in Nat /\ n >= Len(coded)

\* What a picture is predicted from is earlier, and not before an IDR picture.
Predicted(c, i) ==
  /\ i = 1 => c[i].type = "IDR"
  /\ \A k \in DOMAIN c[i].refs : c[i].refs[k] \in 0..i-2
  /\ c[i].type = "P" => c[i].refs # << >> /\ AfterIdr(c, i, c[i].refs[1])

RefsInv == \A i \in DOMAIN coded : Predicted(coded, i)

\* The list, the pictures coded and the recon given back: at most the newest
\* picture waits.
Listed(d, c, s) ==
  /\ Linked(d, c) /\ InOrder(s)
  /\ Len(s) <= Len(c) /\ (Recon => Len(c) <= Len(s) + 1)
  /\ Waiting(d, Len(s), Len(c))

ListInv == Listed(dpb, coded, shown)

\* The stream ends with the call that gives back the last picture, which is one of
\* the first two after the end is seen.
EndInv ==
  /\ out.err \in {"none", "overflow"}
  /\ out.last /\ Recon => Len(shown) = Len(coded)
  /\ "flush" \notin Skips =>
       /\ ~lastSeen => flushes = 0
       /\ flushes \in {0, 1}
       /\ Going /\ lastSeen => flushes = 0 /\ ps.top = ps.refIdx /\ picCnt >= 0

SingleInv == StackInv /\ CodedInv /\ RefsInv /\ ListInv /\ EndInv

\* The list depends on the configuration besides.
LEMMA KeptNext ==
  ASSUME cfg' = cfg, Kept(dpb')
  PROVE  Kept(dpb)'
<1>1. Shape(dpb)'
  BY DEF Kept, Shape, Records, R!Entries, MaxRef, Statuses
<1>2. Placed(dpb)'
  BY DEF Kept, Placed, R!Live, R!Entries, MaxRef, Buf
<1>3. Paired(dpb)'
  BY DEF Kept, Paired, R!Entries, MaxRef, RefAt, Buf
<1>4. Two(dpb)'
  BY DEF Kept, Two, R!Entries, MaxRef, RefAt, Buf
<1> QED BY <1>1, <1>2, <1>3, <1>4 DEF Kept

\* So for what it says of the pictures coded and given back.
LEMMA ListedNext ==
  ASSUME cfg' = cfg, Listed(dpb', coded', shown')
  PROVE  ListInv'
<1>1. Kept(dpb)'
  BY KeptNext DEF Listed, Linked
<1>2. Linked(dpb, coded)'
  BY <1>1 DEF Listed, Linked, Numbered, R!Live, R!Entries, MaxRef, RefAt, Buf, AfterIdr
<1>3. Waiting(dpb, Len(shown), Len(coded))'
  BY DEF Listed, Waiting, R!Entries, MaxRef, RefAt, IoAt, Buf, Recon, AltRef
<1>4. InOrder(shown)'
  BY DEF Listed, InOrder
<1> QED BY <1>2, <1>3, <1>4 DEF ListInv, Listed, Recon

\* No entry is in use at first.
LEMMA InitList ==
  ASSUME Init, MaxRef \in Nat
  PROVE  Kept(dpb) /\ R!Live(dpb) = {} /\ \A i \in R!Entries : ~IoAt(dpb, i)
<1>1. R!B!AllFree = [b \in R!Entries |-> {}]
  BY DEF R!B!AllFree
<1> DEFINE e == [cnt |-> -1, poc |-> R!FarPoc, mv |-> 0, pic |-> 0]
           S == [i \in R!Entries |-> e]
           F == [b \in R!Entries |-> {}]
<1>2. dpb = [set |-> S, mv |-> F, pic |-> F]
  BY <1>1 DEF Init, R!InitRefSet
<1>3. \A i \in R!Entries : S[i] = e /\ F[i] = {}
  OBVIOUS
<1>4. e.cnt = -1 /\ e.mv = 0 /\ e.pic = 0 /\ e = [cnt |-> e.cnt, poc |-> e.poc, mv |-> e.mv, pic |-> e.pic]
  OBVIOUS
<1>5. S = [i \in R!Entries |-> S[i]] /\ DOMAIN F = R!Entries
      /\ F \in [R!Entries -> {{}, {"busy", "REF"}}] /\ F \in [R!Entries -> Statuses]
  BY DEF Statuses
<1> HIDE DEF S, F, e
<1>6. dpb.set = S /\ dpb.mv = F /\ dpb.pic = F
  BY <1>2
<1>7. 0 \in R!Entries
  BY EntriesAre
<1>8. \A i \in R!Entries : Buf(i) \in R!Entries
  BY BufFacts
<1>9. R!Live(dpb) = {}
  BY <1>3, <1>4, <1>6 DEF R!Live
<1>10. \A i \in R!Entries : ~RefAt(dpb, i) /\ ~IoAt(dpb, i) /\ dpb.pic[Buf(i)] = {}
  BY <1>3, <1>6, <1>8 DEF RefAt, IoAt
<1>11. Records(dpb)
  BY <1>2, <1>3, <1>4, <1>5, <1>6 DEF Records
<1>12. Shape(dpb)
  BY <1>3, <1>4, <1>5, <1>6, <1>7, <1>11 DEF Shape
<1>13. Placed(dpb) /\ Paired(dpb) /\ Two(dpb)
  BY <1>3, <1>6, <1>7, <1>9, <1>10 DEF Placed, Paired, Two
<1> QED BY <1>9, <1>10, <1>12, <1>13 DEF Kept

\* The invariant holds at first.
LEMMA SingleInit ==
  ASSUME Init, Single
  PROVE  SingleInv
<1>0. cfg \in Configs
  BY DEF Init
<1>1. /\ MaxInp \in Nat /\ MaxInp >= 2 /\ MaxRef \in Nat /\ Recon \in BOOLEAN
      /\ cfg.intra \in Nat \ {0} /\ NumB = 0
  BY <1>0, ConfigFacts DEF Single
<1>2. StackInv
  <2>1. ps = P!InitPicHandling(cfg.intra)
    BY DEF Init
  <2> DEFINE g == P!FindPicDistbn(cfg.intra)
  <2>2. g \in Gops /\ P!Slots = 0..2
    BY <1>1, DistbnFacts, NoBPictures
  <2> HIDE DEF g
  <2>3. ps = [stack |-> [i \in 0..2 |-> [id |-> 0, type |-> "I"]], top |-> -1,
              bIdx |-> 2, refIdx |-> 0, disp |-> 0, buf |-> 0,
              pCount |-> 0, bCount |-> 0, bSub |-> 0, first |-> TRUE,
              gop |-> g, prev |-> "I", force |-> FALSE, newIntra |-> 0]
    BY <2>1, <2>2 DEF P!InitPicHandling, g
  <2>4. ps \in Stacks /\ ps.newIntra = 0 /\ ps.first /\ ps.disp = 0 /\ ps.refIdx = 0
    BY <2>2, <2>3 DEF Stacks, Piles
  <2>5. inp \in [InpSlots -> [pic : {NoPic}, last : BOOLEAN]]
    BY DEF Init
  <2>6. picCnt = -1 /\ lastSeen = FALSE /\ pendingIdr = FALSE /\ idrAsked = {}
    BY DEF Init
  <2>7. /\ ~lastSeen => ~pendingIdr /\ idrAsked = {}
        /\ pendingIdr \in BOOLEAN /\ lastSeen \in BOOLEAN /\ picCnt \in Nat \cup {-1}
    BY <2>6
  <2>8. /\ ps.first /\ ps.disp = 0 => picCnt = -1
        /\ picCnt = -1 => ps.first /\ ps.disp = 0 /\ ps.refIdx = 0
    BY <2>4, <2>6
  <2>9. ~(picCnt >= 0) /\ ps.newIntra # 1
    BY <2>4, <2>6
  <2> QED BY <2>4, <2>5, <2>7, <2>8, <2>9 DEF StackInv
<1>3. CodedInv
  <2>1. queued = {} /\ coded = << >> /\ fed = 0 /\ picCnt = -1 /\ idrAsked = {}
    BY DEF Init
  <2>2. IsFiniteSet(queued) /\ Cardinality(queued) = 0
    BY <2>1, FS_EmptySet
  <2> QED BY <2>1, <2>2 DEF CodedInv
<1>4. RefsInv
  BY DEF RefsInv, Init
<1>5. ListInv
  <2>1. coded = << >> /\ shown = << >>
    BY DEF Init
  <2>2. Linked(dpb, coded)
    BY <1>1, <2>1, InitList DEF Linked, Numbered
  <2>3. Waiting(dpb, 0, 0)
    BY <1>1, InitList DEF Waiting
  <2> QED BY <2>1, <2>2, <2>3 DEF ListInv, Listed, InOrder
<1>6. EndInv
  BY DEF EndInv, Init, NoResult
<1> QED BY <1>2, <1>3, <1>4, <1>5, <1>6 DEF SingleInv

-----------------------------------------------------------------------------
(* Streams without B pictures: what is asked for, and the calls. *)

\* A state of such a stream.
Now == Single /\ cfg \in Configs /\ SingleInv

\* The parts of the invariant, and the types they need.
LEMMA NowFacts ==
  ASSUME Now
  PROVE  /\ StackInv /\ CodedInv /\ RefsInv /\ ListInv /\ EndInv /\ NumB = 0
         /\ MaxInp \in Nat /\ MaxInp >= 2 /\ MaxRef \in Nat /\ Recon \in BOOLEAN
         /\ AltRef \in Nat /\ IdrInterval \in Nat \ {0}
         /\ lastSeen \in BOOLEAN /\ pendingIdr \in BOOLEAN /\ picCnt \in Nat \cup {-1}
         /\ coded \in Seq(SinglePics) /\ Len(coded) \in Nat /\ Len(shown) \in Nat
BY ConfigFacts DEF Now, Single, SingleInv, StackInv, CodedInv, ListInv, Listed, InOrder

\* What the application asks for before a call.
LEMMA AskStep ==
  ASSUME Now, cfg' = cfg,
         \/ \E type \in Requests : SetFrameType(type)
         \/ \E n \in IntraChanges : SetIntraInterval(n)
  PROVE  SingleInv'
<1>1. /\ UNCHANGED <<inp, picCnt, pendingIdr, dpb, out, fed, flushes, lastSeen, history>>
      /\ ps' = ps \/ \E n \in IntraChanges : ps' = P!RegisterNewIntra(ps, n)
  BY DEF SetFrameType, SetIntraInterval, stackVars, appVars
<1>2. /\ ps' \in Stacks /\ ps'.newIntra # 1
      /\ ps'.first = ps.first /\ ps'.disp = ps.disp /\ ps'.refIdx = ps.refIdx /\ ps'.top = ps.top
  <2>1. ps \in Stacks /\ ps.newIntra # 1
    BY NowFacts DEF StackInv
  <2>2. CASE ps' = ps
    BY <2>1, <2>2
  <2>3. CASE \E n \in IntraChanges : ps' = P!RegisterNewIntra(ps, n)
    <3>1. PICK n \in IntraChanges : ps' = P!RegisterNewIntra(ps, n)
      BY <2>3
    <3>2. n \in Nat /\ n # 1
      BY ConfigFacts DEF Now, Single
    <3> QED BY <2>1, <3>1, <3>2, AskFacts
  <2> QED BY <1>1, <2>2, <2>3
<1>3. StackInv'
  BY <1>1, <1>2, NowFacts DEF StackInv, history
<1>4. CodedInv' /\ RefsInv'
  BY <1>1, NowFacts DEF CodedInv, RefsInv, Predicted, AfterIdr, history
<1>5. ListInv'
  <2>1. Listed(dpb', coded', shown')
    BY <1>1, NowFacts DEF ListInv, history
  <2> QED BY <2>1, ListedNext
<1>6. EndInv'
  BY <1>1, <1>2, NowFacts DEF EndInv, Going, history, Recon, Skips
<1> QED BY <1>3, <1>4, <1>5, <1>6 DEF SingleInv

\* What a call hands over.
LEMMA GiveFacts ==
  ASSUME Now, NEW in \in Input, Give(in)
  PROVE  /\ Going /\ in.pic \in Nat /\ in.last \in BOOLEAN
         /\ in.pic # NoPic => in.pic = fed + 1 /\ ~lastSeen
         /\ lastSeen => in.pic = NoPic /\ in.last
         /\ fed' = IF in.pic = NoPic THEN fed ELSE fed + 1
         /\ flushes' = IF lastSeen THEN flushes + 1 ELSE flushes
         /\ lastSeen' = (lastSeen \/ in.last) /\ lastSeen' \in BOOLEAN
         /\ in \in [pic : Nat, last : BOOLEAN]
<1>1. in \in [pic : Nat, last : BOOLEAN] /\ lastSeen \in BOOLEAN
  BY NowFacts DEF Input, Pictures, NoPic
<1>2. in.pic \in Nat /\ in.last \in BOOLEAN
  BY <1>1
<1>3. lastSeen => in = [pic |-> NoPic, last |-> TRUE]
  BY DEF Give
<1>4. ~lastSeen => in.pic = fed + 1 \/ in.pic = NoPic
  BY DEF Give
<1>5. /\ Going
      /\ fed' = IF in.pic = NoPic THEN fed ELSE in.pic
      /\ flushes' = IF lastSeen THEN flushes + 1 ELSE flushes
      /\ lastSeen' = (lastSeen \/ in.last)
  BY DEF Give
<1>6. lastSeen => in.pic = NoPic /\ in.last
  BY <1>3
<1> QED BY <1>1, <1>2, <1>4, <1>5, <1>6

\* The stack with the next picture on it.
LEMMA QueueFacts ==
  ASSUME Now
  PROVE  /\ Cnt \in Nat /\ Cnt >= Len(coded) /\ (~lastSeen => Cnt = Len(coded))
         /\ Stacked \in Stacks /\ Stacked.newIntra # 1 /\ ~(Stacked.first /\ Stacked.disp = 0)
         /\ Stacked.top \in 0..2 /\ Stacked.refIdx = (ps.refIdx + 1) % 3
         /\ Picked.id \in Int /\ Picked.type \in {"I", "P"} /\ PickedSlot \in InpSlots
         /\ picCnt = -1 \/ ps.top = ps.refIdx =>
              /\ Stacked.top = ps.refIdx /\ Picked.id = Cnt
              /\ Forced \/ Cnt = 0 => Picked.type = "I"
<1>1. /\ ps \in Stacks /\ ps.newIntra # 1 /\ NumB = 0 /\ MaxInp \in Nat /\ MaxInp >= 2
      /\ ps.first /\ ps.disp = 0 => picCnt = -1
      /\ picCnt = -1 => ps.first /\ ps.disp = 0 /\ ps.refIdx = 0
      /\ picCnt >= 0 => ps.top \in 0..2
      /\ picCnt \in Nat \cup {-1}
  BY NowFacts DEF StackInv
<1>2. Cnt \in Nat /\ Cnt >= Len(coded) /\ (~lastSeen => Cnt = Len(coded)) /\ (Cnt = 0 => picCnt = -1)
  BY <1>1, NowFacts DEF Cnt, CodedInv
<1> DEFINE s == IF Forced THEN P!SetForceI(ps) ELSE ps
           type == IF s.disp = 0 \/ s.force THEN "I" ELSE "P"
<1>3. /\ s \in Stacks /\ s.newIntra # 1 /\ s.first = ps.first /\ s.disp = ps.disp
      /\ s.refIdx = ps.refIdx /\ s.top = ps.top /\ (Forced => s.force)
  <2>1. CASE Forced
    BY <1>1, <2>1, AskFacts
  <2>2. CASE ~Forced
    BY <1>1, <2>2
  <2> QED BY <2>1, <2>2
<1>4. Stacked = P!AddPic(s, Cnt)
  BY DEF Stacked
<1> HIDE DEF s
<1>5. /\ Stacked \in Stacks /\ (Stacked.first => Stacked.disp # 0)
      /\ Stacked.top = IF s.first /\ s.disp = 0 THEN 0 ELSE s.top
      /\ Stacked.newIntra # 1
      /\ Stacked.refIdx = (s.refIdx + 1) % 3
      /\ Stacked.stack = [s.stack EXCEPT ![s.refIdx] = [id |-> Cnt, type |-> type]]
  BY <1>1, <1>2, <1>3, <1>4, AddPicFacts
<1> HIDE DEF type
<1>6. Stacked.top \in 0..2
  BY <1>1, <1>3, <1>5
<1>7. Picked = Stacked.stack[Stacked.top]
  BY DEF Picked, P!TopPic
<1>8. Stacked.stack \in Piles /\ s.stack \in Piles /\ s.refIdx \in 0..2
  BY <1>3, <1>5 DEF Stacks
<1>9. Picked.id \in Int /\ Picked.type \in {"I", "P"}
  BY <1>6, <1>7, <1>8 DEF Piles
<1>10. PickedSlot \in InpSlots
  BY <1>1, <1>9 DEF PickedSlot, InpSlots
<1>11. ASSUME picCnt = -1 \/ ps.top = ps.refIdx
       PROVE  /\ Stacked.top = ps.refIdx /\ Picked.id = Cnt
              /\ Forced \/ Cnt = 0 => Picked.type = "I"
  <2>1. Stacked.top = ps.refIdx
    BY <1>1, <1>3, <1>5, <1>11
  <2>2. Picked = [id |-> Cnt, type |-> type]
    BY <1>3, <1>5, <1>7, <1>8, <2>1 DEF Piles
  <2>3. Picked.id = Cnt /\ Picked.type = type
    BY <2>2
  <2>4. Forced \/ Cnt = 0 => type = "I"
    BY <1>1, <1>2, <1>3 DEF type
  <2> QED BY <2>1, <2>3, <2>4
<1> QED BY <1>2, <1>3, <1>5, <1>6, <1>9, <1>10, <1>11

\* The buffer that is taken out of the queue: the one that is put in it, or else an
\* empty one.
LEMMA SlotFacts ==
  ASSUME Now, NEW in \in [pic : Nat, last : BOOLEAN]
  PROVE  /\ EncBuf(in).last \in BOOLEAN /\ EncBuf(in).pic \in {NoPic, in.pic}
         /\ PickedSlot = Cnt % MaxInp => EncBuf(in) = in
         /\ Dequeue(in) /\ (PickedSlot = Cnt % MaxInp \/ in.pic = NoPic) =>
              inp' \in [InpSlots -> [pic : {NoPic}, last : BOOLEAN]]
<1> DEFINE slots == Queued(in)
           c == Cnt % MaxInp
<1>1. inp \in [InpSlots -> [pic : {NoPic}, last : BOOLEAN]]
  BY NowFacts DEF StackInv
<1>2. c \in InpSlots /\ PickedSlot \in InpSlots
  BY QueueFacts, NowFacts DEF InpSlots
<1>3. slots = [inp EXCEPT ![c] = in]
  BY DEF Queued
<1>4. EncSlot(slots) = PickedSlot
  BY NowFacts DEF EncSlot, Trailing
<1> HIDE DEF slots, c
<1>5. /\ slots \in [InpSlots -> [pic : Nat, last : BOOLEAN]] /\ slots[c] = in
      /\ \A i \in InpSlots : i # c => slots[i] = inp[i] /\ inp[i].pic = NoPic
  BY <1>1, <1>2, <1>3 DEF NoPic
<1>6. EncBuf(in) = slots[PickedSlot]
  BY <1>4 DEF EncBuf, slots
<1>7. EncBuf(in).last \in BOOLEAN /\ EncBuf(in).pic \in {NoPic, in.pic}
  <2>1. slots[PickedSlot].last \in BOOLEAN
    BY <1>2, <1>5
  <2>2. slots[PickedSlot].pic \in {NoPic, in.pic}
    BY <1>2, <1>5
  <2> QED BY <1>6, <2>1, <2>2
<1>8. ASSUME Dequeue(in), PickedSlot = c \/ in.pic = NoPic
      PROVE  inp' \in [InpSlots -> [pic : {NoPic}, last : BOOLEAN]]
  <2>1. inp' = [[slots EXCEPT ![EncSlot(slots)] = slots[PickedSlot]] EXCEPT ![PickedSlot].pic = NoPic]
    BY <1>8 DEF Dequeue, slots
  <2>2. [slots EXCEPT ![EncSlot(slots)] = slots[PickedSlot]] = slots
    BY <1>2, <1>4, <1>5
  <2> DEFINE b == slots[PickedSlot]
  <2>3. b \in [pic : Nat, last : BOOLEAN]
    BY <1>2, <1>5
  <2> DEFINE e == [b EXCEPT !.pic = NoPic]
  <2>4. e \in [pic : {NoPic}, last : BOOLEAN]
    BY <2>3 DEF NoPic
  <2>5. inp' = [slots EXCEPT ![PickedSlot] = e]
    BY <2>1, <2>2
  <2>6. \A i \in InpSlots : i # PickedSlot => slots[i] \in [pic : {NoPic}, last : BOOLEAN]
    <3> SUFFICES ASSUME NEW i \in InpSlots, i # PickedSlot
                 PROVE  slots[i] \in [pic : {NoPic}, last : BOOLEAN]
      OBVIOUS
    <3>1. CASE i # c
      BY <1>1, <1>5, <3>1
    <3>2. CASE i = c
      <4>1. in.pic = NoPic /\ slots[i] = in
        BY <1>5, <1>8, <3>2
      <4> QED BY <4>1
    <3> QED BY <3>1, <3>2
  <2> HIDE DEF e
  <2> QED BY <1>2, <1>5, <2>4, <2>5, <2>6
<1> QED BY <1>5, <1>6, <1>7, <1>8 DEF c

\* Nothing is coded, and what is given back leaves the list right.
LEMMA GiveBackStep ==
  ASSUME Now, cfg' = cfg, UNCHANGED coded, NEW cnt \in Int, NEW enc, enc.last \in BOOLEAN,
         GiveBack(dpb, cnt, enc, "none")
  PROVE  /\ ListInv' /\ out'.err = "none"
         /\ out'.last /\ Recon => Len(shown') = Len(coded')
         /\ enc.last => out'.last
<1> DEFINE n == Len(coded)
<1>1. /\ Linked(dpb, coded) /\ InOrder(shown) /\ Len(shown) <= n /\ Waiting(dpb, Len(shown), n)
      /\ n \in Nat /\ Len(shown) \in Nat /\ (Recon => n <= Len(shown) + 1) /\ cfg \in Configs
      /\ NumB = 0
  BY NowFacts DEF ListInv, Listed, Now
<1>2. Kept(dpb) /\ Numbered(dpb, n)
  BY <1>1 DEF Linked
<1>3. /\ Kept(dpb') /\ Numbered(dpb', n)
      /\ \A i \in R!Entries : (RefAt(dpb', i) <=> RefAt(dpb, i)) /\ dpb'.set[i] = dpb.set[i]
      /\ InOrder(shown') /\ Len(shown') <= n /\ Waiting(dpb', Len(shown'), n)
      /\ Len(shown') >= Len(shown)
      /\ out'.err = "none"
      /\ out'.last => enc.last /\ (Recon => Len(shown') = n)
      /\ enc.last /\ (Recon => Len(shown) + 1 >= n) => out'.last
  BY <1>1, <1>2, GiveBackFacts
<1>4. Linked(dpb', coded)
  BY <1>1, <1>3 DEF Linked
<1>5. Len(shown') \in Nat
  BY <1>3 DEF InOrder
<1>6. Listed(dpb', coded', shown')
  BY <1>1, <1>3, <1>4, <1>5 DEF Listed
<1> QED BY <1>1, <1>3, <1>5, <1>6, ListedNext

\* A call without a picture.
LEMMA NoInputStep ==
  ASSUME Now, cfg' = cfg, NEW in \in Input, EncodeNoInput(in)
  PROVE  SingleInv'
<1>1. /\ Give(in) /\ in.pic = NoPic /\ ~lastSeen'
      /\ UNCHANGED <<ps, inp, picCnt, pendingIdr, queued, idrAsked, coded>>
      /\ GiveBack(dpb, picCnt, in, "none")
  BY DEF EncodeNoInput, stackVars
<1>2. /\ Going /\ ~lastSeen /\ lastSeen' \in BOOLEAN /\ in.last \in BOOLEAN
      /\ picCnt \in Int /\ fed' = fed /\ flushes' = flushes
  BY <1>1, GiveFacts, NowFacts
<1>3. ListInv' /\ out'.err = "none" /\ (out'.last /\ Recon => Len(shown') = Len(coded'))
  BY <1>1, <1>2, GiveBackStep
<1>4. StackInv' /\ CodedInv' /\ RefsInv'
  <2>1. StackInv'
    BY <1>1, <1>2, NowFacts DEF StackInv
  <2>2. CodedInv'
    BY <1>1, <1>2, NowFacts DEF CodedInv
  <2>3. RefsInv'
    BY <1>1, NowFacts DEF RefsInv, Predicted, AfterIdr
  <2> QED BY <2>1, <2>2, <2>3
<1>5. EndInv'
  BY <1>1, <1>2, <1>3, NowFacts DEF EndInv, Going, Recon, Skips
<1> QED BY <1>3, <1>4, <1>5 DEF SingleInv

\* A call whose source is skipped.
LEMMA SkipStep ==
  ASSUME Now, cfg' = cfg, NEW in \in Input, EncodeSkip(in)
  PROVE  SingleInv'
<1>1. /\ Give(in)
      /\ (IF lastSeen' THEN "flush" ELSE "feed") \in Skips
      /\ UNCHANGED <<ps, inp, picCnt, pendingIdr, dpb, queued, idrAsked, coded, shown>>
      /\ out' = [last |-> in.last /\ ~(Recon /\ R!Marked(dpb, "IO") # {}), err |-> "none"]
  BY DEF EncodeSkip, stackVars, history
<1>2. /\ fed \in Nat /\ fed' \in Nat /\ fed' >= fed
      /\ lastSeen' \in BOOLEAN /\ (lastSeen => lastSeen')
      /\ flushes' = IF lastSeen THEN flushes + 1 ELSE flushes
  <2>1. fed \in Nat
    BY NowFacts DEF CodedInv
  <2> QED BY <1>1, <2>1, GiveFacts
<1>3. StackInv'
  BY <1>1, <1>2, NowFacts DEF StackInv
<1>4. CodedInv'
  <2>1. \A i \in DOMAIN coded : coded[i].pic \in 1..fed'
    BY <1>2, NowFacts DEF CodedInv
  <2> QED BY <1>1, <1>2, <2>1, NowFacts DEF CodedInv
<1>5. RefsInv'
  BY <1>1, NowFacts DEF RefsInv, Predicted, AfterIdr
<1>6. ListInv'
  <2>1. Listed(dpb', coded', shown')
    BY <1>1, NowFacts DEF ListInv
  <2> QED BY <2>1, ListedNext
<1>7. out'.err = "none" /\ (out'.last => ~(Recon /\ R!Marked(dpb, "IO") # {}))
  BY <1>1, Zenon
<1>8. ASSUME out'.last, Recon PROVE Len(shown) = Len(coded)
  <2>1. Linked(dpb, coded) /\ Waiting(dpb, Len(shown), Len(coded)) /\ Len(shown) <= Len(coded)
    BY NowFacts DEF ListInv, Listed
  <2>2. R!Marked(dpb, "IO") = {i \in R!Entries : IoAt(dpb, i)}
    BY <2>1, NowFacts, MarkedFacts DEF Linked, Kept
  <2>3. \A i \in R!Entries : ~IoAt(dpb, i)
    BY <1>7, <1>8, <2>2
  <2>4. Len(shown) \notin Len(shown)..Len(coded)-1
    BY <1>8, <2>1, <2>3 DEF Waiting
  <2> QED BY <2>1, <2>4, NowFacts
<1>9. EndInv'
  <2>1. "flush" \notin Skips => ~lastSeen /\ ~lastSeen'
    BY <1>1, <1>2
  <2> QED BY <1>1, <1>2, <1>7, <1>8, <2>1, NowFacts DEF EndInv, Recon, Skips
<1> QED BY <1>3, <1>4, <1>5, <1>6, <1>9 DEF SingleInv

\* Where the picture that is put in the queue is the one at the head of the stack.
LEMMA HeadFacts ==
  ASSUME Now, NEW in \in Input, Queue(in), Going, lastSeen => "flush" \notin Skips
  PROVE  /\ Picked.id = Cnt /\ (Forced \/ Cnt = 0 => Picked.type = "I")
         /\ Stacked.top = ps.refIdx /\ EncBuf(in) = in
<1>1. in \in [pic : Nat, last : BOOLEAN]
  BY GiveFacts DEF Queue
<1>2. picCnt = -1 \/ ps.top = ps.refIdx
  BY NowFacts DEF StackInv, EndInv
<1>3. /\ Picked.id = Cnt /\ (Forced \/ Cnt = 0 => Picked.type = "I")
      /\ Stacked.top = ps.refIdx
  BY <1>2, QueueFacts
<1>4. PickedSlot = Cnt % MaxInp
  BY <1>3 DEF PickedSlot
<1> QED BY <1>1, <1>3, <1>4, SlotFacts

\* A call that finds an empty buffer: the stream has ended.
LEMMA EmptyStep ==
  ASSUME Now, cfg' = cfg, NEW in \in Input, EncodeEmpty(in)
  PROVE  SingleInv'
<1>1. /\ Dequeue(in) /\ Queue(in) /\ Give(in) /\ (in.pic # NoPic \/ lastSeen')
      /\ EncBuf(in).pic = NoPic
      /\ picCnt' = Cnt /\ queued' = IF in.pic = NoPic THEN queued ELSE queued \cup {in.pic}
      /\ pendingIdr' = ((pendingIdr \/ IdrDue) /\ Picked.type # "I")
      /\ ps' = P!GotPic(Stacked) /\ idrAsked' = Asked /\ UNCHANGED coded
      /\ GiveBack(dpb, Cnt, EncBuf(in), "none")
  BY DEF EncodeEmpty, Dequeue, Queue
<1>2. /\ Going /\ in.pic \in Nat /\ in.last \in BOOLEAN
      /\ in.pic # NoPic => ~lastSeen
      /\ lastSeen => in.last
      /\ fed' = IF in.pic = NoPic THEN fed ELSE fed + 1
      /\ flushes' = IF lastSeen THEN flushes + 1 ELSE flushes
      /\ lastSeen' = (lastSeen \/ in.last) /\ lastSeen' \in BOOLEAN
      /\ in \in [pic : Nat, last : BOOLEAN]
  BY <1>1, GiveFacts
<1>3. in.pic = NoPic /\ lastSeen' /\ in.last
  <2>1. CASE lastSeen
    BY <1>2, <2>1
  <2>2. CASE ~lastSeen
    <3>1. EncBuf(in) = in
      BY <1>1, <1>2, <2>2, HeadFacts
    <3> QED BY <1>1, <1>2, <2>2, <3>1
  <2> QED BY <2>1, <2>2
<1>4. /\ Cnt \in Nat /\ Cnt >= Len(coded)
      /\ Stacked \in Stacks /\ Stacked.newIntra # 1 /\ ~(Stacked.first /\ Stacked.disp = 0)
      /\ Stacked.top \in 0..2
  BY QueueFacts
<1>5. ListInv' /\ out'.err = "none"
      /\ (out'.last /\ Recon => Len(shown') = Len(coded'))
      /\ (EncBuf(in).last => out'.last)
  <2>1. EncBuf(in).last \in BOOLEAN
    BY <1>2, SlotFacts
  <2> QED BY <1>1, <1>4, <2>1, GiveBackStep
<1>6. StackInv'
  <2>1. /\ ps' \in Stacks /\ ps'.first = Stacked.first /\ ps'.disp = Stacked.disp
        /\ ps'.newIntra = Stacked.newIntra /\ ps'.top = Stacked.top
    BY <1>1, <1>4, GotPicFacts
  <2>2. inp' \in [InpSlots -> [pic : {NoPic}, last : BOOLEAN]]
    BY <1>1, <1>2, <1>3, SlotFacts
  <2>3. pendingIdr' \in BOOLEAN
    BY <1>1
  <2> QED BY <1>1, <1>2, <1>3, <1>4, <2>1, <2>2, <2>3 DEF StackInv
<1>7. CodedInv'
  <2>1. queued' = queued /\ fed' = fed
    BY <1>1, <1>2, <1>3
  <2>2. Len(coded) <= Cnt + 1
    BY <1>4, NowFacts
  <2>3. \A n \in Asked : n \in Nat /\ n >= Len(coded)
    <3>1. Asked \subseteq idrAsked \cup {Cnt}
      BY DEF Asked
    <3>2. \A n \in idrAsked : n \in Nat /\ n >= Len(coded)
      BY NowFacts DEF CodedInv
    <3> QED BY <1>4, <3>1, <3>2
  <2> QED BY <1>1, <1>3, <2>1, <2>2, <2>3, NowFacts DEF CodedInv
<1>8. RefsInv'
  BY <1>1, NowFacts DEF RefsInv, Predicted, AfterIdr
<1>9. EndInv'
  <2>1. ASSUME "flush" \notin Skips PROVE out'.last /\ flushes' \in {0, 1}
    <3>1. EncBuf(in) = in
      BY <1>1, <1>2, <2>1, HeadFacts
    <3>2. flushes = 0
      BY <1>2, <2>1, NowFacts DEF EndInv
    <3> QED BY <1>2, <1>3, <1>5, <3>1, <3>2
  <2> QED BY <1>3, <1>5, <2>1 DEF EndInv, Going, Recon, Skips
<1> QED BY <1>5, <1>6, <1>7, <1>8, <1>9 DEF SingleInv

\* The picture that is coded is the one the call hands over: with its number in the
\* stream, an IDR picture when one is due, and predicted from the newest reference.
LEMMA CodedFacts ==
  ASSUME Now, NEW in \in Input, Queue(in), EncBuf(in).pic # NoPic
  PROVE  /\ ~lastSeen /\ in.pic = fed + 1 /\ EncBuf(in) = in /\ Going
         /\ Picked.id = Cnt /\ Cnt = Len(coded) /\ Stacked.top = ps.refIdx
         /\ PickedType \in {"IDR", "I", "P"}
         /\ IdrDue => PickedType = "IDR" /\ Picked.type = "I"
         /\ PickedType = "IDR" => IdrDue
         /\ coded = << >> => PickedType = "IDR"
         /\ PickedType # "P" => RefPocs = << >>
         /\ PickedType = "P" =>
              \E k \in 0..Len(coded)-1 : RefPocs = <<k, k>> /\ AfterIdr(coded, Len(coded), k)
<1>1. Give(in)
  BY DEF Queue
<1>2. /\ Going /\ in.pic \in Nat /\ in \in [pic : Nat, last : BOOLEAN]
      /\ in.pic # NoPic => in.pic = fed + 1 /\ ~lastSeen
  BY <1>1, GiveFacts
<1>3. in.pic = fed + 1 /\ ~lastSeen
  BY <1>2, SlotFacts
<1>4. /\ Picked.id = Cnt /\ (Forced \/ Cnt = 0 => Picked.type = "I")
      /\ Stacked.top = ps.refIdx /\ EncBuf(in) = in
  BY <1>2, <1>3, HeadFacts
<1>5. Cnt \in Nat /\ Cnt = Len(coded) /\ Picked.type \in {"I", "P"}
  BY <1>3, QueueFacts
<1>6. ~pendingIdr /\ IdrInterval \in Nat \ {0} /\ Len(coded) \in Nat
  BY <1>3, NowFacts DEF StackInv
<1>7. Cnt = 0 => IdrDue
  BY <1>6 DEF IdrDue
<1>8. IdrDue => Picked.type = "I"
  BY <1>4, <1>5 DEF Forced
<1>9. PickedType = IF Picked.type = "I" /\ IdrDue THEN "IDR" ELSE Picked.type
  BY <1>6 DEF PickedType
<1>10. PickedType \in {"IDR", "I", "P"} /\ (IdrDue => PickedType = "IDR")
       /\ (PickedType = "IDR" => IdrDue)
  BY <1>5, <1>8, <1>9
<1>11. coded = << >> => PickedType = "IDR"
  BY <1>5, <1>7, <1>10
<1>12. PickedType # "P" => RefPocs = << >>
  BY <1>10 DEF RefPocs
<1>13. ASSUME PickedType = "P"
       PROVE  \E k \in 0..Len(coded)-1 : RefPocs = <<k, k>> /\ AfterIdr(coded, Len(coded), k)
  <2>1. coded # << >> /\ coded \in Seq(SinglePics) /\ MaxRef \in Nat /\ Linked(dpb, coded)
    BY <1>11, <1>13, NowFacts DEF ListInv, Listed
  <2>2. PICK a \in R!Entries :
          /\ R!Refs(dpb) # << >> /\ R!Refs(dpb)[1] = a
          /\ dpb.set[a].poc = dpb.set[a].cnt /\ dpb.set[a].cnt \in 0..Len(coded)-1
          /\ AfterIdr(coded, Len(coded), dpb.set[a].cnt)
    BY <2>1, NewestRef
  <2>3. RefPocs = <<dpb.set[a].poc, dpb.set[a].poc>>
    BY <1>13, <2>2 DEF RefPocs
  <2> QED BY <2>2, <2>3
<1> QED BY <1>2, <1>3, <1>4, <1>5, <1>8, <1>10, <1>11, <1>12, <1>13

\* The picture is added to those coded.
LEMMA CodedStep ==
  ASSUME Now, NEW p \in SinglePics, coded' = Append(coded, p), p.poc = Len(coded),
         p.pic = fed + 1, fed' = fed + 1, queued' = queued \cup {fed + 1},
         Len(coded) = picCnt + 1, picCnt' = picCnt + 1, idrAsked' = {}
  PROVE  CodedInv'
<1> DEFINE n == Len(coded)
<1>1. /\ coded \in Seq(SinglePics) /\ fed \in Nat /\ n \in Nat /\ picCnt \in Int
      /\ \A i \in DOMAIN coded : coded[i].poc = i - 1 /\ coded[i].pic \in 1..fed
      /\ \A i, j \in DOMAIN coded : i < j => coded[i].pic < coded[j].pic
      /\ queued = {coded[i].pic : i \in DOMAIN coded}
      /\ IsFiniteSet(queued) /\ Cardinality(queued) = n
  BY NowFacts DEF CodedInv
<1>2. /\ coded' \in Seq(SinglePics) /\ Len(coded') = n + 1 /\ DOMAIN coded' = 1..n+1
      /\ DOMAIN coded = 1..n
      /\ \A i \in 1..n : coded'[i] = coded[i]
      /\ coded'[n + 1] = p
  BY <1>1
<1>3. \A i \in DOMAIN coded' : coded'[i].poc = i - 1 /\ coded'[i].pic \in 1..fed'
  BY <1>1, <1>2
<1>4. \A i, j \in DOMAIN coded' : i < j => coded'[i].pic < coded'[j].pic
  <2> SUFFICES ASSUME NEW i \in DOMAIN coded', NEW j \in DOMAIN coded', i < j
               PROVE  coded'[i].pic < coded'[j].pic
    OBVIOUS
  <2>1. i \in 1..n /\ coded'[i] = coded[i] /\ coded[i].pic \in 1..fed
    BY <1>1, <1>2
  <2>2. CASE j = n + 1
    BY <1>1, <1>2, <2>1, <2>2
  <2>3. CASE j # n + 1
    BY <1>1, <1>2, <2>1, <2>3
  <2> QED BY <2>2, <2>3
<1>5. queued' = {coded'[i].pic : i \in DOMAIN coded'}
  <2>1. {coded'[i].pic : i \in DOMAIN coded'} = {coded[i].pic : i \in 1..n} \cup {fed + 1}
    BY <1>1, <1>2
  <2> QED BY <1>1, <1>2, <2>1
<1>6. IsFiniteSet(queued') /\ Cardinality(queued') = n + 1
  <2>1. fed + 1 \notin queued
    BY <1>1
  <2>2. /\ IsFiniteSet(queued \cup {fed + 1})
        /\ Cardinality(queued \cup {fed + 1}) = Cardinality(queued) + 1
    BY <1>1, <2>1, FS_AddElement
  <2> QED BY <1>1, <2>2
<1>7. picCnt' + 1 = n + 1
  BY <1>1
<1> QED BY <1>1, <1>2, <1>3, <1>4, <1>5, <1>6, <1>7 DEF CodedInv

\* And so are its references.
LEMMA RefsStep ==
  ASSUME Now, NEW p \in SinglePics, coded' = Append(coded, p),
         coded = << >> => p.type = "IDR", p.type # "P" => p.refs = << >>,
         p.type = "P" =>
           \E k \in 0..Len(coded)-1 : p.refs = <<k, k>> /\ AfterIdr(coded, Len(coded), k)
  PROVE  RefsInv'
<1> DEFINE n == Len(coded)
<1>1. /\ n \in Nat /\ DOMAIN coded' = 1..n+1 /\ DOMAIN coded = 1..n
      /\ \A i \in 1..n : coded'[i] = coded[i]
      /\ coded'[n + 1] = p
  BY NowFacts
<1>2. \A i \in 1..n : Predicted(coded, i)
  BY <1>1, NowFacts DEF RefsInv
<1>3. ASSUME NEW i \in 1..n PROVE Predicted(coded', i)
  <2>1. \A j \in 1..i : j \in 1..n /\ coded'[j] = coded[j]
    BY <1>1
  <2>2. coded'[i] = coded[i] /\ i \in 1..i
    BY <1>1
  <2> QED BY <1>2, <2>1, <2>2 DEF Predicted, AfterIdr
<1>4. Predicted(coded', n + 1)
  <2>1. n + 1 = 1 => p.type = "IDR"
    BY <1>1
  <2>2. CASE p.type # "P"
    BY <1>1, <2>1, <2>2 DEF Predicted
  <2>3. CASE p.type = "P"
    <3>1. PICK k \in 0..n-1 : p.refs = <<k, k>> /\ AfterIdr(coded, n, k)
      BY <2>3
    <3>2. AfterIdr(coded', n + 1, k)
      <4> SUFFICES ASSUME NEW j \in 1..n+1, coded'[j].type = "IDR" PROVE j - 1 <= k
        BY DEF AfterIdr
      <4>1. j \in 1..n /\ coded'[j] = coded[j]
        BY <1>1, <2>3
      <4> QED BY <3>1, <4>1 DEF AfterIdr
    <3>3. p.refs # << >> /\ p.refs[1] = k /\ \A x \in DOMAIN p.refs : p.refs[x] = k
      BY <3>1
    <3>4. k \in 0..(n+1)-2
      BY <1>1
    <3> HIDE DEF n
    <3> QED BY <1>1, <2>1, <3>2, <3>3, <3>4 DEF Predicted
  <2> QED BY <2>2, <2>3
<1>5. \A i \in DOMAIN coded' : i \in 1..n \/ i = n + 1
  BY <1>1
<1> QED BY <1>3, <1>4, <1>5 DEF RefsInv

\* The list and the recon after a picture.
LEMMA PictureListed ==
  ASSUME Now, cfg' = cfg, NEW in \in Input, EncodePicture(in), EncBuf(in) = in,
         NEW p \in SinglePics, p.type = PickedType, coded' = Append(coded, p),
         PickedType \in {"IDR", "I", "P"}, coded = << >> => PickedType = "IDR",
         Picked.id = Cnt, Cnt = Len(coded)
  PROVE  /\ ListInv' /\ out'.err \in {"none", "overflow"}
         /\ out'.last => in.last /\ (Recon => Len(shown') = Len(coded'))
<1> DEFINE n == R!NewPicture(dpb, PickedType, Len(coded), Len(coded), IsRef, Recon)
           y == R!LastRowDone(n.refs, Len(coded))
           c == Append(coded, p)
           s == Len(shown)
           N == Len(coded) + 1
<1>1. /\ cfg \in Configs /\ NumB = 0 /\ (AltRef > 0 /\ Recon => MaxRef >= 2)
      /\ Overflows => AltRef = 0
      /\ AltRef \in Nat /\ Recon \in BOOLEAN
  BY NowFacts DEF Now, Single
<1>2. /\ Linked(dpb, coded) /\ s \in Nat /\ Waiting(dpb, s, Len(coded)) /\ s <= Len(coded)
      /\ Recon => Len(coded) <= s + 1
      /\ InOrder(shown) /\ coded \in Seq(SinglePics) /\ Len(coded) \in Nat
  BY NowFacts DEF ListInv, Listed
<1>3. /\ IsRef \in BOOLEAN /\ (PickedType # "P" => IsRef) /\ (AltRef = 0 => IsRef)
  BY <1>1 DEF IsRef
<1>4. /\ Linked(y, c) /\ Waiting(y, s, N)
      /\ IsRef => Linked(n.refs, c) /\ Waiting(n.refs, s, N)
  BY <1>1, <1>2, <1>3, PictureFacts
<1>5. NewPic = n
  BY DEF NewPic
<1>6. /\ Give(in)
      /\ \/ GiveBack(R!LastRowDone(NewPic.refs, Cnt), Cnt, EncBuf(in), "none")
         \/ Overflows /\ GiveBack(NewPic.refs, Cnt, EncBuf(in), "overflow")
  BY DEF EncodePicture, Dequeue, Queue
<1> HIDE DEF n, y
<1>7. \E x, err : /\ err \in {"none", "overflow"} /\ Linked(x, c) /\ Waiting(x, s, N)
                  /\ GiveBack(x, Len(coded), in, err)
  <2>1. CASE GiveBack(R!LastRowDone(NewPic.refs, Cnt), Cnt, EncBuf(in), "none")
    <3>1. GiveBack(y, Len(coded), in, "none")
      BY <1>5, <2>1 DEF y
    <3> QED BY <1>4, <3>1
  <2>2. CASE Overflows /\ GiveBack(NewPic.refs, Cnt, EncBuf(in), "overflow")
    <3>1. GiveBack(n.refs, Len(coded), in, "overflow") /\ IsRef
      BY <1>1, <1>3, <1>5, <2>2
    <3> QED BY <1>4, <3>1
  <2> QED BY <1>6, <2>1, <2>2
<1>8. PICK x, err : /\ err \in {"none", "overflow"} /\ Linked(x, c) /\ Waiting(x, s, N)
                    /\ GiveBack(x, Len(coded), in, err)
  BY <1>7
<1>9. N \in Nat /\ Len(c) = N /\ s <= N
  BY <1>2
<1> HIDE DEF c
<1>10. Kept(x) /\ Numbered(x, N)
  BY <1>8, <1>9 DEF Linked
<1>11. in.last \in BOOLEAN /\ Len(coded) \in Int
  BY <1>2, <1>6, GiveFacts
<1>12. /\ Kept(dpb') /\ Numbered(dpb', N)
       /\ \A i \in R!Entries : (RefAt(dpb', i) <=> RefAt(x, i)) /\ dpb'.set[i] = x.set[i]
       /\ InOrder(shown') /\ Len(shown') <= N /\ Waiting(dpb', Len(shown'), N)
       /\ Len(shown') >= s
       /\ Recon /\ Len(coded) > 0 /\ s < N => Len(shown') = s + 1
       /\ out'.err = err
       /\ out'.last => in.last /\ (Recon => Len(shown') = N)
  BY <1>1, <1>2, <1>8, <1>9, <1>10, <1>11, GiveBackFacts
<1>13. Linked(dpb', c)
  BY <1>8, <1>9, <1>12 DEF Linked
<1>14. Len(shown') \in Nat
  BY <1>12 DEF InOrder
<1>15. Recon => N <= Len(shown') + 1
  BY <1>2, <1>12, <1>14
<1>16. coded' = c
  BY DEF c
<1>17. Listed(dpb', coded', shown')
  BY <1>9, <1>12, <1>13, <1>15, <1>16 DEF Listed
<1> QED BY <1>8, <1>9, <1>12, <1>16, <1>17, ListedNext

\* A call that codes a picture.
LEMMA PictureStep ==
  ASSUME Now, cfg' = cfg, NEW in \in Input, EncodePicture(in)
  PROVE  SingleInv'
<1>1. /\ Dequeue(in) /\ Queue(in) /\ Give(in) /\ EncBuf(in).pic # NoPic
      /\ picCnt' = Cnt /\ queued' = IF in.pic = NoPic THEN queued ELSE queued \cup {in.pic}
      /\ pendingIdr' = ((pendingIdr \/ IdrDue) /\ Picked.type # "I")
      /\ ps' = P!PopPic(P!GotPic(Stacked))
      /\ coded' = Append(coded, CodedPic(in))
      /\ idrAsked' = IF PickedType = "IDR" THEN {n \in Asked : n > Picked.id} ELSE Asked
  BY DEF EncodePicture, Dequeue, Queue
<1>2. /\ ~lastSeen /\ in.pic = fed + 1 /\ EncBuf(in) = in /\ Going
      /\ Picked.id = Cnt /\ Cnt = Len(coded) /\ Stacked.top = ps.refIdx
      /\ PickedType \in {"IDR", "I", "P"}
      /\ IdrDue => PickedType = "IDR" /\ Picked.type = "I"
      /\ PickedType = "IDR" => IdrDue
      /\ coded = << >> => PickedType = "IDR"
      /\ PickedType # "P" => RefPocs = << >>
      /\ PickedType = "P" =>
           \E k \in 0..Len(coded)-1 : RefPocs = <<k, k>> /\ AfterIdr(coded, Len(coded), k)
  BY <1>1, CodedFacts
<1>3. /\ in.last \in BOOLEAN /\ lastSeen' \in BOOLEAN /\ lastSeen' = (lastSeen \/ in.last)
      /\ in.pic # NoPic /\ fed' = fed + 1 /\ flushes' = flushes
      /\ in \in [pic : Nat, last : BOOLEAN]
  BY <1>1, <1>2, GiveFacts
<1> DEFINE p == CodedPic(in)
<1>4. p.pic = in.pic /\ p.type = PickedType /\ p.poc = Len(coded) /\ p.refs = RefPocs
  BY <1>2 DEF CodedPic
<1>5. p \in SinglePics
  <2>1. RefPocs \in Seq(Nat)
    <3>1. CASE PickedType = "P"
      <4>1. PICK k \in 0..Len(coded)-1 : RefPocs = <<k, k>>
        BY <1>2, <3>1
      <4>2. k \in Nat
        BY NowFacts
      <4> QED BY <4>1, <4>2
    <3>2. CASE PickedType # "P"
      BY <1>2, <3>2
    <3> QED BY <3>1, <3>2
  <2>2. p = [pic |-> in.pic, type |-> PickedType, poc |-> Len(coded), refs |-> RefPocs]
    BY <1>2 DEF CodedPic
  <2>3. in.pic \in Nat /\ Len(coded) \in Nat
    BY <1>3, NowFacts
  <2> HIDE DEF p
  <2> QED BY <1>2, <2>1, <2>2, <2>3 DEF SinglePics
<1> HIDE DEF p
<1>6. coded' = Append(coded, p)
  BY <1>1 DEF p
<1>7. /\ ListInv' /\ out'.err \in {"none", "overflow"}
      /\ out'.last => in.last /\ (Recon => Len(shown') = Len(coded'))
  BY <1>2, <1>4, <1>5, <1>6, PictureListed
<1>8. idrAsked' = {} /\ ~pendingIdr'
  <2>1. ~pendingIdr /\ idrAsked = {} /\ Cnt \in Nat
    BY <1>2, NowFacts, QueueFacts DEF StackInv
  <2>2. CASE IdrDue
    <3>1. Asked = {Cnt} /\ idrAsked' = {n \in Asked : n > Cnt}
      BY <1>1, <1>2, <2>1, <2>2 DEF Asked, IdrDue
    <3>2. ~(Cnt > Cnt)
      BY <2>1
    <3> QED BY <1>1, <1>2, <2>2, <3>1, <3>2
  <2>3. CASE ~IdrDue
    <3>1. Asked = {} /\ idrAsked' = Asked
      BY <1>1, <1>2, <2>1, <2>3 DEF Asked, IdrDue
    <3> QED BY <1>1, <2>1, <2>3, <3>1
  <2> QED BY <2>2, <2>3
<1>9. Cnt = picCnt + 1 /\ picCnt \in Int
  BY NowFacts DEF Cnt
<1>10. CodedInv'
  BY <1>1, <1>2, <1>3, <1>4, <1>5, <1>6, <1>8, <1>9, CodedStep
<1>11. RefsInv'
  BY <1>2, <1>4, <1>5, <1>6, RefsStep
<1>12. /\ ps' \in Stacks /\ ps'.newIntra # 1 /\ ~(ps'.first /\ ps'.disp = 0)
       /\ ps'.top = ps'.refIdx /\ ps'.top \in 0..2
  <2>1. /\ Stacked \in Stacks /\ Stacked.newIntra # 1 /\ ~(Stacked.first /\ Stacked.disp = 0)
        /\ Stacked.refIdx = (ps.refIdx + 1) % 3 /\ ps \in Stacks /\ NumB = 0
    BY QueueFacts, NowFacts DEF StackInv
  <2> DEFINE g == P!GotPic(Stacked)
  <2>2. /\ g \in Stacks /\ g.first = Stacked.first /\ g.disp = Stacked.disp
        /\ g.newIntra = Stacked.newIntra /\ g.refIdx = Stacked.refIdx /\ g.top = Stacked.top
    BY <2>1, GotPicFacts
  <2>3. ps' = P!PopPic(g)
    BY <1>1
  <2> HIDE DEF g
  <2>4. /\ ps' \in Stacks /\ ps'.top = (g.top + 1) % 3
        /\ ps'.first = g.first /\ ps'.disp = g.disp /\ ps'.newIntra = g.newIntra
        /\ ps'.refIdx = g.refIdx
    BY <2>1, <2>2, <2>3, PopPicFacts
  <2>5. ps.refIdx \in 0..2
    BY <2>1 DEF Stacks
  <2> QED BY <1>2, <2>1, <2>2, <2>4, <2>5
<1>13. StackInv'
  <2>1. inp' \in [InpSlots -> [pic : {NoPic}, last : BOOLEAN]]
    BY <1>1, <1>2, <1>3, SlotFacts DEF PickedSlot
  <2>2. picCnt' \in Nat /\ pendingIdr' \in BOOLEAN
    BY <1>1, QueueFacts
  <2> QED BY <1>3, <1>8, <1>12, <2>1, <2>2 DEF StackInv
<1>14. EndInv'
  <2>1. "flush" \notin Skips => flushes' = 0
    BY <1>2, <1>3, NowFacts DEF EndInv
  <2>2. picCnt' \in Nat
    BY <1>1, QueueFacts
  <2> QED BY <1>7, <1>12, <2>1, <2>2 DEF EndInv, Going, Recon, Skips
<1> QED BY <1>7, <1>10, <1>11, <1>13, <1>14 DEF SingleInv

\* There are buffers and references for every picture.
LEMMA NeverFails ==
  ASSUME Now, NEW in \in Input
  PROVE  ~EncodeFails(in) /\ ~EncodeDelay(in)
<1>1. ASSUME EncodeFails(in) PROVE FALSE
  <2>1. /\ Queue(in) /\ EncBuf(in).pic # NoPic
        /\ LET err == IF NewPic.err = "none" /\ NeedsRefs /\ RefPocs = << >>
                      THEN "NO_REF" ELSE NewPic.err
           IN err # "none"
    BY <1>1 DEF EncodeFails, Dequeue
  <2>2. /\ Picked.id = Cnt /\ Cnt = Len(coded) /\ PickedType \in {"IDR", "I", "P"}
        /\ coded = << >> => PickedType = "IDR"
        /\ PickedType = "P" =>
             \E k \in 0..Len(coded)-1 : RefPocs = <<k, k>> /\ AfterIdr(coded, Len(coded), k)
    BY <2>1, CodedFacts
  <2>3. NeedsRefs => RefPocs # << >>
    <3>1. \A k : <<k, k>> # << >>
      OBVIOUS
    <3> QED BY <2>2, <3>1 DEF NeedsRefs
  <2>4. /\ cfg \in Configs /\ (AltRef > 0 /\ Recon => MaxRef >= 2)
        /\ AltRef \in Nat /\ Recon \in BOOLEAN
    BY NowFacts DEF Now, Single
  <2>5. /\ Linked(dpb, coded) /\ Len(shown) \in Nat /\ Waiting(dpb, Len(shown), Len(coded))
        /\ Len(shown) <= Len(coded) /\ (Recon => Len(coded) <= Len(shown) + 1)
        /\ coded \in Seq(SinglePics)
    BY NowFacts DEF ListInv, Listed
  <2>6. IsRef \in BOOLEAN /\ (PickedType # "P" => IsRef) /\ (AltRef = 0 => IsRef)
    BY <2>2, <2>4 DEF IsRef
  <2> DEFINE p == [pic |-> 0, type |-> PickedType, poc |-> 0, refs |-> << >>]
  <2>7. p \in SinglePics /\ p.type = PickedType
    BY <2>2 DEF SinglePics
  <2> HIDE DEF p
  <2>8. R!NewPicture(dpb, PickedType, Len(coded), Len(coded), IsRef, Recon).err = "none"
    BY <2>2, <2>4, <2>5, <2>6, <2>7, PictureFacts
  <2>9. NewPic.err = "none"
    BY <2>2, <2>8 DEF NewPic
  <2> QED BY <2>1, <2>3, <2>9
<1>2. ASSUME EncodeDelay(in) PROVE FALSE
  BY <1>2, NowFacts, QueueFacts DEF EncodeDelay
<1> QED BY <1>1, <1>2

\* Every step keeps the invariant.
LEMMA SingleNext ==
  ASSUME Now, [Next]_vars
  PROVE  SingleInv'
<1>1. CASE Next
  <2>1. cfg' = cfg
    BY <1>1 DEF Next
  <2>2. CASE \/ \E type \in Requests : SetFrameType(type)
             \/ \E n \in IntraChanges : SetIntraInterval(n)
    BY <2>1, <2>2, AskStep
  <2>3. ASSUME NEW in \in Input,
               \/ EncodeNoInput(in) \/ EncodeSkip(in) \/ EncodeDelay(in)
               \/ EncodeEmpty(in) \/ EncodePicture(in) \/ EncodeFails(in)
        PROVE  SingleInv'
    BY <2>1, <2>3, NoInputStep, SkipStep, EmptyStep, PictureStep, NeverFails
  <2> QED BY <1>1, <2>2, <2>3 DEF Next, Encode
<1>2. CASE UNCHANGED vars
  <2>1. /\ UNCHANGED <<cfg, ps, inp, picCnt, pendingIdr, lastSeen, dpb, out, fed, flushes,
                       queued, idrAsked, coded, shown>>
    BY <1>2 DEF vars, stackVars, history
  <2>2. ListInv'
    <3>1. Listed(dpb', coded', shown')
      BY <2>1, NowFacts DEF ListInv
    <3> QED BY <2>1, <3>1, ListedNext
  <2>3. StackInv'
    BY <2>1, NowFacts DEF StackInv
  <2>4. CodedInv' /\ RefsInv'
    BY <2>1, NowFacts DEF CodedInv, RefsInv, Predicted, AfterIdr
  <2>5. EndInv'
    BY <2>1, NowFacts DEF EndInv, Going, Recon, Skips
  <2> QED BY <2>2, <2>3, <2>4, <2>5 DEF SingleInv
<1> QED BY <1>1, <1>2

\* Every state of a stream without B pictures.
LEMMA SingleStates ==
  Spec => [](cfg \in Configs /\ (Single => SingleInv))
<1> DEFINE Inv == cfg \in Configs /\ (Single => SingleInv)
<1>1. Init => Inv
  BY SingleInit DEF Init
<1>2. Inv /\ [Next]_vars => Inv'
  <2> SUFFICES ASSUME Inv, [Next]_vars PROVE Inv'
    OBVIOUS
  <2>1. cfg' = cfg
    BY DEF Next, vars
  <2>2. Single' => Single
    BY <2>1 DEF Single, NumB, IntraChanges, Overflows, AltRef, Recon, MaxRef
  <2>3. Single => SingleInv'
    BY SingleNext DEF Now
  <2> QED BY <2>1, <2>2, <2>3
<1> QED BY <1>1, <1>2, PTL DEF Spec

-----------------------------------------------------------------------------
(* The buffers, with B pictures. *)

\* The application does not ask for recon, and the bitstream buffer is large enough.
NoWait == NumB > 0 /\ ~Recon /\ ~Overflows

\* While the application goes on, only references have buffers.
MultiInv ==
  /\ out.err \notin {"ASSERT", "NO_FREE_MVBANK", "NO_FREE_PICBUF"}
  /\ R!MvTracks(dpb)
  /\ picCnt \in Nat \cup {-1}
  /\ Going => /\ Kept(dpb) /\ \A i \in R!Entries : ~IoAt(dpb, i)
              /\ \A i \in R!Live(dpb) : dpb.set[i].cnt <= picCnt

\* The same of another list, between two calls.
Idle(d, cnt) ==
  /\ Kept(d) /\ \A i \in R!Entries : ~IoAt(d, i)
  /\ \A i \in R!Live(d) : d.set[i].cnt <= cnt

\* A list that is right is right for the invariant.
LEMMA MultiKept ==
  ASSUME cfg' = cfg, cfg \in Configs, NoWait, Idle(dpb', picCnt'), picCnt' \in Nat \cup {-1},
         out'.err \notin {"ASSERT", "NO_FREE_MVBANK", "NO_FREE_PICBUF"}
  PROVE  MultiInv'
<1>1. MaxRef \in Nat
  BY ConfigFacts
<1>2. R!MvTracks(dpb')
  BY <1>1, KeptTracks DEF Idle
<1>3. R!MvTracks(dpb)'
  BY <1>2 DEF R!MvTracks, R!Marked, R!Live, R!Entries, MaxRef
<1>4. Kept(dpb)'
  BY KeptNext DEF Idle
<1>5. \A i \in R!Entries' : ~IoAt(dpb, i)'
  BY DEF Idle, R!Entries, MaxRef, IoAt, Buf
<1>6. \A i \in R!Live(dpb)' : dpb'.set[i].cnt <= picCnt'
  BY DEF Idle, R!Live, R!Entries, MaxRef
<1> QED BY <1>3, <1>4, <1>5, <1>6 DEF MultiInv

\* Without recon the list is left alone.
LEMMA MultiGiveBack ==
  ASSUME cfg' = cfg, cfg \in Configs, NoWait, NEW d, NEW cnt, NEW enc,
         Idle(d, picCnt'), picCnt' \in Nat \cup {-1}, GiveBack(d, cnt, enc, "none")
  PROVE  MultiInv'
<1>1. dpb' = d
  BY DEF GiveBack, NoWait
<1>2. out'.err = "none"
  BY DEF GiveBack
<1> QED BY <1>1, <1>2, MultiKept

\* A picture of any type finds an entry and buffers.
LEMMA MultiPicture ==
  ASSUME cfg \in Configs, NoWait, Idle(dpb, picCnt), picCnt \in Nat \cup {-1}
  PROVE  /\ NewPic.err = "none" /\ R!MvTracks(NewPic.refs)
         /\ Idle(R!LastRowDone(NewPic.refs, Cnt), Cnt)
<1> DEFINE d == Freed(dpb, PickedType)
           n == NewPic
           y == R!LastRowDone(n.refs, Cnt)
<1>1. /\ MaxRef \in Nat /\ MaxRef \in Nat \ {0} /\ MaxRef >= 2 /\ Recon = FALSE
      /\ Cnt \in Nat /\ Cnt > picCnt
  BY ConfigFacts DEF NoWait, Cnt
<1>2. /\ Kept(dpb) /\ \A i \in R!Entries : ~IoAt(dpb, i)
      /\ \A i \in R!Live(dpb) : dpb.set[i].cnt <= picCnt
  BY DEF Idle
<1>3. R!Live(d) # R!Entries
  BY <1>1, <1>2, RoomFor
<1>4. \A i \in R!Live(dpb) : dpb.set[i].cnt \in Int
  BY <1>2, LiveIs DEF Kept, Shape
<1>5. \A i \in R!Live(dpb) : dpb.set[i].cnt < Cnt
  BY <1>1, <1>2, <1>4
<1>6. IsRef \in BOOLEAN /\ (IsRef => PickedType # "B")
  BY DEF IsRef
<1>7. n = R!NewPicture(dpb, PickedType, Cnt, Picked.id, IsRef, FALSE)
  BY <1>1 DEF NewPic
<1>8. Leaves(d, n, y, Cnt, Picked.id, IsRef, FALSE)
  BY <1>1, <1>2, <1>3, <1>5, <1>6, <1>7, EnteredFacts
<1>9. \A i \in R!Entries : /\ ~IoAt(d, i)
                           /\ i \in R!Live(d) => i \in R!Live(dpb) /\ d.set[i] = dpb.set[i]
  BY <1>1, <1>2, FreedFacts
<1> HIDE DEF d, n, y
<1>10. PICK u \in R!Entries \ R!Live(d) : Kept(y) /\ Became(d, y, u, Cnt, Picked.id, IsRef, FALSE)
  BY <1>8 DEF Leaves
<1>11. Idle(y, Cnt)
  <2>1. \A i \in R!Entries : ~IoAt(y, i)
    BY <1>9, <1>10 DEF Became
  <2>2. ASSUME NEW i \in R!Live(y) PROVE y.set[i].cnt <= Cnt
    <3>1. CASE i = u
      BY <1>1, <1>10, <3>1 DEF Became
    <3>2. CASE i # u
      <4>1. i \in R!Live(d) /\ i \in R!Entries /\ y.set[i].cnt = d.set[i].cnt
        BY <1>10, <3>2, LiveIs DEF Became
      <4>2. i \in R!Live(dpb) /\ d.set[i] = dpb.set[i]
        BY <1>9, <4>1
      <4>3. dpb.set[i].cnt \in Int /\ dpb.set[i].cnt < Cnt
        BY <1>4, <1>5, <4>2
      <4> QED BY <1>1, <4>1, <4>2, <4>3
    <3> QED BY <3>1, <3>2
  <2> QED BY <1>10, <2>1, <2>2 DEF Idle
<1> QED BY <1>8, <1>11 DEF Leaves, n, y

\* Every step keeps the invariant.
LEMMA MultiNext ==
  ASSUME cfg \in Configs, NoWait, MultiInv, [Next]_vars
  PROVE  MultiInv'
<1>1. cfg' = cfg
  BY DEF Next, vars
<1>2. ASSUME UNCHANGED <<picCnt, dpb, out>> PROVE MultiInv'
  <2>1. R!MvTracks(dpb)'
    BY <1>1, <1>2 DEF MultiInv, R!MvTracks, R!Marked, R!Live, R!Entries, MaxRef
  <2>2. CASE Going
    <3>1. Idle(dpb', picCnt')
      BY <1>2, <2>2 DEF MultiInv, Idle
    <3> QED BY <1>1, <1>2, <3>1, MultiKept DEF MultiInv
  <2>3. CASE ~Going
    <3>1. ~Going'
      BY <1>2, <2>3 DEF Going
    <3> QED BY <1>2, <2>1, <3>1 DEF MultiInv
  <2> QED BY <2>2, <2>3
<1>3. picCnt \in Nat \cup {-1} /\ Cnt \in Nat /\ Cnt = picCnt + 1
  BY DEF MultiInv, Cnt
<1>4. ASSUME Going PROVE Idle(dpb, picCnt) /\ Idle(dpb, Cnt)
  <2>1. Idle(dpb, picCnt)
    BY <1>4 DEF MultiInv, Idle
  <2>2. \A i \in R!Live(dpb) : dpb.set[i].cnt \in Int
    BY <2>1, LiveIs DEF Idle, Kept, Shape
  <2> QED BY <1>3, <2>1, <2>2 DEF Idle
<1>5. CASE Next
  <2>1. CASE \/ \E type \in Requests : SetFrameType(type)
             \/ \E n \in IntraChanges : SetIntraInterval(n)
    BY <1>2, <2>1 DEF SetFrameType, SetIntraInterval, stackVars
  <2>2. ASSUME NEW in \in Input, EncodeNoInput(in) PROVE MultiInv'
    <3>1. Going /\ picCnt' = picCnt /\ GiveBack(dpb, picCnt, in, "none")
      BY <2>2 DEF EncodeNoInput, Give, stackVars
    <3> QED BY <1>1, <1>3, <1>4, <3>1, MultiGiveBack
  <2>3. ASSUME NEW in \in Input, EncodeSkip(in) PROVE MultiInv'
    <3>1. Going /\ picCnt' = picCnt /\ dpb' = dpb
      BY <2>3 DEF EncodeSkip, Give, stackVars
    <3>2. out'.err = "none"
      BY <2>3 DEF EncodeSkip
    <3> QED BY <1>1, <1>3, <1>4, <3>1, <3>2, MultiKept
  <2>4. ASSUME NEW in \in Input, EncodeDelay(in) PROVE MultiInv'
    <3>1. Going /\ picCnt' = Cnt /\ GiveBack(dpb, Cnt, [in EXCEPT !.last = FALSE], "none")
      BY <2>4 DEF EncodeDelay, Queue, Give
    <3> QED BY <1>1, <1>3, <1>4, <3>1, MultiGiveBack
  <2>5. ASSUME NEW in \in Input, EncodeEmpty(in) PROVE MultiInv'
    <3>1. Going /\ picCnt' = Cnt /\ GiveBack(dpb, Cnt, EncBuf(in), "none")
      BY <2>5 DEF EncodeEmpty, Dequeue, Queue, Give
    <3> QED BY <1>1, <1>3, <1>4, <3>1, MultiGiveBack
  <2>6. ASSUME NEW in \in Input, EncodePicture(in) PROVE MultiInv'
    <3>1. /\ Going /\ picCnt' = Cnt
          /\ GiveBack(R!LastRowDone(NewPic.refs, Cnt), Cnt, EncBuf(in), "none")
      BY <2>6 DEF EncodePicture, Dequeue, Queue, Give, NoWait
    <3>2. Idle(R!LastRowDone(NewPic.refs, Cnt), picCnt')
      BY <1>3, <1>4, <3>1, MultiPicture
    <3> QED BY <1>1, <1>3, <3>1, <3>2, MultiGiveBack
  <2>7. ASSUME NEW in \in Input, EncodeFails(in) PROVE MultiInv'
    <3> DEFINE err == IF NewPic.err = "none" /\ NeedsRefs /\ RefPocs = << >>
                      THEN "NO_REF" ELSE NewPic.err
    <3>1. /\ Going /\ picCnt' = Cnt /\ dpb' = NewPic.refs
          /\ err # "none" /\ out' = [last |-> FALSE, err |-> err]
      BY <2>7 DEF EncodeFails, Dequeue, Queue, Give
    <3>2. NewPic.err = "none" /\ R!MvTracks(NewPic.refs)
      BY <1>3, <1>4, <3>1, MultiPicture
    <3>3. out'.err = "NO_REF"
      <4>1. err = "NO_REF"
        BY <3>1, <3>2
      <4> HIDE DEF err
      <4> QED BY <3>1, <4>1
    <3>4. R!MvTracks(dpb)'
      <4>1. R!MvTracks(dpb')
        BY <3>1, <3>2
      <4> QED BY <1>1, <4>1 DEF R!MvTracks, R!Marked, R!Live, R!Entries, MaxRef
    <3>5. ~Going'
      BY <3>3 DEF Going
    <3> QED BY <1>3, <3>1, <3>3, <3>4, <3>5 DEF MultiInv
  <2> QED BY <1>5, <2>1, <2>2, <2>3, <2>4, <2>5, <2>6, <2>7 DEF Next, Encode
<1>6. CASE UNCHANGED vars
  BY <1>2, <1>6 DEF vars, stackVars
<1> QED BY <1>5, <1>6

\* Every state of a stream with B pictures and no recon.
LEMMA MultiStates ==
  Spec => [](cfg \in Configs /\ (NoWait => MultiInv))
<1> DEFINE Inv == cfg \in Configs /\ (NoWait => MultiInv)
<1>1. ASSUME Init PROVE Inv
  <2>1. cfg \in Configs
    BY <1>1 DEF Init
  <2>2. Kept(dpb) /\ R!Live(dpb) = {} /\ MaxRef \in Nat
        /\ \A i \in R!Entries : ~IoAt(dpb, i)
    BY <1>1, <2>1, ConfigFacts, InitList
  <2>3. R!MvTracks(dpb)
    BY <2>2, KeptTracks
  <2>4. picCnt \in Nat \cup {-1} /\ out.err = "none"
    BY <1>1 DEF Init, NoResult
  <2> QED BY <2>1, <2>2, <2>3, <2>4 DEF MultiInv
<1>2. Inv /\ [Next]_vars => Inv'
  <2> SUFFICES ASSUME Inv, [Next]_vars PROVE Inv'
    OBVIOUS
  <2>1. cfg' = cfg
    BY DEF Next, vars
  <2>2. NoWait' => NoWait
    BY <2>1 DEF NoWait, NumB, Overflows, Recon
  <2>3. NoWait => MultiInv'
    BY MultiNext
  <2> QED BY <2>1, <2>2, <2>3
<1> QED BY <1>1, <1>2, PTL DEF Spec

-----------------------------------------------------------------------------
(* The theorems.  Single and NoWait name the configurations they are about. *)

\* Where Single holds, every picture put in the input list is coded once, and no
\* other, and all of them by the call that says it was the last.
THEOREM PicturesCodedOnce == Spec => [](Single => CodedOnce)
<1>1. ASSUME Single, SingleInv PROVE CodedOnce
  <2>1. /\ coded \in Seq(SinglePics) /\ queued = {coded[i].pic : i \in DOMAIN coded}
        /\ \A i \in DOMAIN coded : coded[i].pic \in Nat
        /\ \A i, j \in DOMAIN coded : i < j => coded[i].pic < coded[j].pic
    BY <1>1 DEF SingleInv, CodedInv
  <2>2. \A i, j \in DOMAIN coded : i # j => coded[i].pic # coded[j].pic
    <3> SUFFICES ASSUME NEW i \in DOMAIN coded, NEW j \in DOMAIN coded, i # j
                 PROVE  coded[i].pic # coded[j].pic
      OBVIOUS
    <3>1. i < j \/ j < i
      BY <2>1
    <3> QED BY <2>1, <3>1
  <2> QED BY <2>1, <2>2 DEF CodedOnce
<1> QED BY <1>1, SingleStates, PTL

\* Pictures get their picture order counts in the order in which the application
\* hands them over, and recon comes in that order, all of it by the last call.
THEOREM OutputInOrder == Spec => [](Single => DisplayOrder)
<1>1. ASSUME Single, SingleInv PROVE DisplayOrder
  <2>1. /\ coded \in Seq(SinglePics) /\ Len(coded) \in Nat /\ DOMAIN coded = 1..Len(coded)
        /\ \A i \in DOMAIN coded : coded[i].poc = i - 1
        /\ \A i, j \in DOMAIN coded : i < j => coded[i].pic < coded[j].pic
    BY <1>1 DEF SingleInv, CodedInv
  <2>2. /\ shown \in Seq(Nat) /\ Len(shown) \in Nat /\ DOMAIN shown = 1..Len(shown)
        /\ \A k \in DOMAIN shown : shown[k] = k - 1
    BY <1>1 DEF SingleInv, ListInv, Listed, InOrder
  <2>3. \A i, j \in DOMAIN coded : coded[i].poc < coded[j].poc => coded[i].pic < coded[j].pic
    <3> SUFFICES ASSUME NEW i \in DOMAIN coded, NEW j \in DOMAIN coded,
                        coded[i].poc < coded[j].poc
                 PROVE  coded[i].pic < coded[j].pic
      OBVIOUS
    <3>1. i < j
      BY <2>1
    <3> QED BY <2>1, <3>1
  <2>4. \A i \in 1..Len(shown)-1 : shown[i] < shown[i + 1]
    BY <2>2
  <2>5. ASSUME out.last, Recon PROVE ToSet(shown) = {coded[i].poc : i \in DOMAIN coded}
    <3>1. Len(shown) = Len(coded)
      BY <1>1, <2>5 DEF SingleInv, EndInv
    <3>2. ToSet(shown) = {shown[i] : i \in DOMAIN shown}
      BY DEF ToSet
    <3>3. \A i \in 1..Len(coded) : shown[i] = coded[i].poc
      BY <2>1, <2>2, <3>1
    <3>4. {shown[i] : i \in 1..Len(coded)} = {coded[i].poc : i \in 1..Len(coded)}
      BY <3>3
    <3> QED BY <2>1, <2>2, <3>1, <3>2, <3>4
  <2> QED BY <2>3, <2>4, <2>5 DEF DisplayOrder
<1> QED BY <1>1, SingleStates, PTL

\* Every P picture is predicted from a picture coded before it that a decoder still
\* has, and a reference is found whenever one is looked for.
THEOREM ReferencesFit == Spec => [](Single => RefsFit)
<1>1. ASSUME Single, SingleInv PROVE RefsFit
  <2>1. /\ coded \in Seq(SinglePics) /\ Len(coded) \in Nat /\ DOMAIN coded = 1..Len(coded)
        /\ \A i \in DOMAIN coded : coded[i].poc = i - 1
        /\ \A i \in DOMAIN coded : coded[i] \in SinglePics
    BY <1>1 DEF SingleInv, CodedInv
  <2>2. \A i \in DOMAIN coded : coded[i].type \in {"IDR", "I", "P"} /\ coded[i].refs \in Seq(Nat)
    BY <2>1 DEF SinglePics
  <2>3. \A i \in DOMAIN coded : Predicted(coded, i)
    BY <1>1 DEF SingleInv, RefsInv
  <2>4. out.err # "NO_REF"
    BY <1>1 DEF SingleInv, EndInv
  <2>5. ASSUME NEW i \in DOMAIN coded
        PROVE  LET c == coded[i] IN
               /\ i = 1 => c.type = "IDR"
               /\ c.type = "P" => c.refs[1] \in IdrPoc(i)..c.poc-1
               /\ c.type # "B"
               /\ \A k \in DOMAIN c.refs : \E j \in 1..i-1 :
                    coded[j].poc = c.refs[k] /\ coded[j].type # "B"
    <3> DEFINE c == coded[i]
    <3>1. /\ i = 1 => c.type = "IDR"
          /\ \A k \in DOMAIN c.refs : c.refs[k] \in 0..i-2
          /\ c.type = "P" => c.refs # << >> /\ AfterIdr(coded, i, c.refs[1])
          /\ c.refs \in Seq(Nat) /\ c.poc = i - 1 /\ c.type # "B"
          /\ i \in Nat /\ i >= 1 /\ i <= Len(coded)
      BY <2>1, <2>2, <2>3 DEF Predicted
    <3>2. ASSUME c.type = "P" PROVE c.refs[1] \in IdrPoc(i)..c.poc-1
      <4> DEFINE S == {coded[j].poc : j \in {k \in 1..i : coded[k].type = "IDR"}}
      <4>1. 1 \in DOMAIN c.refs /\ c.refs[1] \in 0..i-2
        BY <3>1, <3>2
      <4>2. 1 \in 1..i /\ 1 \in DOMAIN coded /\ coded[1].type = "IDR"
        BY <2>1, <2>3, <3>1 DEF Predicted
      <4>3. \A j \in 1..i : j \in DOMAIN coded /\ coded[j].poc = j - 1
        BY <2>1, <3>1
      <4>4. S \subseteq 0..i /\ S # {}
        <5>1. \A j \in 1..i : coded[j].poc \in 0..i
          BY <3>1, <4>3
        <5>2. coded[1].poc \in S
          BY <4>2
        <5> QED BY <5>1, <5>2
      <4>5. \A x \in S : x <= c.refs[1]
        BY <3>1, <3>2, <4>3 DEF AfterIdr
      <4> HIDE DEF S
      <4>6. Max(S) \in S
        BY <3>1, <4>4, MaxFacts
      <4>7. IdrPoc(i) = Max(S)
        BY DEF IdrPoc, S
      <4>8. Max(S) \in 0..i /\ Max(S) <= c.refs[1]
        BY <4>4, <4>5, <4>6
      <4> HIDE DEF c
      <4> QED BY <3>1, <4>1, <4>7, <4>8
    <3>3. ASSUME NEW k \in DOMAIN c.refs
          PROVE  \E j \in 1..i-1 : coded[j].poc = c.refs[k] /\ coded[j].type # "B"
      <4> DEFINE j == c.refs[k] + 1
      <4>1. c.refs[k] \in 0..i-2
        BY <3>1
      <4> HIDE DEF c
      <4>2. j \in 1..i-1 /\ j \in DOMAIN coded /\ j - 1 = c.refs[k]
        <5>1. \A x \in 0..i-2 : x + 1 \in 1..i-1 /\ x + 1 \in DOMAIN coded /\ (x + 1) - 1 = x
          BY <2>1
        <5> QED BY <4>1, <5>1
      <4> HIDE DEF j
      <4>3. coded[j].poc = j - 1 /\ coded[j].type # "B"
        BY <2>1, <2>2, <4>2
      <4> QED BY <4>2, <4>3
    <3> QED BY <3>1, <3>2, <3>3
  <2> QED BY <2>4, <2>5 DEF RefsFit
<1> QED BY <1>1, SingleStates, PTL

\* Where an IDR picture is due, asked for or by the interval, the next one coded is
\* one, also when calls without a picture or with a skipped source come between.
THEOREM IdrPicturesFollow == Spec => [](Single => IdrHonoured)
<1>1. ASSUME Single, SingleInv PROVE IdrHonoured
  <2>1. /\ coded \in Seq(SinglePics) /\ \A i \in DOMAIN coded : coded[i].poc = i - 1
        /\ \A n \in idrAsked : n \in Nat /\ n >= Len(coded)
    BY <1>1 DEF SingleInv, CodedInv
  <2>2. \A i \in DOMAIN coded : i \in Nat /\ i <= Len(coded) /\ Len(coded) \in Nat
    BY <2>1
  <2> QED BY <2>1, <2>2 DEF IdrHonoured
<1> QED BY <1>1, SingleStates, PTL

\* Before the end of the stream a picture is coded by the call that queues it, and
\* at most two calls give back the rest, if the source is not skipped in them.
THEOREM OutputGoesOn == Spec => [](Single /\ "flush" \notin Skips => NoGaps)
<1>1. ASSUME Single, SingleInv, cfg \in Configs, "flush" \notin Skips PROVE NoGaps
  <2>1. /\ coded \in Seq(SinglePics) /\ Cardinality(queued) = Len(coded) /\ Len(coded) \in Nat
        /\ NumB = 0
    BY <1>1 DEF SingleInv, CodedInv, Single
  <2> DEFINE L == Len(coded)
  <2>2. Max({0, Cardinality(queued) - NumB}) = L
    <3> DEFINE S == {0, L}
    <3>1. S = {0, Cardinality(queued) - NumB} /\ S \subseteq 0..L /\ S # {} /\ L \in Nat
      BY <2>1
    <3>2. L \in S
      OBVIOUS
    <3> HIDE DEF S, L
    <3>3. Max(S) \in S /\ \A j \in S : j <= Max(S)
      BY <3>1, MaxFacts
    <3>4. Max(S) \in 0..L /\ L <= Max(S)
      BY <3>1, <3>2, <3>3
    <3> QED BY <3>1, <3>4
  <2>3. flushes \in {0, 1}
    BY <1>1 DEF SingleInv, EndInv
  <2> QED BY <2>1, <2>2, <2>3 DEF NoGaps
<1> QED BY <1>1, SingleStates, PTL

\* An entry, a motion vector buffer and a picture buffer are free whenever a picture
\* needs them: without B pictures, where Single holds, and with them as long as no
\* recon is asked for and no picture overflows.
THEOREM BuffersAreThere == Spec => [](Single \/ NoWait => BuffersSuffice)
<1>1. ASSUME Single, SingleInv, cfg \in Configs PROVE BuffersSuffice
  <2>1. out.err \in {"none", "overflow"}
    BY <1>1 DEF SingleInv, EndInv
  <2>2. R!MvTracks(dpb)
    <3>1. Kept(dpb) /\ MaxRef \in Nat
      BY <1>1, ConfigFacts DEF SingleInv, ListInv, Listed, Linked
    <3> QED BY <3>1, KeptTracks
  <2> QED BY <2>1, <2>2 DEF BuffersSuffice
<1>2. ASSUME NoWait, MultiInv PROVE BuffersSuffice
  BY <1>2 DEF MultiInv, BuffersSuffice
<1> QED BY <1>1, <1>2, SingleStates, MultiStates, PTL
=============================================================================
