-------------------------- MODULE CapeBlockProofs --------------------------
(***************************************************************************)
(* Theorems about the layout of a block, for blocks of any length: both    *)
(* readers of a block get the notes that it was made from.                 *)
(***************************************************************************)
EXTENDS MCCapeBlock, ListProofs, FiniteSetTheorems

-----------------------------------------------------------------------------
(* The array of a type.                                                    *)

\* The notes of a type among the first k.
Positions(notes, t, k) == {j \in 1 .. k : notes[j].type = t}

Count(notes, t, k) == Cardinality(Positions(notes, t, k))

\* What the array of a type contributes for one note.
Selected(notes, t) ==
    [i \in DOMAIN notes |-> IF notes[i].type = t THEN <<notes[i]>> ELSE << >>]

\* The notes of a type among one more note.
LEMMA SelectedAppend ==
    ASSUME NEW D, NEW notes \in Seq(D), NEW n \in D, NEW t
    PROVE  /\ Selected(notes, t) \in Seq(Seq(D))
           /\ Selected(Append(notes, n), t)
                = Append(Selected(notes, t), IF n.type = t THEN <<n>> ELSE << >>)
<1> DEFINE L == Seq(D)
           one(x) == IF x.type = t THEN <<x>> ELSE << >>
           more == Append(notes, n)
<1>1. \A x \in D : one(x) \in L
  OBVIOUS
<1>2. /\ DOMAIN notes = 1 .. Len(notes) /\ Len(notes) \in Nat
      /\ \A i \in DOMAIN notes : notes[i] \in D
      /\ DOMAIN more = 1 .. Len(notes) + 1
      /\ \A i \in DOMAIN notes : more[i] = notes[i]
      /\ more[Len(notes) + 1] = n
  OBVIOUS
<1>3. /\ Selected(notes, t) = [i \in 1 .. Len(notes) |-> one(notes[i])]
      /\ Selected(more, t) = [i \in 1 .. Len(notes) + 1 |-> one(more[i])]
  BY <1>2 DEF Selected
<1> HIDE DEF L, one, more
<1>4. Selected(notes, t) \in Seq(L)
  BY <1>1, <1>2, <1>3
<1>5. [i \in 1 .. Len(notes) + 1 |-> one(more[i])]
        = Append([i \in 1 .. Len(notes) |-> one(notes[i])], one(n))
  <2> DEFINE a == [i \in 1 .. Len(notes) |-> one(notes[i])]
             b == [i \in 1 .. Len(notes) + 1 |-> one(more[i])]
  <2>1. a \in Seq(L) /\ one(n) \in L /\ Len(a) = Len(notes)
    BY <1>1, <1>2
  <2>2. b \in [1 .. Len(notes) + 1 -> L]
    BY <1>1, <1>2
  <2>3. \A i \in 1 .. Len(notes) : b[i] = a[i]
    BY <1>2
  <2>4. b[Len(notes) + 1] = one(n)
    BY <1>2
  <2> HIDE DEF a, b
  <2>5. b \in Seq(L) /\ Len(b) = Len(notes) + 1
    BY <1>2, <2>2
  <2>6. Append(a, one(n)) \in Seq(L) /\ Len(Append(a, one(n))) = Len(notes) + 1
    BY <2>1
  <2>7. \A i \in 1 .. Len(notes) + 1 : Append(a, one(n))[i] = b[i]
    BY <1>2, <2>1, <2>3, <2>4
  <2>8. b = Append(a, one(n))
    BY <2>5, <2>6, <2>7
  <2> QED
    BY <2>8 DEF a, b
<1> QED
  BY <1>3, <1>4, <1>5 DEF L, one, more

\* A note that is added comes last in the array of its type.
LEMMA OfTypeAppend ==
    ASSUME NEW D, NEW notes \in Seq(D), NEW n \in D, NEW t
    PROVE  /\ OfType(notes, t) \in Seq(D)
           /\ OfType(Append(notes, n), t)
                = OfType(notes, t) \o (IF n.type = t THEN <<n>> ELSE << >>)
<1>1. /\ Selected(notes, t) \in Seq(Seq(D))
      /\ Selected(Append(notes, n), t)
           = Append(Selected(notes, t), IF n.type = t THEN <<n>> ELSE << >>)
  BY SelectedAppend
<1>2. OfType(notes, t) = FlattenSeq(Selected(notes, t))
      /\ OfType(Append(notes, n), t) = FlattenSeq(Selected(Append(notes, n), t))
  BY DEF OfType, Selected
<1>3. (IF n.type = t THEN <<n>> ELSE << >>) \in Seq(D)
  OBVIOUS
<1> QED
  BY <1>1, <1>2, <1>3, FlattenType, FlattenAppend

\* No notes, none of a type.
LEMMA OfTypeEmpty == ASSUME NEW t PROVE OfType(<< >>, t) = << >>
<1>1. [i \in DOMAIN << >> |-> IF << >>[i].type = t THEN <<<< >>[i]>> ELSE << >>] = << >>
  OBVIOUS
<1> QED
  BY <1>1, FlattenEmpty DEF OfType

\* At most k of the first k notes have a type.
LEMMA CountType ==
    ASSUME NEW notes, NEW t, NEW k \in Nat
    PROVE  /\ IsFiniteSet(Positions(notes, t, k))
           /\ Count(notes, t, k) \in Nat
           /\ Count(notes, t, k) <= k
<1>1. IsFiniteSet(1 .. k) /\ Cardinality(1 .. k) = k
  BY FS_Interval
<1>2. Positions(notes, t, k) \in SUBSET (1 .. k)
  BY DEF Positions
<1>3. IsFiniteSet(Positions(notes, t, k)) /\ Count(notes, t, k) <= k
  BY <1>1, <1>2, FS_Subset DEF Count
<1>4. Count(notes, t, k) \in Nat
  BY <1>3, FS_CardinalityType DEF Count
<1> QED
  BY <1>3, <1>4

\* None of a type among no notes.
LEMMA CountNone == ASSUME NEW notes, NEW t PROVE Count(notes, t, 0) = 0
<1>1. Positions(notes, t, 0) = {}
  BY DEF Positions
<1> QED
  BY <1>1, FS_EmptySet DEF Count

\* Counting one note more.
LEMMA CountStep ==
    ASSUME NEW notes, NEW t, NEW k \in Nat, NEW m, m = k + 1
    PROVE  Count(notes, t, m)
             = Count(notes, t, k) + (IF notes[m].type = t THEN 1 ELSE 0)
<1>1. IsFiniteSet(Positions(notes, t, k)) /\ Count(notes, t, k) \in Nat
  BY CountType
<1>2. CASE notes[m].type = t
  <2>1. Positions(notes, t, m) = Positions(notes, t, k) \cup {m}
    BY <1>2 DEF Positions
  <2>2. m \notin Positions(notes, t, k)
    BY DEF Positions
  <2>3. Cardinality(Positions(notes, t, k) \cup {m}) = Cardinality(Positions(notes, t, k)) + 1
    BY <1>1, <2>2, FS_AddElement
  <2> QED
    BY <1>2, <2>1, <2>3 DEF Count
<1>3. CASE notes[m].type # t
  <2>1. Positions(notes, t, m) = Positions(notes, t, k)
    BY <1>3 DEF Positions
  <2> QED
    BY <1>1, <1>3, <2>1 DEF Count
<1> QED
  BY <1>2, <1>3

\* Counts of a list and of a longer one agree.
LEMMA CountSame ==
    ASSUME NEW notes, NEW more, NEW t, NEW k \in Nat,
           \A j \in 1 .. k : notes[j] = more[j]
    PROVE  Count(notes, t, k) = Count(more, t, k)
<1>1. Positions(notes, t, k) = Positions(more, t, k)
  BY DEF Positions
<1> QED
  BY <1>1 DEF Count

\* The array holds the notes of its type and no others, each in its place.
Arranged(notes, t) ==
    /\ Len(OfType(notes, t)) = Count(notes, t, Len(notes))
    /\ \A j \in 1 .. Len(notes) :
          notes[j].type = t =>
             /\ Count(notes, t, j) \in 1 .. Len(OfType(notes, t))
             /\ OfType(notes, t)[Count(notes, t, j)] = notes[j]
    /\ \A p \in 1 .. Len(OfType(notes, t)) :
          \E j \in 1 .. Len(notes) : notes[j].type = t /\ Count(notes, t, j) = p

\* One more note keeps the arrays arranged.
LEMMA ArrangedAppend ==
    ASSUME NEW D, NEW notes \in Seq(D), NEW n \in D, NEW t, Arranged(notes, t)
    PROVE  Arranged(Append(notes, n), t)
<1> DEFINE k == Len(notes)
           more == Append(notes, n)
           a == OfType(notes, t)
           b == OfType(more, t)
<1>1. /\ k \in Nat /\ Len(more) = k + 1 /\ more[k + 1] = n
      /\ \A j \in 1 .. k : notes[j] = more[j]
  OBVIOUS
<1>2. a \in Seq(D) /\ b = a \o (IF n.type = t THEN <<n>> ELSE << >>)
  BY OfTypeAppend
<1>3. \A j \in 0 .. k : Count(more, t, j) = Count(notes, t, j)
  <2>1. SUFFICES ASSUME NEW j \in 0 .. k PROVE Count(more, t, j) = Count(notes, t, j)
    OBVIOUS
  <2>2. j \in Nat /\ \A i \in 1 .. j : notes[i] = more[i]
    BY <1>1
  <2> QED
    BY <2>2, CountSame
<1>4. Count(more, t, k + 1) = Count(notes, t, k) + (IF n.type = t THEN 1 ELSE 0)
  <2> HIDE DEF more, k
  <2>1. Count(more, t, k + 1) = Count(more, t, k) + (IF more[k + 1].type = t THEN 1 ELSE 0)
    BY <1>1, CountStep
  <2>2. Count(more, t, k) = Count(notes, t, k)
    BY <1>1, <1>3
  <2> QED
    BY <1>1, <2>1, <2>2
<1>5. /\ Len(a) = Count(notes, t, k)
      /\ \A j \in 1 .. k :
            notes[j].type = t =>
               /\ Count(notes, t, j) \in 1 .. Len(a)
               /\ a[Count(notes, t, j)] = notes[j]
      /\ \A p \in 1 .. Len(a) : \E j \in 1 .. k : notes[j].type = t /\ Count(notes, t, j) = p
  BY DEF Arranged
<1>6. Len(a) \in Nat
  BY <1>2
<1>7. CASE n.type = t
  <2>1. /\ Len(b) = Len(a) + 1 /\ b[Len(a) + 1] = n
        /\ \A p \in 1 .. Len(a) : b[p] = a[p]
    BY <1>2, <1>7
  <2> HIDE DEF a, b, more, k
  <2>2. Len(b) = Count(more, t, k + 1)
    BY <1>4, <1>5, <1>6, <1>7, <2>1
  <2>3. ASSUME NEW j \in 1 .. k + 1, more[j].type = t
        PROVE  Count(more, t, j) \in 1 .. Len(b) /\ b[Count(more, t, j)] = more[j]
    <3>1. CASE j = k + 1
      BY <3>1, <1>1, <1>6, <2>1, <2>2
    <3>2. CASE j # k + 1
      <4>1. j \in 1 .. k /\ j \in 0 .. k
        BY <3>2, <1>1
      <4>2. notes[j] = more[j] /\ Count(more, t, j) = Count(notes, t, j)
        BY <4>1, <1>1, <1>3
      <4> QED
        BY <4>1, <4>2, <1>5, <1>6, <2>1, <2>3
    <3> QED
      BY <3>1, <3>2
  <2>4. ASSUME NEW p \in 1 .. Len(b)
        PROVE  \E j \in 1 .. k + 1 : more[j].type = t /\ Count(more, t, j) = p
    <3>1. CASE p = Len(a) + 1
      <4>1. k + 1 \in 1 .. k + 1
        BY <1>1
      <4> QED
        BY <3>1, <4>1, <1>1, <1>7, <2>1, <2>2
    <3>2. CASE p # Len(a) + 1
      <4>1. p \in 1 .. Len(a)
        BY <3>2, <2>1, <1>6
      <4>2. PICK j \in 1 .. k : notes[j].type = t /\ Count(notes, t, j) = p
        BY <4>1, <1>5
      <4>3. j \in 1 .. k + 1 /\ j \in 0 .. k
        BY <1>1
      <4> QED
        BY <4>2, <4>3, <1>1, <1>3
    <3> QED
      BY <3>1, <3>2
  <2> QED
    BY <1>1, <2>2, <2>3, <2>4 DEF Arranged, b, more
<1>8. CASE n.type # t
  <2>1. b = a
    BY <1>2, <1>8
  <2> HIDE DEF a, b, more, k
  <2>2. Len(b) = Count(more, t, k + 1)
    BY <1>1, <1>4, <1>5, <1>6, <1>8, <2>1
  <2>3. ASSUME NEW j \in 1 .. k + 1, more[j].type = t
        PROVE  Count(more, t, j) \in 1 .. Len(b) /\ b[Count(more, t, j)] = more[j]
    <3>1. j \in 1 .. k /\ j \in 0 .. k
      BY <1>1, <1>8, <2>3
    <3>2. notes[j] = more[j] /\ Count(more, t, j) = Count(notes, t, j)
      BY <3>1, <1>1, <1>3
    <3> QED
      BY <3>1, <3>2, <1>5, <2>1, <2>3
  <2>4. ASSUME NEW p \in 1 .. Len(b)
        PROVE  \E j \in 1 .. k + 1 : more[j].type = t /\ Count(more, t, j) = p
    <3>1. PICK j \in 1 .. k : notes[j].type = t /\ Count(notes, t, j) = p
      BY <2>1, <1>5
    <3>2. j \in 1 .. k + 1 /\ j \in 0 .. k
      BY <1>1
    <3> QED
      BY <3>1, <3>2, <1>1, <1>3
  <2> QED
    BY <1>1, <2>2, <2>3, <2>4 DEF Arranged, b, more
<1> QED
  BY <1>7, <1>8

\* Every list of notes has its arrays arranged so.
LEMMA AllArranged ==
    ASSUME NEW D, NEW notes \in Seq(D), NEW t
    PROVE  Arranged(notes, t) /\ OfType(notes, t) \in Seq(D)
<1> DEFINE Holds(q) == Arranged(q, t) /\ OfType(q, t) \in Seq(D)
           S == {k \in Nat : \A q \in Seq(D) : Len(q) = k => Holds(q)}
<1>1. 0 \in S
  <2>1. \A q \in Seq(D) : Len(q) = 0 => q = << >>
    OBVIOUS
  <2>2. Arranged(<< >>, t)
    <3>1. Count(<< >>, t, 0) = 0
      BY CountNone
    <3> QED
      BY <3>1, OfTypeEmpty DEF Arranged
  <2>3. OfType(<< >>, t) \in Seq(D)
    <3>1. << >> \in Seq(D)
      OBVIOUS
    <3> QED
      BY <3>1, OfTypeEmpty
  <2> QED
    BY <2>1, <2>2, <2>3
<1>2. ASSUME NEW k \in S PROVE k + 1 \in S
  <2> SUFFICES ASSUME NEW q \in Seq(D), Len(q) = k + 1 PROVE Holds(q)
    OBVIOUS
  <2> DEFINE front == SubSeq(q, 1, k)
             n == q[k + 1]
  <2>1. front \in Seq(D) /\ Len(front) = k /\ n \in D /\ q = Append(front, n)
    OBVIOUS
  <2> HIDE DEF front, n
  <2>2. Arranged(front, t)
    BY <2>1, <1>2
  <2>3. Arranged(q, t)
    BY <2>1, <2>2, ArrangedAppend
  <2>4. OfType(front, t) \in Seq(D) /\ OfType(q, t)
          = OfType(front, t) \o (IF n.type = t THEN <<n>> ELSE << >>)
    BY <2>1, OfTypeAppend
  <2>5. OfType(q, t) \in Seq(D)
    BY <2>1, <2>4
  <2> QED
    BY <2>3, <2>5
<1> HIDE DEF Holds
<1>3. S = Nat
  BY <1>1, <1>2, NatSetInduction
<1>4. Holds(notes)
  BY <1>3
<1> QED
  BY <1>4 DEF Holds

-----------------------------------------------------------------------------
(* The readers of a block.                                                 *)

\* The place of a note among those of its type, and how many there are.
LEMMA NotePlace ==
    ASSUME NEW D, NEW notes \in Seq(D), NEW i \in 1 .. Len(notes),
           notes[i].type \in Types
    PROVE  LET b == from_cape_transactions(notes)
               t == notes[i].type
           IN  /\ b.note_types[i] = t
               /\ DOMAIN b.note_types = 1 .. Len(notes)
               /\ b.notes[t] = OfType(notes, t)
               /\ PlaceInArray(b, i) = Count(notes, t, i)
               /\ PlaceInArray(b, i) \in 1 .. Len(OfType(notes, t))
               /\ OfType(notes, t)[PlaceInArray(b, i)] = notes[i]
<1> DEFINE b == from_cape_transactions(notes)
           t == notes[i].type
<1>1. /\ b.note_types = TypesOf(notes) /\ b.notes = [u \in Types |-> OfType(notes, u)]
  BY DEF from_cape_transactions
<1>2. DOMAIN notes = 1 .. Len(notes) /\ Len(notes) \in Nat
  OBVIOUS
<1>3. DOMAIN TypesOf(notes) = 1 .. Len(notes)
      /\ \A j \in 1 .. Len(notes) : TypesOf(notes)[j] = notes[j].type
  BY <1>2 DEF TypesOf
<1>4. {j \in 1 .. i : TypesOf(notes)[j] = TypesOf(notes)[i]} = Positions(notes, t, i)
  BY <1>2, <1>3 DEF Positions
<1>5. PlaceInArray(b, i) = Count(notes, t, i)
  BY <1>1, <1>4 DEF PlaceInArray, Count
<1>6. Arranged(notes, t)
  BY AllArranged
<1> QED
  BY <1>1, <1>3, <1>5, <1>6 DEF Arranged

\* The contract reads the notes in the order of the transactions.
LEMMA ContractOrder ==
    ASSUME NEW D, NEW notes \in Seq(D), \A i \in 1 .. Len(notes) : notes[i].type \in Types
    PROVE  /\ ~Malformed(from_cape_transactions(notes))
           /\ contractOrder(from_cape_transactions(notes)) = notes
<1> DEFINE b == from_cape_transactions(notes)
<1>1. DOMAIN b.note_types = 1 .. Len(notes) /\ Len(notes) \in Nat
  BY DEF from_cape_transactions, TypesOf
<1>2. \A i \in 1 .. Len(notes) :
          /\ b.note_types[i] = notes[i].type
          /\ b.notes[notes[i].type] = OfType(notes, notes[i].type)
          /\ PlaceInArray(b, i) \in 1 .. Len(OfType(notes, notes[i].type))
          /\ OfType(notes, notes[i].type)[PlaceInArray(b, i)] = notes[i]
  BY NotePlace
<1> HIDE DEF b
<1>3. ~Malformed(b)
  <2> SUFFICES ASSUME NEW i \in 1 .. Len(notes)
               PROVE  ~(PlaceInArray(b, i) > Len(b.notes[b.note_types[i]]))
    BY <1>1 DEF Malformed
  <2>1. OfType(notes, notes[i].type) \in Seq(D)
    BY AllArranged
  <2>2. Len(OfType(notes, notes[i].type)) \in Nat
    BY <2>1
  <2> QED
    BY <1>2, <2>2
<1>4. contractOrder(b) = [i \in 1 .. Len(notes) |-> notes[i]]
  BY <1>1, <1>2 DEF contractOrder
<1>5. notes = [i \in 1 .. Len(notes) |-> notes[i]]
  OBVIOUS
<1> QED
  BY <1>3, <1>4, <1>5 DEF b

\* The note that is decoded at place i: the one as far from the end of its
\* array as the i-th is from the start.
Mirror(notes, i, j) ==
    LET t == notes[i].type
    IN  /\ j \in 1 .. Len(notes)
        /\ notes[j].type = t
        /\ Count(notes, t, j) = Len(OfType(notes, t)) - Count(notes, t, i) + 1

\* The decoder gives the mirror of a note within its type.
LEMMA DecodedNote ==
    ASSUME NEW D, NEW notes \in Seq(D), \A i \in 1 .. Len(notes) : notes[i].type \in Types
    PROVE  LET decoded == into_cape_transactions(from_cape_transactions(notes))
           IN  /\ DOMAIN decoded = 1 .. Len(notes)
               /\ \A i \in 1 .. Len(notes) : \E j : Mirror(notes, i, j)
               /\ \A i \in 1 .. Len(notes) : \A j : Mirror(notes, i, j) => decoded[i] = notes[j]
<1> DEFINE b == from_cape_transactions(notes)
           decoded == into_cape_transactions(b)
<1>1. DOMAIN b.note_types = 1 .. Len(notes) /\ Len(notes) \in Nat
  BY DEF from_cape_transactions, TypesOf
<1>2. DOMAIN decoded = 1 .. Len(notes)
  BY <1>1 DEF into_cape_transactions
<1>3. ASSUME NEW i \in 1 .. Len(notes)
      PROVE  /\ \E j : Mirror(notes, i, j)
             /\ \A j : Mirror(notes, i, j) => decoded[i] = notes[j]
  <2> DEFINE t == notes[i].type
             a == OfType(notes, t)
             p == Count(notes, t, i)
  <2>1. /\ b.note_types[i] = t /\ b.notes[t] = a
        /\ PlaceInArray(b, i) = p /\ p \in 1 .. Len(a)
    BY NotePlace
  <2>2. Arranged(notes, t) /\ a \in Seq(D)
    BY AllArranged
  <2>3. Len(a) \in Nat
    BY <2>2
  <2>4. decoded[i] = Reverse(a)[p]
    BY <1>1, <2>1 DEF into_cape_transactions
  <2>5. Reverse(a)[p] = a[Len(a) - p + 1]
    BY <2>1, <2>3 DEF Reverse
  <2>6. Len(a) - p + 1 \in 1 .. Len(a)
    BY <2>1, <2>3
  <2>7. \E j \in 1 .. Len(notes) : notes[j].type = t /\ Count(notes, t, j) = Len(a) - p + 1
    BY <2>2, <2>6 DEF Arranged
  <2>8. \A j \in 1 .. Len(notes) : notes[j].type = t => a[Count(notes, t, j)] = notes[j]
    BY <2>2 DEF Arranged
  <2> QED
    BY <2>4, <2>5, <2>7, <2>8 DEF Mirror
<1> QED
  BY <1>2, <1>3

\* No two notes are decoded at the same place, and each is decoded.
LEMMA MirrorUnique ==
    ASSUME NEW D, NEW notes \in Seq(D), NEW i \in 1 .. Len(notes), NEW j, Mirror(notes, i, j)
    PROVE  /\ \A k \in 1 .. Len(notes) : Mirror(notes, k, j) => k = i
           /\ Mirror(notes, j, i)
           /\ \A k : Mirror(notes, i, k) => k = j
<1> DEFINE t == notes[i].type
           a == OfType(notes, t)
<1>1. /\ j \in 1 .. Len(notes) /\ notes[j].type = t
      /\ Count(notes, t, j) = Len(a) - Count(notes, t, i) + 1
  BY DEF Mirror
<1>2. Arranged(notes, t) /\ a \in Seq(D)
  BY AllArranged
<1>3. Len(a) \in Nat /\ Len(notes) \in Nat
  BY <1>2
<1>4. \A k \in 1 .. Len(notes) : Count(notes, t, k) \in Nat
  BY CountType
<1>5. Mirror(notes, j, i)
  BY <1>1, <1>3, <1>4 DEF Mirror
<1>6. \A k, l \in 1 .. Len(notes) :
         notes[k].type = t /\ notes[l].type = t /\ Count(notes, t, k) = Count(notes, t, l)
           => k = l
  <2> SUFFICES ASSUME NEW k \in 1 .. Len(notes), NEW l \in 1 .. Len(notes), k < l,
                      notes[k].type = t, notes[l].type = t,
                      Count(notes, t, k) = Count(notes, t, l)
               PROVE  FALSE
    BY <1>3
  <2>1. IsFiniteSet(Positions(notes, t, l))
    <3>1. IsFiniteSet(1 .. l)
      BY FS_Interval
    <3>2. Positions(notes, t, l) \in SUBSET (1 .. l)
      BY DEF Positions
    <3> QED
      BY <3>1, <3>2, FS_Subset
  <2>2. Positions(notes, t, k) \in SUBSET Positions(notes, t, l)
    BY DEF Positions
  <2>3. l \in Positions(notes, t, l) /\ l \notin Positions(notes, t, k)
    BY DEF Positions
  <2> QED
    BY <2>1, <2>2, <2>3, FS_Subset DEF Count
<1> HIDE DEF a
<1>7. ASSUME NEW k \in 1 .. Len(notes), Mirror(notes, k, j) PROVE k = i
  <2>1. notes[k].type = t /\ Count(notes, t, j) = Len(a) - Count(notes, t, k) + 1
    BY <1>7, <1>1 DEF Mirror, a
  <2>2. Count(notes, t, k) = Count(notes, t, i)
    BY <1>1, <1>3, <1>4, <2>1
  <2> QED
    BY <1>6, <2>1, <2>2
<1>8. ASSUME NEW k, Mirror(notes, i, k) PROVE k = j
  <2>1. /\ k \in 1 .. Len(notes) /\ notes[k].type = t
        /\ Count(notes, t, k) = Len(a) - Count(notes, t, i) + 1
    BY <1>8 DEF Mirror, a
  <2> QED
    BY <1>1, <1>6, <2>1
<1> QED
  BY <1>5, <1>7, <1>8

\* Decoding keeps how often each note occurs.
LEMMA DecodedPermuted ==
    ASSUME NEW D, NEW notes \in Seq(D), \A i \in 1 .. Len(notes) : notes[i].type \in Types,
           NEW n
    PROVE  LET decoded == into_cape_transactions(from_cape_transactions(notes))
           IN  Cardinality({i \in DOMAIN decoded : decoded[i] = n})
                 = Cardinality({i \in DOMAIN notes : notes[i] = n})
<1> DEFINE decoded == into_cape_transactions(from_cape_transactions(notes))
           A == {i \in DOMAIN decoded : decoded[i] = n}
           B == {i \in DOMAIN notes : notes[i] = n}
           f == [i \in A |-> CHOOSE j : Mirror(notes, i, j)]
<1>1. DOMAIN notes = 1 .. Len(notes) /\ Len(notes) \in Nat
  OBVIOUS
<1>2. /\ DOMAIN decoded = 1 .. Len(notes)
      /\ \A i \in 1 .. Len(notes) : \E j : Mirror(notes, i, j)
      /\ \A i \in 1 .. Len(notes) : \A j : Mirror(notes, i, j) => decoded[i] = notes[j]
  BY DecodedNote
<1> HIDE DEF decoded
<1>3. \A i \in A : /\ i \in 1 .. Len(notes) /\ Mirror(notes, i, f[i])
                   /\ notes[f[i]] = n /\ f[i] \in 1 .. Len(notes)
  <2> SUFFICES ASSUME NEW i \in A
               PROVE  /\ i \in 1 .. Len(notes) /\ Mirror(notes, i, f[i])
                      /\ notes[f[i]] = n /\ f[i] \in 1 .. Len(notes)
    OBVIOUS
  <2>1. i \in 1 .. Len(notes) /\ decoded[i] = n
    BY <1>2
  <2>2. Mirror(notes, i, f[i])
    BY <1>2, <2>1
  <2> QED
    BY <1>2, <2>1, <2>2 DEF Mirror
<1>4. f \in [A -> B]
  BY <1>1, <1>3
<1>5. \A x, y \in A : f[x] = f[y] => x = y
  <2> SUFFICES ASSUME NEW x \in A, NEW y \in A, f[x] = f[y] PROVE x = y
    OBVIOUS
  <2>1. Mirror(notes, x, f[x]) /\ Mirror(notes, y, f[x])
    BY <1>3
  <2> HIDE DEF f
  <2> QED
    BY <1>3, <2>1, MirrorUnique
<1>6. \A y \in B : \E x \in A : f[x] = y
  <2> SUFFICES ASSUME NEW y \in B PROVE \E x \in A : f[x] = y
    OBVIOUS
  <2>1. y \in 1 .. Len(notes) /\ notes[y] = n
    BY <1>1
  <2>2. PICK x : Mirror(notes, y, x)
    BY <1>2, <2>1
  <2>3. Mirror(notes, x, y) /\ x \in 1 .. Len(notes)
    BY <2>1, <2>2, MirrorUnique DEF Mirror
  <2>4. x \in A
    BY <1>2, <2>1, <2>3
  <2>5. Mirror(notes, x, f[x])
    BY <1>3, <2>4
  <2>6. f[x] = y
    <3> HIDE DEF f
    <3> QED
      BY <2>3, <2>5, MirrorUnique
  <2> QED
    BY <2>4, <2>6
<1> HIDE DEF f
<1>7. f \in Bijection(A, B)
  BY <1>4, <1>5, <1>6 DEF Bijection, Injection, Surjection, IsInjective
<1>8. IsFiniteSet(A)
  <2>1. IsFiniteSet(1 .. Len(notes))
    BY <1>1, FS_Interval
  <2>2. A \in SUBSET (1 .. Len(notes))
    BY <1>2
  <2> QED
    BY <2>1, <2>2, FS_Subset
<1>9. Cardinality(A) = Cardinality(B)
  BY <1>7, <1>8, FS_Bijection DEF ExistsBijection
<1> QED
  BY <1>9 DEF decoded

\* With one note of each type at most, decoding changes nothing.
LEMMA DecodedSame ==
    ASSUME NEW D, NEW notes \in Seq(D), \A i \in 1 .. Len(notes) : notes[i].type \in Types,
           IsInjective(TypesOf(notes))
    PROVE  into_cape_transactions(from_cape_transactions(notes)) = notes
<1> DEFINE decoded == into_cape_transactions(from_cape_transactions(notes))
<1>1. DOMAIN notes = 1 .. Len(notes) /\ Len(notes) \in Nat
      /\ notes = [i \in 1 .. Len(notes) |-> notes[i]]
  OBVIOUS
<1>2. /\ DOMAIN decoded = 1 .. Len(notes)
      /\ \A i \in 1 .. Len(notes) : \E j : Mirror(notes, i, j)
      /\ \A i \in 1 .. Len(notes) : \A j : Mirror(notes, i, j) => decoded[i] = notes[j]
  BY DecodedNote
<1>2a. decoded = [i \in DOMAIN decoded |-> decoded[i]]
  BY DEF into_cape_transactions
<1> HIDE DEF decoded
<1>3. ASSUME NEW i \in 1 .. Len(notes) PROVE decoded[i] = notes[i]
  <2>1. PICK j : Mirror(notes, i, j)
    BY <1>2
  <2>2. j \in 1 .. Len(notes) /\ notes[j].type = notes[i].type
    BY <2>1 DEF Mirror
  <2>3. j = i
    BY <1>1, <2>2 DEF IsInjective, TypesOf
  <2> QED
    BY <1>2, <2>1, <2>3
<1>4. decoded = notes
  BY <1>1, <1>2, <1>2a, <1>3
<1> QED
  BY <1>4 DEF decoded

-----------------------------------------------------------------------------
(* The codec.                                                              *)

\* A block has notes of the known types.
LEMMA CodecTypes == CodecSpec => [](txns \in Seq(BlockNotes))
<1>1. CodecInit => txns \in Seq(BlockNotes)
  BY DEF CodecInit
<1>2. txns \in Seq(BlockNotes) /\ [AddTxn]_txns => (txns \in Seq(BlockNotes))'
  BY DEF AddTxn
<1> QED
  BY <1>1, <1>2, PTL DEF CodecSpec

\* CodecKeepsNotes for blocks of any length and any notes.
THEOREM CodecIsFaithful == CodecSpec => []CodecKeepsNotes
<1>1. ASSUME txns \in Seq(BlockNotes) PROVE CodecKeepsNotes
  <2>1. \A i \in 1 .. Len(txns) : txns[i].type \in Types
    <3>1. \A i \in 1 .. Len(txns) : txns[i] \in BlockNotes
      BY <1>1
    <3> QED
      BY <3>1 DEF BlockNotes
  <2>2. ContractReadsInOrder
    BY <1>1, <2>1, ContractOrder DEF ContractReadsInOrder, block
  <2>3. \A n \in BlockNotes :
           Cardinality({i \in DOMAIN into_cape_transactions(block) :
                          into_cape_transactions(block)[i] = n})
             = Cardinality({i \in DOMAIN txns : txns[i] = n})
    BY <1>1, <2>1, DecodedPermuted DEF block
  <2>4. IsInjective(TypesOf(txns)) => into_cape_transactions(block) = txns
    BY <1>1, <2>1, DecodedSame DEF block
  <2> QED
    BY <2>2, <2>3, <2>4 DEF CodecKeepsNotes, DecodesSameNotes
<1> QED
  BY <1>1, CodecTypes, PTL
=============================================================================
