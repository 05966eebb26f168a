----------------------------- MODULE Sm6Recipe_proofs --------------------------
(* Theorems about Sm6Recipe for all shaders, recipes, instructions and         *)
(* matchers.  BindingsApart: a recipe never adds a resource where another one  *)
(* begins.  CBufferSound: what an added cbuffer declares, what the shader's    *)
(* annotations say of it and what a cbuffer_field emit reads are one layout.   *)
EXTENDS Sm6Recipe, WellFoundedInduction, SequenceTheorems, TLAPS

(* Induction over the naturals, for sets.                                      *)
LEMMA SetInduction ==
  ASSUME NEW T \in SUBSET Nat, 0 \in T, \A n \in Nat : n \in T => n + 1 \in T
  PROVE  T = Nat
<1> DEFINE S == Nat \ T
           R == {ss \in Nat \X Nat : ss[1] < ss[2]}
<1>1. SUFFICES ASSUME S # {} PROVE FALSE
  OBVIOUS
<1>2. IsWellFoundedOn(R, Nat)
  BY NatLessThanWellFounded DEF OpToRel
<1> HIDE DEF R
<1>3. PICK x \in S : \A y \in S : <<y, x>> \notin R
  BY <1>1, <1>2, WFMin
<1>4. x \in Nat /\ x # 0 /\ x \notin T /\ x - 1 \in Nat
  BY <1>3
<1>5. <<x - 1, x>> \in R
  BY <1>4 DEF R
<1>6. x - 1 \in T
  BY <1>3, <1>4, <1>5
<1> QED BY <1>4, <1>6

(* The order of the naturals is well-founded.                              *)
LEMMA LessThanWF == IsWellFoundedOn({ss \in Nat \X Nat : ss[1] < ss[2]}, Nat)
BY NatLessThanWellFounded DEF OpToRel

(* Min of a set of naturals is its least element.                          *)
LEMMA MinOf ==
  ASSUME NEW S \in SUBSET Nat, S # {}
  PROVE  Min(S) \in S /\ \A y \in S : Min(S) <= y
<1> DEFINE R == {ss \in Nat \X Nat : ss[1] < ss[2]}
<1>1. IsWellFoundedOn(R, Nat)
  BY LessThanWF
<1> HIDE DEF R
<1>2. PICK x \in S : \A y \in S : <<y, x>> \notin R
  BY <1>1, WFMin
<1>3. ASSUME NEW y \in S PROVE x <= y
  <2>1. x \in Nat /\ y \in Nat
    OBVIOUS
  <2>2. <<y, x>> \notin R
    BY <1>2
  <2>3. <<y, x>> \in Nat \X Nat /\ <<y, x>>[1] = y /\ <<y, x>>[2] = x
    BY <2>1
  <2>4. ~ (y < x)
    BY <2>2, <2>3 DEF R
  <2>5. QED
    BY <2>1, <2>4
<1>4. QED
  BY <1>3 DEF Min

(* Max of a bounded set of naturals is its greatest element.               *)
LEMMA MaxOf ==
  ASSUME NEW n \in Nat, NEW S \in SUBSET (0..n), S # {}
  PROVE  Max(S) \in S /\ \A y \in S : Max(S) >= y
<1> DEFINE T == {n - x : x \in S}
<1>1. T \in SUBSET Nat /\ T # {}
  <2>1. \A x \in S : n - x \in Nat
    OBVIOUS
  <2>2. PICK x \in S : TRUE
    OBVIOUS
  <2>3. n - x \in T
    OBVIOUS
  <2>4. QED
    BY <2>1, <2>3
<1>2. Min(T) \in T /\ \A y \in T : Min(T) <= y
  BY <1>1, MinOf
<1>3. PICK x \in S : Min(T) = n - x
  BY <1>2
<1>4. \A y \in S : x >= y
  BY <1>2, <1>3
<1>5. QED
  BY <1>4 DEF Max

IsSequence(s) == \E S : s \in Seq(S)

LEMMA SequenceFacts ==
  ASSUME NEW s, IsSequence(s)
  PROVE  /\ Len(s) \in Nat /\ DOMAIN s = 1..Len(s)
         /\ s \in Seq(Range(s))
<1>1. PICK S : s \in Seq(S)
  BY DEF IsSequence
<1>2. s \in [1..Len(s) -> S] /\ Len(s) \in Nat
  BY <1>1, LenProperties
<1>3. s \in [1..Len(s) -> Range(s)]
  BY <1>2 DEF Range
<1> QED
  BY <1>2, <1>3

LEMMA ConcatFacts ==
  ASSUME NEW s, NEW t, IsSequence(s), IsSequence(t)
  PROVE  /\ IsSequence(s \o t)
         /\ Len(s \o t) = Len(s) + Len(t)
         /\ \A i \in 1..Len(s) : (s \o t)[i] = s[i]
         /\ \A i \in 1..Len(t) : (s \o t)[Len(s) + i] = t[i]
<1>1. PICK S, T : s \in Seq(S) /\ t \in Seq(T)
  BY DEF IsSequence
<1>2. s \in Seq(S \cup T) /\ t \in Seq(S \cup T) /\ Len(s) \in Nat /\ Len(t) \in Nat
  BY <1>1, SeqMonotonic, LenProperties
<1>3. /\ s \o t \in Seq(S \cup T)
      /\ Len(s \o t) = Len(s) + Len(t)
      /\ \A i \in 1..(Len(s) + Len(t)) :
           (s \o t)[i] = IF i <= Len(s) THEN s[i] ELSE t[i - Len(s)]
  BY <1>2, ConcatProperties
<1>4. \A i \in 1..Len(t) : Len(s) + i \in 1..(Len(s) + Len(t)) /\ ~(Len(s) + i <= Len(s))
                           /\ Len(s) + i - Len(s) = i
  BY <1>2
<1>5. \A i \in 1..Len(s) : i \in 1..(Len(s) + Len(t)) /\ i <= Len(s)
  BY <1>2
<1> QED
  BY <1>3, <1>4, <1>5 DEF IsSequence

LEMMA AppendFacts ==
  ASSUME NEW s, NEW e, IsSequence(s)
  PROVE  /\ IsSequence(Append(s, e))
         /\ Len(Append(s, e)) = Len(s) + 1
         /\ \A i \in 1..Len(s) : Append(s, e)[i] = s[i]
         /\ Append(s, e)[Len(s) + 1] = e
<1>1. PICK S : s \in Seq(S)
  BY DEF IsSequence
<1>2. s \in Seq(S \cup {e}) /\ Len(s) \in Nat
  BY <1>1, SeqMonotonic, LenProperties
<1>3. /\ Append(s, e) \in Seq(S \cup {e}) /\ Len(Append(s, e)) = Len(s) + 1
      /\ \A i \in 1..(Len(s) + 1) : Append(s, e)[i] = IF i = Len(s) + 1 THEN e ELSE s[i]
  BY <1>2, AppendProperties
<1> QED
  BY <1>2, <1>3 DEF IsSequence

LEMMA ConstructedSequence ==
  ASSUME NEW s, NEW n \in Nat, DOMAIN s = 1..n, s = [i \in 1..n |-> s[i]]
  PROVE  IsSequence(s) /\ Len(s) = n
<1>1. s \in [1..n -> Range(s)]
  BY DEF Range
<1>2. s \in Seq(Range(s))
  BY <1>1
<1>3. Len(s) \in Nat /\ DOMAIN s = 1..Len(s)
  BY <1>2, LenProperties
<1> QED
  BY <1>2, <1>3 DEF IsSequence

--------------------------------------------------------------------------------
(* The layout of the recipe's fields (BuildCBufferLayout).                       *)

(* Fields lie in the order of their offsets, without overlap, at whole           *)
(* components, each in one row.                                                  *)
LaidOut(fields) ==
  /\ IsSequence(fields)
  /\ \A k \in DOMAIN fields :
       /\ fields[k].width \in 1..4 /\ fields[k].offset \in Nat
       /\ fields[k].offset % ComponentBytes = 0
       /\ ~Straddles(fields[k].offset, FieldSize(fields[k]))
       /\ EndOf(fields, k - 1) <= fields[k].offset

LayingOut(acc) ==
  /\ acc = [ok |-> acc.ok, cursor |-> acc.cursor, fields |-> acc.fields]
  /\ LaidOut(acc.fields)
  /\ acc.cursor = EndOf(acc.fields, Len(acc.fields))

LEMMA EndIsNumber ==
  ASSUME NEW fields, LaidOut(fields), NEW k \in 0..Len(fields)
  PROVE  EndOf(fields, k) \in Nat
<1>1. k # 0 => k \in DOMAIN fields
  BY SequenceFacts DEF LaidOut
<1> QED
  BY <1>1 DEF LaidOut, EndOf, FieldSize, ComponentBytes

LEMMA EmptyLayout == LayingOut([ok |-> TRUE, cursor |-> 0, fields |-> <<>>])
<1>1. IsSequence(<<>>) /\ Len(<<>>) = 0 /\ DOMAIN <<>> = {}
  BY EmptySeq DEF IsSequence
<1> QED
  BY <1>1 DEF LayingOut, LaidOut, EndOf

(* One field: it is placed behind what is there, or refused.                     *)
LEMMA PlaceFieldLays ==
  ASSUME NEW acc, LayingOut(acc), NEW data, data.width \in Nat, data.offset \in Int
  PROVE  LayingOut(PlaceField(acc, data))
<1> DEFINE width == IF data.width = 0 THEN 1 ELSE data.width
           bytes == width * ComponentBytes
           offset == IF data.offset # Unset THEN data.offset
                     ELSE IF Straddles(acc.cursor, bytes) THEN AlignUp(acc.cursor, RowBytes)
                     ELSE acc.cursor
           field == [name |-> data.name, type |-> data.type, width |-> width, offset |-> offset]
           refused ==
             \/ data.name = ""
             \/ \E f \in Range(acc.fields) : f.name = data.name
             \/ data.type \notin {"F32", "U32", "I32"}
             \/ width > 4
             \/ offset % ComponentBytes # 0
             \/ offset < acc.cursor
             \/ Straddles(offset, bytes)
             \/ data.default \notin {Unset, Everywhere, width}
           placed == [ok |-> TRUE, cursor |-> offset + bytes, fields |-> Append(acc.fields, field)]
<1>1. PlaceField(acc, data) = IF refused \/ ~acc.ok THEN [acc EXCEPT !.ok = FALSE] ELSE placed
  BY DEF PlaceField
<1>2. CASE refused \/ ~acc.ok
  <2>1. PICK next : next = [acc EXCEPT !.ok = FALSE]
    OBVIOUS
  <2>2. next = [ok |-> FALSE, cursor |-> acc.cursor, fields |-> acc.fields]
    BY <2>1 DEF LayingOut
  <2>3. LayingOut(next)
    BY <2>2 DEF LayingOut
  <2> QED BY <1>1, <1>2, <2>1, <2>3
<1>3. CASE ~refused
  <2>1. acc.cursor \in Nat /\ Len(acc.fields) \in Nat /\ DOMAIN acc.fields = 1..Len(acc.fields)
    BY EndIsNumber, SequenceFacts DEF LayingOut, LaidOut
  <2>2. width \in Nat \ {0}
    OBVIOUS
  <2>3. offset \in Int
    BY <2>1 DEF AlignUp, RowBytes
  <2> HIDE DEF offset, width
  <2>14. /\ width \in 1..4 /\ offset % ComponentBytes = 0
         /\ ~(offset < acc.cursor) /\ ~Straddles(offset, bytes)
    <3>1. ~(width > 4) /\ ~(offset % ComponentBytes # 0)
          /\ ~(offset < acc.cursor) /\ ~Straddles(offset, bytes)
      BY <1>3
    <3> QED BY <2>2, <3>1
  <2>4. offset \in Nat /\ acc.cursor <= offset /\ bytes \in Nat
    BY <2>1, <2>14, <2>3 DEF ComponentBytes
  <2>5. PICK fields : fields = Append(acc.fields, field)
    OBVIOUS
  <2>6. /\ IsSequence(fields) /\ Len(fields) = Len(acc.fields) + 1
        /\ \A i \in 1..Len(acc.fields) : fields[i] = acc.fields[i]
        /\ fields[Len(acc.fields) + 1] = field
    BY <2>5, AppendFacts DEF LayingOut, LaidOut
  <2>7. DOMAIN fields = 1..(Len(acc.fields) + 1)
    BY <2>6, SequenceFacts
  <2>8. \A k \in 0..Len(acc.fields) : EndOf(fields, k) = EndOf(acc.fields, k)
    BY <2>1, <2>6 DEF EndOf
  <2>9. ASSUME NEW k \in DOMAIN fields
        PROVE  /\ fields[k].width \in 1..4 /\ fields[k].offset \in Nat
               /\ fields[k].offset % ComponentBytes = 0
               /\ ~Straddles(fields[k].offset, FieldSize(fields[k]))
               /\ EndOf(fields, k - 1) <= fields[k].offset
    <3>1. CASE k \in 1..Len(acc.fields)
      <4>1. k \in DOMAIN acc.fields /\ fields[k] = acc.fields[k] /\ k - 1 \in 0..Len(acc.fields)
        BY <2>1, <2>6, <3>1
      <4>2. EndOf(fields, k - 1) = EndOf(acc.fields, k - 1)
        BY <2>8, <4>1
      <4> QED BY <4>1, <4>2 DEF LayingOut, LaidOut
    <3>2. CASE k = Len(acc.fields) + 1
      <4>1. fields[k].width = width /\ fields[k].offset = offset /\ FieldSize(fields[k]) = bytes
        BY <2>6, <3>2 DEF FieldSize
      <4>2. k - 1 = Len(acc.fields) /\ k - 1 \in 0..Len(acc.fields)
        BY <2>1, <3>2
      <4>3. EndOf(fields, k - 1) = acc.cursor
        BY <2>8, <4>2 DEF LayingOut
      <4> QED BY <2>14, <2>4, <4>1, <4>3
    <3> QED BY <2>1, <2>7, <3>1, <3>2
  <2>10. LaidOut(fields)
    BY <2>6, <2>9 DEF LaidOut
  <2>11. EndOf(fields, Len(fields)) = offset + bytes
    BY <2>1, <2>6 DEF EndOf, FieldSize
  <2>12. LayingOut([ok |-> TRUE, cursor |-> offset + bytes, fields |-> fields])
    BY <2>10, <2>11 DEF LayingOut
  <2>13. acc.ok => PlaceField(acc, data) = [ok |-> TRUE, cursor |-> offset + bytes, fields |-> fields]
    BY <1>1, <1>3, <2>5
  <2> QED BY <1>2, <2>12, <2>13
<1> QED
  BY <1>2, <1>3

(* PlaceFields is a fold; the function it is taken from exists.                  *)
IsPlacing(data, n, f) ==
  f = [i \in 0..n |-> IF i = 0 THEN [ok |-> TRUE, cursor |-> 0, fields |-> <<>>] ELSE PlaceField(f[i - 1], data[i])]

LEMMA PlacingExists ==
  ASSUME NEW data, NEW n \in Nat
  PROVE  \E f : IsPlacing(data, n, f)
<1> DEFINE T == {m \in Nat : \E f : IsPlacing(data, m, f)}
<1>1. 0 \in T
  <2>1. PICK f : f = [i \in 0..0 |-> [ok |-> TRUE, cursor |-> 0, fields |-> <<>>]]
    OBVIOUS
  <2>2. f = [i \in 0..0 |-> IF i = 0 THEN [ok |-> TRUE, cursor |-> 0, fields |-> <<>>] ELSE PlaceField(f[i - 1], data[i])]
    BY <2>1
  <2> QED BY <2>2 DEF IsPlacing
<1>2. ASSUME NEW m \in Nat, m \in T PROVE m + 1 \in T
  <2>1. PICK f : IsPlacing(data, m, f)
    BY <1>2
  <2>2. PICK last : last = PlaceField(f[m], data[m + 1])
    OBVIOUS
  <2>3. PICK g : g = [i \in 0..(m + 1) |-> IF i <= m THEN f[i] ELSE last]
    OBVIOUS
  <2>4. ASSUME NEW i \in 0..(m + 1)
        PROVE  g[i] = IF i = 0 THEN [ok |-> TRUE, cursor |-> 0, fields |-> <<>>] ELSE PlaceField(g[i - 1], data[i])
    <3>1. CASE i = 0
      BY <2>1, <2>3, <3>1 DEF IsPlacing
    <3>2. CASE i \in 1..m
      <4>1. i \in 0..m /\ i - 1 \in 0..m /\ i # 0
        BY <3>2
      <4>2. f[i] = PlaceField(f[i - 1], data[i])
        BY <2>1, <4>1 DEF IsPlacing
      <4>3. g[i] = f[i] /\ g[i - 1] = f[i - 1]
        BY <2>3, <4>1
      <4> QED BY <4>1, <4>2, <4>3
    <3>3. CASE i = m + 1
      <4>1. g[i] = last /\ g[m] = f[m] /\ i - 1 = m /\ i # 0
        BY <2>3, <3>3
      <4> QED BY <2>2, <3>3, <4>1
    <3> QED BY <3>1, <3>2, <3>3
  <2>5. g = [i \in 0..(m + 1) |-> IF i = 0 THEN [ok |-> TRUE, cursor |-> 0, fields |-> <<>>] ELSE PlaceField(g[i - 1], data[i])]
    BY <2>3, <2>4
  <2>6. IsPlacing(data, m + 1, g)
    BY <2>5 DEF IsPlacing
  <2> QED BY <2>6
<1>3. T = Nat
  BY <1>1, <1>2, SetInduction
<1> QED BY <1>3

LEMMA PlacingFacts ==
  ASSUME NEW data, NEW n \in Nat, NEW f, IsPlacing(data, n, f)
  PROVE  f[0] = [ok |-> TRUE, cursor |-> 0, fields |-> <<>>] /\ \A m \in 0..(n - 1) : f[m + 1] = PlaceField(f[m], data[m + 1])
<1>1. f[0] = [ok |-> TRUE, cursor |-> 0, fields |-> <<>>]
  BY DEF IsPlacing
<1>2. ASSUME NEW i \in 1..n PROVE f[i] = PlaceField(f[i - 1], data[i])
  <2>1. i \in 0..n /\ i # 0
    OBVIOUS
  <2> QED BY <2>1 DEF IsPlacing
<1>3. ASSUME NEW m \in 0..(n - 1) PROVE f[m + 1] = PlaceField(f[m], data[m + 1])
  <2>1. PICK i : i = m + 1
    OBVIOUS
  <2>2. i \in 1..n /\ i - 1 = m
    BY <2>1
  <2>3. f[i] = PlaceField(f[i - 1], data[i])
    BY <1>2, <2>2
  <2> QED BY <2>1, <2>2, <2>3
<1> QED BY <1>1, <1>3

LEMMA FieldsLaidOut ==
  ASSUME NEW data, data \in Seq(Range(data)),
         \A f \in Range(data) : f.width \in Nat /\ f.offset \in Int
  PROVE  LayingOut(PlaceFields(data))
<1>1. PICK n \in Nat : n = Len(data)
  OBVIOUS
<1>2. PICK f : f = CHOOSE g : IsPlacing(data, n, g)
  OBVIOUS
<1>3. IsPlacing(data, n, f)
  BY <1>2, PlacingExists
<1>4. PlaceFields(data) = f[n]
  BY <1>1, <1>2 DEF PlaceFields, IsPlacing
<1> DEFINE T == {m \in Nat : m <= n => LayingOut(f[m])}
<1>5. 0 \in T
  <2>1. f[0] = [ok |-> TRUE, cursor |-> 0, fields |-> <<>>]
    BY <1>3 DEF IsPlacing
  <2> QED BY <2>1, EmptyLayout
<1>6. ASSUME NEW m \in Nat, m \in T PROVE m + 1 \in T
  <2>1. SUFFICES ASSUME m + 1 <= n PROVE LayingOut(f[m + 1])
    OBVIOUS
  <2>2. m + 1 \in 0..n /\ m + 1 # 0 /\ m + 1 - 1 = m /\ m + 1 \in 1..n
    BY <2>1
  <2>3. f[m + 1] = PlaceField(f[m], data[m + 1])
    BY <1>3, <2>1, PlacingFacts
  <2>4. data[m + 1] \in Range(data)
    BY <1>1, <2>2 DEF Range
  <2> QED BY <1>6, <2>1, <2>3, <2>4, PlaceFieldLays
<1>7. T = Nat
  BY <1>5, <1>6, SetInduction
<1>8. n \in T
  BY <1>7
<1> QED
  BY <1>4, <1>8

--------------------------------------------------------------------------------
(* The struct type and its annotations (BuildCBufferSchemaLayout,                *)
(* MaybeAnnotateCBufferType).                                                    *)

(* c is the cursor before and behind each element: the elements follow one       *)
(* another, and a field is where the layout has it.                              *)
CursorOf(fields, es, c) ==
  \A j \in 1..Len(es) : /\ c[j] = c[j - 1] + es[j].bytes
                        /\ es[j].field # 0 => fields[es[j].field].offset = c[j - 1]

(* The elements run from one offset to another.                                  *)
Runs(fields, es, from, to) ==
  /\ IsSequence(es)
  /\ \E c \in [0..Len(es) -> Nat] : /\ c[0] = from /\ c[Len(es)] = to
                                    /\ CursorOf(fields, es, c)

LEMMA RunsConcat ==
  ASSUME NEW fields, NEW s, NEW t, NEW from, NEW between, NEW to,
         Runs(fields, s, from, between), Runs(fields, t, between, to)
  PROVE  Runs(fields, s \o t, from, to)
<1>1. /\ IsSequence(s \o t) /\ Len(s \o t) = Len(s) + Len(t)
      /\ \A i \in 1..Len(s) : (s \o t)[i] = s[i]
      /\ \A i \in 1..Len(t) : (s \o t)[Len(s) + i] = t[i]
      /\ Len(s) \in Nat /\ Len(t) \in Nat
  BY ConcatFacts, SequenceFacts DEF Runs
<1>2. PICK c \in [0..Len(s) -> Nat] : c[0] = from /\ c[Len(s)] = between /\ CursorOf(fields, s, c)
  BY DEF Runs
<1>3. PICK d \in [0..Len(t) -> Nat] : d[0] = between /\ d[Len(t)] = to /\ CursorOf(fields, t, d)
  BY DEF Runs
<1>4. PICK e : e = [i \in 0..(Len(s) + Len(t)) |-> IF i <= Len(s) THEN c[i] ELSE d[i - Len(s)]]
  OBVIOUS
<1>5. e \in [0..(Len(s) + Len(t)) -> Nat]
  BY <1>1, <1>4
<1>6. e[0] = from /\ e[Len(s) + Len(t)] = to
  <2>1. 0 \in 0..(Len(s) + Len(t)) /\ 0 <= Len(s) /\ Len(s) + Len(t) \in 0..(Len(s) + Len(t))
    BY <1>1
  <2>2. e[0] = c[0]
    BY <1>4, <2>1
  <2>3. CASE Len(t) = 0
    <3>1. Len(s) + Len(t) = Len(s) /\ e[Len(s) + Len(t)] = c[Len(s)]
      BY <1>1, <1>4, <2>1, <2>3
    <3> QED BY <1>2, <1>3, <2>2, <2>3, <3>1
  <2>4. CASE Len(t) # 0
    <3>1. ~(Len(s) + Len(t) <= Len(s)) /\ Len(s) + Len(t) - Len(s) = Len(t)
      BY <1>1, <2>4
    <3>2. e[Len(s) + Len(t)] = d[Len(t)]
      BY <1>4, <2>1, <3>1
    <3> QED BY <1>2, <1>3, <2>2, <3>2
  <2> QED BY <2>3, <2>4
<1>7. ASSUME NEW j \in 1..(Len(s) + Len(t))
      PROVE  /\ e[j] = e[j - 1] + (s \o t)[j].bytes
             /\ (s \o t)[j].field # 0 => fields[(s \o t)[j].field].offset = e[j - 1]
  <2>1. CASE j \in 1..Len(s)
    <3>1. (s \o t)[j] = s[j] /\ e[j] = c[j] /\ e[j - 1] = c[j - 1]
      BY <1>1, <1>4, <2>1
    <3> QED BY <1>2, <2>1, <3>1 DEF CursorOf
  <2>2. CASE ~(j <= Len(s))
    <3>1. PICK i : i = j - Len(s)
      OBVIOUS
    <3>2. i \in 1..Len(t) /\ j = Len(s) + i
      BY <1>1, <2>2, <3>1
    <3>3. (s \o t)[j] = t[i] /\ e[j] = d[i]
      BY <1>1, <1>4, <2>2, <3>1, <3>2
    <3>4. e[j - 1] = d[i - 1]
      <4>1. CASE i = 1
        <5>1. j - 1 = Len(s) /\ j - 1 \in 0..(Len(s) + Len(t)) /\ i - 1 = 0
          BY <1>1, <3>2, <4>1
        <5> QED BY <1>2, <1>3, <1>4, <5>1
      <4>2. CASE i # 1
        <5>1. ~(j - 1 <= Len(s)) /\ j - 1 \in 0..(Len(s) + Len(t)) /\ j - 1 - Len(s) = i - 1
          BY <1>1, <3>2, <4>2
        <5> QED BY <1>4, <5>1
      <4> QED BY <4>1, <4>2
    <3> QED BY <1>3, <3>2, <3>3, <3>4 DEF CursorOf
  <2> QED BY <1>1, <2>1, <2>2
<1>8. CursorOf(fields, s \o t, e)
  BY <1>1, <1>7 DEF CursorOf
<1> QED
  BY <1>1, <1>5, <1>6, <1>8 DEF Runs

LEMMA PaddingRuns ==
  ASSUME NEW fields, NEW from \in Nat, NEW bytes \in Nat
  PROVE  Runs(fields, Padding(bytes), from, from + bytes)
<1> DEFINE words == bytes \div 4
           rest == bytes % 4
<1>1. words \in Nat /\ rest \in 0..3 /\ bytes = 4 * words + rest
  OBVIOUS
<1>2. PICK p : p = Padding(bytes)
  OBVIOUS
<1> HIDE DEF words, rest
<1>3. p = [k \in 1..(words + rest) |-> [bytes |-> IF k <= words THEN 4 ELSE 1, field |-> 0]]
  BY <1>2 DEF Padding, words, rest
<1>4. DOMAIN p = 1..(words + rest) /\ p = [k \in 1..(words + rest) |-> p[k]] /\ words + rest \in Nat
  BY <1>1, <1>3
<1>5. IsSequence(p) /\ Len(p) = words + rest
  BY <1>4, ConstructedSequence
<1>6. PICK c : c = [k \in 0..(words + rest) |->
                      IF k <= words THEN from + 4 * k ELSE from + 4 * words + (k - words)]
  OBVIOUS
<1>7. c \in [0..(words + rest) -> Nat]
  BY <1>1, <1>6
<1>8. c[0] = from /\ c[words + rest] = from + bytes
  <2>1. 0 \in 0..(words + rest) /\ words + rest \in 0..(words + rest) /\ 0 <= words
    BY <1>1
  <2>2. c[0] = from + 4 * 0
    BY <1>6, <2>1
  <2>3. rest = 0 => c[words + rest] = from + 4 * words
    BY <1>1, <1>6, <2>1
  <2>4. rest # 0 => c[words + rest] = from + 4 * words + (words + rest - words)
    BY <1>1, <1>6, <2>1
  <2> QED BY <1>1, <2>2, <2>3, <2>4
<1>9. ASSUME NEW j \in 1..(words + rest)
      PROVE  c[j] = c[j - 1] + p[j].bytes /\ p[j].field = 0
  <2>1. j \in 0..(words + rest) /\ j - 1 \in 0..(words + rest)
    BY <1>1
  <2>2. p[j].bytes = IF j <= words THEN 4 ELSE 1
    BY <1>3
  <2>3. p[j].field = 0
    BY <1>3
  <2>4. CASE j <= words
    <3>1. c[j] = from + 4 * j /\ c[j - 1] = from + 4 * (j - 1)
      BY <1>1, <1>6, <2>1, <2>4
    <3> QED BY <1>1, <2>2, <2>3, <2>4, <3>1
  <2>5. CASE j - 1 = words
    <3>1. c[j] = from + 4 * words + (j - words) /\ c[j - 1] = from + 4 * (j - 1)
      BY <1>1, <1>6, <2>1, <2>5
    <3> QED BY <1>1, <2>2, <2>3, <2>5, <3>1
  <2>6. CASE j - 1 > words
    <3>1. c[j] = from + 4 * words + (j - words) /\ c[j - 1] = from + 4 * words + (j - 1 - words)
      BY <1>1, <1>6, <2>1, <2>6
    <3> QED BY <1>1, <2>2, <2>3, <2>6, <3>1
  <2> QED BY <1>1, <2>4, <2>5, <2>6
<1>10. CursorOf(fields, p, c)
  BY <1>5, <1>9 DEF CursorOf
<1> QED
  BY <1>2, <1>5, <1>7, <1>8, <1>10 DEF Runs

LEMMA FieldRuns ==
  ASSUME NEW fields, NEW k \in Nat \ {0}, NEW from \in Nat, NEW bytes \in Nat,
         fields[k].offset = from
  PROVE  Runs(fields, <<[bytes |-> bytes, field |-> k]>>, from, from + bytes)
<1>1. PICK es : es = <<[bytes |-> bytes, field |-> k]>>
  OBVIOUS
<1>2. es \in Seq({[bytes |-> bytes, field |-> k]}) /\ Len(es) = 1
      /\ es[1].bytes = bytes /\ es[1].field = k
  BY <1>1
<1>3. PICK c : c = [i \in 0..1 |-> IF i = 0 THEN from ELSE from + bytes]
  OBVIOUS
<1>4. c \in [0..1 -> Nat] /\ c[0] = from /\ c[1] = from + bytes
  BY <1>3
<1>5. CursorOf(fields, es, c)
  BY <1>2, <1>4 DEF CursorOf
<1> QED
  BY <1>1, <1>2, <1>4, <1>5 DEF Runs, IsSequence

(* StructElements is a fold over the fields.                                     *)
IsStruct(fields, n, f) ==
  f = [i \in 0..n |-> IF i = 0 THEN <<>> ELSE f[i - 1] \o FieldElements(fields, i)]

LEMMA StructExists ==
  ASSUME NEW fields, NEW n \in Nat
  PROVE  \E f : IsStruct(fields, n, f)
<1> DEFINE T == {m \in Nat : \E f : IsStruct(fields, m, f)}
<1>1. 0 \in T
  <2>1. PICK f : f = [i \in 0..0 |-> <<>>]
    OBVIOUS
  <2>2. f = [i \in 0..0 |-> IF i = 0 THEN <<>> ELSE f[i - 1] \o FieldElements(fields, i)]
    BY <2>1
  <2> QED BY <2>2 DEF IsStruct
<1>2. ASSUME NEW m \in Nat, m \in T PROVE m + 1 \in T
  <2>1. PICK f : IsStruct(fields, m, f)
    BY <1>2
  <2>2. PICK last : last = f[m] \o FieldElements(fields, m + 1)
    OBVIOUS
  <2>3. PICK g : g = [i \in 0..(m + 1) |-> IF i <= m THEN f[i] ELSE last]
    OBVIOUS
  <2>4. ASSUME NEW i \in 0..(m + 1)
        PROVE  g[i] = IF i = 0 THEN <<>> ELSE g[i - 1] \o FieldElements(fields, i)
    <3>1. CASE i = 0
      BY <2>1, <2>3, <3>1 DEF IsStruct
    <3>2. CASE i \in 1..m
      <4>1. i \in 0..m /\ i - 1 \in 0..m /\ i # 0
        BY <3>2
      <4>2. f[i] = f[i - 1] \o FieldElements(fields, i)
        BY <2>1, <4>1 DEF IsStruct
      <4>3. g[i] = f[i] /\ g[i - 1] = f[i - 1]
        BY <2>3, <4>1
      <4> QED BY <4>1, <4>2, <4>3
    <3>3. CASE i = m + 1
      <4>1. g[i] = last /\ g[m] = f[m] /\ i - 1 = m /\ i # 0
        BY <2>3, <3>3
      <4> QED BY <2>2, <3>3, <4>1
    <3> QED BY <3>1, <3>2, <3>3
  <2>5. g = [i \in 0..(m + 1) |-> IF i = 0 THEN <<>> ELSE g[i - 1] \o FieldElements(fields, i)]
    BY <2>3, <2>4
  <2>6. IsStruct(fields, m + 1, g)
    BY <2>5 DEF IsStruct
  <2> QED BY <2>6
<1>3. T = Nat
  BY <1>1, <1>2, SetInduction
<1> QED BY <1>3

LEMMA StructFacts ==
  ASSUME NEW fields, NEW n \in Nat, NEW f, IsStruct(fields, n, f)
  PROVE  f[0] = <<>> /\ \A m \in 0..(n - 1) : f[m + 1] = f[m] \o FieldElements(fields, m + 1)
<1>1. f[0] = <<>>
  BY DEF IsStruct
<1>2. ASSUME NEW i \in 1..n PROVE f[i] = f[i - 1] \o FieldElements(fields, i)
  <2>1. i \in 0..n /\ i # 0
    OBVIOUS
  <2> QED BY <2>1 DEF IsStruct
<1>3. ASSUME NEW m \in 0..(n - 1) PROVE f[m + 1] = f[m] \o FieldElements(fields, m + 1)
  <2>1. PICK i : i = m + 1
    OBVIOUS
  <2>2. i \in 1..n /\ i - 1 = m
    BY <2>1
  <2>3. f[i] = f[i - 1] \o FieldElements(fields, i)
    BY <1>2, <2>2
  <2> QED BY <2>1, <2>2, <2>3
<1> QED BY <1>1, <1>3

(* The first n fields are elements.                                              *)
FieldsAmong(fields, n, es) ==
  \A k \in 1..n : \E j \in 1..Len(es) : es[j] = [bytes |-> FieldSize(fields[k]), field |-> k]

LEMMA AmongConcat ==
  ASSUME NEW fields, NEW n \in Nat, NEW s, NEW t, IsSequence(s), IsSequence(t),
         FieldsAmong(fields, n, s)
  PROVE  FieldsAmong(fields, n, s \o t)
<1>1. /\ Len(s \o t) = Len(s) + Len(t) /\ \A i \in 1..Len(s) : (s \o t)[i] = s[i]
      /\ Len(s) \in Nat /\ Len(t) \in Nat
  BY ConcatFacts, SequenceFacts
<1>2. \A j \in 1..Len(s) : j \in 1..Len(s \o t)
  BY <1>1
<1> QED
  BY <1>1, <1>2 DEF FieldsAmong

LEMMA StructRuns ==
  ASSUME NEW fields, LaidOut(fields)
  PROVE  /\ Runs(fields, StructElements(fields), 0, EndOf(fields, Len(fields)))
         /\ FieldsAmong(fields, Len(fields), StructElements(fields))
<1>1. PICK n \in Nat : n = Len(fields) /\ DOMAIN fields = 1..n
  BY SequenceFacts DEF LaidOut
<1>2. PICK f : f = CHOOSE g : IsStruct(fields, n, g)
  OBVIOUS
<1>3. IsStruct(fields, n, f)
  BY <1>2, StructExists
<1>4. StructElements(fields) = f[n]
  BY <1>1, <1>2 DEF StructElements, IsStruct
<1> DEFINE T == {m \in Nat : m <= n => /\ Runs(fields, f[m], 0, EndOf(fields, m))
                                       /\ FieldsAmong(fields, m, f[m])}
<1>5. 0 \in T
  <2>1. f[0] = <<>>
    BY <1>3, StructFacts
  <2>2. IsSequence(<<>>) /\ Len(<<>>) = 0
    BY EmptySeq DEF IsSequence
  <2>3. PICK c : c = [i \in 0..0 |-> 0]
    OBVIOUS
  <2>4. c \in [0..0 -> Nat] /\ c[0] = 0
    BY <2>3
  <2>5. CursorOf(fields, <<>>, c)
    BY <2>2 DEF CursorOf
  <2>6. Runs(fields, <<>>, 0, 0)
    BY <2>2, <2>4, <2>5 DEF Runs
  <2>7. FieldsAmong(fields, 0, <<>>)
    BY DEF FieldsAmong
  <2> QED BY <2>1, <2>6, <2>7 DEF EndOf
<1>6. ASSUME NEW m \in Nat, m \in T PROVE m + 1 \in T
  <2>1. SUFFICES ASSUME m + 1 <= n
                 PROVE  /\ Runs(fields, f[m + 1], 0, EndOf(fields, m + 1))
                        /\ FieldsAmong(fields, m + 1, f[m + 1])
    OBVIOUS
  <2>2. PICK k : k = m + 1
    OBVIOUS
  <2>3. k \in 1..n /\ k - 1 = m /\ m \in 0..(n - 1) /\ m \in 0..n /\ k \in Nat \ {0}
    BY <2>1, <2>2
  <2>4. PICK gap : gap = Padding(fields[k].offset - EndOf(fields, m))
    OBVIOUS
  <2>5. PICK one : one = <<[bytes |-> FieldSize(fields[k]), field |-> k]>>
    OBVIOUS
  <2>6. f[k] = f[m] \o (gap \o one)
    <3>1. f[m + 1] = f[m] \o FieldElements(fields, m + 1)
      BY <1>3, <2>3, StructFacts
    <3>2. FieldElements(fields, k) = gap \o one
      BY <2>3, <2>4, <2>5 DEF FieldElements
    <3> QED BY <2>2, <3>1, <3>2
  <2>7. EndOf(fields, m) \in Nat /\ fields[k].offset \in Nat /\ fields[k].width \in 1..4
        /\ EndOf(fields, m) <= fields[k].offset
    BY <1>1, <2>3, EndIsNumber DEF LaidOut
  <2>8. FieldSize(fields[k]) \in Nat
    BY <2>7 DEF FieldSize, ComponentBytes
  <2>9. EndOf(fields, k) = fields[k].offset + FieldSize(fields[k])
    BY <2>3 DEF EndOf
  <2>10. Runs(fields, f[m], 0, EndOf(fields, m)) /\ FieldsAmong(fields, m, f[m])
    BY <1>6, <2>3
  <2>11. Runs(fields, gap, EndOf(fields, m), fields[k].offset)
    <3>1. PICK b : b = fields[k].offset - EndOf(fields, m)
      OBVIOUS
    <3>2. b \in Nat /\ EndOf(fields, m) + b = fields[k].offset
      BY <2>7, <3>1
    <3>3. Runs(fields, Padding(b), EndOf(fields, m), EndOf(fields, m) + b)
      BY <2>7, <3>2, PaddingRuns
    <3> QED BY <2>4, <3>1, <3>2, <3>3
  <2>12. Runs(fields, one, fields[k].offset, EndOf(fields, k))
    BY <2>3, <2>5, <2>7, <2>8, <2>9, FieldRuns
  <2>13. PICK s : s = gap \o one
    OBVIOUS
  <2>14. Runs(fields, s, EndOf(fields, m), EndOf(fields, k))
    BY <2>11, <2>12, <2>13, RunsConcat
  <2>15. Runs(fields, f[m] \o s, 0, EndOf(fields, k))
    BY <2>10, <2>14, RunsConcat
  <2>16. IsSequence(f[m]) /\ IsSequence(gap) /\ IsSequence(one) /\ IsSequence(s)
    BY <2>10, <2>11, <2>12, <2>14 DEF Runs
  <2>17. FieldsAmong(fields, m, f[m] \o s)
    BY <2>10, <2>16, AmongConcat
  <2>18. FieldsAmong(fields, k, f[m] \o s)
    <3>1. Len(one) = 1 /\ one[1] = [bytes |-> FieldSize(fields[k]), field |-> k]
      BY <2>5
    <3>2. 1 \in 1..Len(one) /\ Len(gap) \in Nat /\ Len(f[m]) \in Nat
      BY <2>16, <3>1, SequenceFacts
    <3>3. Len(s) = Len(gap) + 1 /\ s[Len(gap) + 1] = one[1]
      <4>1. /\ Len(gap \o one) = Len(gap) + Len(one)
            /\ \A i \in 1..Len(one) : (gap \o one)[Len(gap) + i] = one[i]
        BY <2>16, ConcatFacts
      <4> QED BY <2>13, <3>1, <3>2, <4>1
    <3>4. Len(gap) + 1 \in 1..Len(s)
      BY <3>2, <3>3
    <3>5. /\ Len(f[m] \o s) = Len(f[m]) + Len(s)
          /\ (f[m] \o s)[Len(f[m]) + (Len(gap) + 1)] = one[1]
      <4>1. /\ Len(f[m] \o s) = Len(f[m]) + Len(s)
            /\ \A i \in 1..Len(s) : (f[m] \o s)[Len(f[m]) + i] = s[i]
        BY <2>16, ConcatFacts
      <4> QED BY <3>3, <3>4, <4>1
    <3>6. Len(f[m]) + (Len(gap) + 1) \in 1..Len(f[m] \o s)
      <4>1. PICK all, before, middle : /\ all = Len(f[m] \o s) /\ before = Len(f[m])
                                       /\ middle = Len(gap)
        OBVIOUS
      <4>2. before \in Nat /\ middle \in Nat /\ all = before + (middle + 1)
        BY <3>2, <3>3, <3>5, <4>1
      <4>3. before + (middle + 1) \in 1..all
        BY <4>2
      <4> QED BY <4>1, <4>3
    <3>7. \A i \in 1..k : i \in 1..m \/ i = k
      BY <2>3
    <3> QED BY <2>17, <3>1, <3>5, <3>6, <3>7 DEF FieldsAmong
  <2> QED BY <2>2, <2>6, <2>13, <2>15, <2>18
<1>7. T = Nat
  BY <1>5, <1>6, SetInduction
<1>8. n \in T
  BY <1>7
<1> QED
  BY <1>1, <1>4, <1>8

(* With the padding behind the last field they run to the end of the buffer.     *)
LEMMA SchemaRuns ==
  ASSUME NEW fields, LaidOut(fields), NEW size \in Nat, EndOf(fields, Len(fields)) <= size
  PROVE  /\ Runs(fields, BuildCBufferSchemaLayout(fields, size), 0, size)
         /\ FieldsAmong(fields, Len(fields), BuildCBufferSchemaLayout(fields, size))
<1>1. PICK es, rest : /\ es = StructElements(fields)
                      /\ rest = Padding(size - EndOf(fields, Len(fields)))
  OBVIOUS
<1>2. Runs(fields, es, 0, EndOf(fields, Len(fields))) /\ FieldsAmong(fields, Len(fields), es)
  BY <1>1, StructRuns
<1>3. Len(fields) \in Nat /\ EndOf(fields, Len(fields)) \in Nat
  BY EndIsNumber, SequenceFacts DEF LaidOut
<1>4. Runs(fields, rest, EndOf(fields, Len(fields)), size)
  <2>1. PICK b : b = size - EndOf(fields, Len(fields))
    OBVIOUS
  <2>2. b \in Nat /\ EndOf(fields, Len(fields)) + b = size
    BY <1>3, <2>1
  <2>3. Runs(fields, Padding(b), EndOf(fields, Len(fields)), EndOf(fields, Len(fields)) + b)
    BY <1>3, <2>2, PaddingRuns
  <2> QED BY <1>1, <2>1, <2>2, <2>3
<1>5. Runs(fields, es \o rest, 0, size)
  BY <1>2, <1>4, RunsConcat
<1>6. IsSequence(es) /\ IsSequence(rest)
  BY <1>2, <1>4 DEF Runs
<1>7. FieldsAmong(fields, Len(fields), es \o rest)
  BY <1>2, <1>3, <1>6, AmongConcat
<1> QED
  BY <1>1, <1>5, <1>7 DEF BuildCBufferSchemaLayout

(* The annotations of elements, element after element.                           *)
IsAnnotation(fields, es, n, f) ==
  f = [k \in 1..n |->
         [offset |-> IF es[k].field = 0 THEN (IF k = 1 THEN 0 ELSE f[k - 1].offset + f[k - 1].bytes)
                     ELSE fields[es[k].field].offset,
          bytes |-> es[k].bytes, field |-> es[k].field]]

(* Elements that run from 0 have annotations: the cursors give them.             *)
LEMMA AnnotationExists ==
  ASSUME NEW fields, NEW es, NEW n \in Nat, NEW c \in [0..n -> Nat], n = Len(es),
         c[0] = 0, CursorOf(fields, es, c)
  PROVE  \E h : IsAnnotation(fields, es, n, h)
<1>1. PICK h : h = [k \in 1..n |->
                      [offset |-> c[k - 1], bytes |-> es[k].bytes, field |-> es[k].field]]
  OBVIOUS
<1>2. IsAnnotation(fields, es, n, h)
  <2>1. ASSUME NEW k \in 1..n
        PROVE  h[k].offset = IF es[k].field = 0
                               THEN (IF k = 1 THEN 0 ELSE h[k - 1].offset + h[k - 1].bytes)
                               ELSE fields[es[k].field].offset
    <3>1. h[k].offset = c[k - 1]
      BY <1>1
    <3>2. k = 1 => c[k - 1] = 0
      OBVIOUS
    <3>3. ASSUME k # 1 PROVE h[k - 1].offset + h[k - 1].bytes = c[k - 1]
      <4>1. PICK j : j = k - 1
        OBVIOUS
      <4>2. j \in 1..n
        BY <3>3, <4>1
      <4>3. h[j].offset = c[j - 1] /\ h[j].bytes = es[j].bytes /\ c[j] = c[j - 1] + es[j].bytes
        BY <1>1, <4>2 DEF CursorOf
      <4> QED BY <4>1, <4>3
    <3>4. es[k].field # 0 => fields[es[k].field].offset = c[k - 1]
      BY DEF CursorOf
    <3> QED BY <3>1, <3>2, <3>3, <3>4
  <2>2. \A k \in 1..n : h[k] = [offset |-> h[k].offset, bytes |-> es[k].bytes,
                                field |-> es[k].field]
    BY <1>1
  <2>3. h = [k \in 1..n |->
               [offset |-> IF es[k].field = 0
                             THEN (IF k = 1 THEN 0 ELSE h[k - 1].offset + h[k - 1].bytes)
                             ELSE fields[es[k].field].offset,
                bytes |-> es[k].bytes, field |-> es[k].field]]
    <3>1. h = [k \in 1..n |-> h[k]]
      BY <1>1
    <3>2. \A k \in 1..n :
            h[k] = [offset |-> IF es[k].field = 0
                                 THEN (IF k = 1 THEN 0 ELSE h[k - 1].offset + h[k - 1].bytes)
                                 ELSE fields[es[k].field].offset,
                    bytes |-> es[k].bytes, field |-> es[k].field]
      BY <2>1, <2>2
    <3> QED BY <3>1, <3>2
  <2> QED BY <2>3 DEF IsAnnotation
<1> QED
  BY <1>2

(* The annotations of elements that run along the cursors c.                     *)
AnnotatedBy(es, c, n) ==
  [k \in 1..n |-> [offset |-> c[k - 1], bytes |-> es[k].bytes, field |-> es[k].field]]

(* For elements that run from 0, the cursors are the annotated offsets.          *)
LEMMA AnnotationIsCursor ==
  ASSUME NEW fields, NEW es, NEW n \in Nat, NEW c \in [0..n -> Nat], n = Len(es),
         c[0] = 0, CursorOf(fields, es, c), NEW f, IsAnnotation(fields, es, n, f)
  PROVE  f = AnnotatedBy(es, c, n)
<1>4. ASSUME NEW k \in 1..n
      PROVE  /\ f[k].offset = IF es[k].field = 0
                                THEN (IF k = 1 THEN 0 ELSE f[k - 1].offset + f[k - 1].bytes)
                                ELSE fields[es[k].field].offset
             /\ f[k] = [offset |-> f[k].offset, bytes |-> es[k].bytes, field |-> es[k].field]
             /\ f[k].bytes = es[k].bytes
  <2>1. PICK offset : offset = IF es[k].field = 0
                                 THEN (IF k = 1 THEN 0 ELSE f[k - 1].offset + f[k - 1].bytes)
                                 ELSE fields[es[k].field].offset
    OBVIOUS
  <2>2. f[k] = [offset |-> IF es[k].field = 0
                             THEN (IF k = 1 THEN 0 ELSE f[k - 1].offset + f[k - 1].bytes)
                             ELSE fields[es[k].field].offset,
                bytes |-> es[k].bytes, field |-> es[k].field]
    BY DEF IsAnnotation
  <2>3. f[k] = [offset |-> offset, bytes |-> es[k].bytes, field |-> es[k].field]
    BY <2>1, <2>2
  <2>4. f[k].offset = offset /\ f[k].bytes = es[k].bytes
    BY <2>3
  <2> QED BY <2>1, <2>3, <2>4
<1> DEFINE T == {m \in Nat : m + 1 <= n => f[m + 1].offset = c[m]}
<1>5. 0 \in T
  <2>1. SUFFICES ASSUME 1 <= n PROVE f[1].offset = c[0]
    OBVIOUS
  <2>2. 1 \in 1..n /\ 1 - 1 = 0
    BY <2>1
  <2>3. es[1].field # 0 => fields[es[1].field].offset = c[0]
    BY <2>2 DEF CursorOf
  <2>4. f[1].offset = IF es[1].field = 0 THEN 0 ELSE fields[es[1].field].offset
    BY <1>4, <2>2
  <2> QED BY <2>3, <2>4
<1>6. ASSUME NEW m \in Nat, m \in T PROVE m + 1 \in T
  <2>1. SUFFICES ASSUME m + 1 + 1 <= n PROVE f[m + 1 + 1].offset = c[m + 1]
    OBVIOUS
  <2>2. PICK j, k : j = m + 1 /\ k = m + 1 + 1
    OBVIOUS
  <2>3. j \in 1..n /\ k \in 1..n /\ k - 1 = j /\ j - 1 = m /\ k # 1
    BY <2>1, <2>2
  <2>4. f[j].offset = c[j - 1] /\ f[j].bytes = es[j].bytes
    <3>1. f[m + 1].offset = c[m]
      BY <1>6, <2>2, <2>3
    <3>2. f[j].bytes = es[j].bytes
      BY <1>4, <2>3
    <3> QED BY <2>2, <2>3, <3>1, <3>2
  <2>5. c[j] = c[j - 1] + es[j].bytes
    BY <2>3 DEF CursorOf
  <2>6. es[k].field # 0 => fields[es[k].field].offset = c[j]
    BY <2>3 DEF CursorOf
  <2>7. f[k].offset = IF es[k].field = 0 THEN f[j].offset + f[j].bytes
                      ELSE fields[es[k].field].offset
    <3>1. f[k].offset = IF es[k].field = 0
                          THEN (IF k = 1 THEN 0 ELSE f[k - 1].offset + f[k - 1].bytes)
                          ELSE fields[es[k].field].offset
      BY <1>4, <2>3
    <3> QED BY <2>3, <3>1
  <2> QED BY <2>2, <2>4, <2>5, <2>6, <2>7
<1>7. T = Nat
  BY <1>5, <1>6, SetInduction
<1>8. ASSUME NEW k \in 1..n
      PROVE  f[k] = [offset |-> c[k - 1], bytes |-> es[k].bytes, field |-> es[k].field]
  <2>1. PICK m : m = k - 1
    OBVIOUS
  <2>2. m \in Nat /\ m + 1 = k
    BY <2>1
  <2>3. f[k].offset = c[k - 1]
    <3>1. m + 1 <= n => f[m + 1].offset = c[m]
      BY <1>7, <2>2
    <3> QED BY <2>1, <2>2, <3>1
  <2> QED BY <1>4, <2>3
<1>9. f = [k \in 1..n |-> f[k]]
  BY DEF IsAnnotation
<1>10. f = [k \in 1..n |-> [offset |-> c[k - 1], bytes |-> es[k].bytes, field |-> es[k].field]]
  BY <1>8, <1>9
<1> QED
  BY <1>10 DEF AnnotatedBy

(* The elements of an annotated struct type.                                     *)
AnnotatedElements(type) ==
  /\ IsSequence(type)
  /\ \A k \in DOMAIN type : type[k] = [offset |-> type[k].offset, bytes |-> type[k].bytes,
                                       field |-> type[k].field]

(* A layout with fields tiles its cbuffer.                                       *)
LEMMA AnnotatedTiles ==
  ASSUME NEW r, LaidOut(r.fields), r.fields # <<>>, r.size \in Nat,
         EndOf(r.fields, Len(r.fields)) <= r.size,
         NEW type, type = AnnotateCBufferType(r.fields, r.size)
  PROVE  Tiles(r, type) /\ AnnotatedElements(type)
<1>1. PICK fields, size, es : /\ fields = r.fields /\ size = r.size
                              /\ es = BuildCBufferSchemaLayout(fields, size)
  OBVIOUS
<1>2. Runs(fields, es, 0, size) /\ FieldsAmong(fields, Len(fields), es)
  BY <1>1, SchemaRuns
<1>3. PICK n \in Nat : n = Len(es)
  BY <1>2, SequenceFacts DEF Runs
<1>4. PICK c \in [0..n -> Nat] : c[0] = 0 /\ c[n] = size /\ CursorOf(fields, es, c)
  BY <1>2, <1>3 DEF Runs
<1>5. type = CHOOSE g : IsAnnotation(fields, es, n, g)
  BY <1>1, <1>3 DEF AnnotateCBufferType, IsAnnotation
<1>6. type = [k \in 1..n |-> [offset |-> c[k - 1], bytes |-> es[k].bytes, field |-> es[k].field]]
  <2>1. PICK f : f = CHOOSE g : IsAnnotation(fields, es, n, g)
    OBVIOUS
  <2>2. f = AnnotatedBy(es, c, n)
    <3>1. IsAnnotation(fields, es, n, f)
      BY <1>3, <1>4, <2>1, AnnotationExists
    <3>2. n \in Nat /\ n = Len(es) /\ c \in [0..n -> Nat] /\ c[0] = 0 /\ CursorOf(fields, es, c)
      BY <1>3, <1>4
    <3> QED BY <3>1, <3>2, AnnotationIsCursor
  <2> QED BY <1>5, <2>1, <2>2 DEF AnnotatedBy
<1>7. DOMAIN type = 1..n
  BY <1>6
<1>8. PICK ends : ends = [j \in DOMAIN type |-> type[j].offset + type[j].bytes]
  OBVIOUS
<1>9. ASSUME NEW j \in 1..n PROVE ends[j] = c[j] /\ type[j].offset = c[j - 1]
  <2>1. type[j] = [offset |-> c[j - 1], bytes |-> es[j].bytes, field |-> es[j].field]
    BY <1>6
  <2>2. ends[j] = c[j - 1] + es[j].bytes
    BY <1>7, <1>8, <2>1
  <2> QED BY <1>3, <1>4, <2>1, <2>2 DEF CursorOf
<1>10. Len(fields) \in Nat \ {0} /\ DOMAIN fields = 1..Len(fields)
  <2>1. Len(fields) \in Nat /\ DOMAIN fields = 1..Len(fields) /\ fields \in Seq(Range(fields))
    BY <1>1, SequenceFacts DEF LaidOut
  <2> QED BY <1>1, <2>1, EmptySeq
<1>11. n \in Nat \ {0}
  <2>1. 1 \in 1..Len(fields)
    BY <1>10
  <2>2. \E j \in 1..Len(es) : es[j] = [bytes |-> FieldSize(fields[1]), field |-> 1]
    BY <1>2, <2>1 DEF FieldsAmong
  <2> QED BY <1>3, <2>2
<1>12. \A j \in DOMAIN type : type[j].offset = IF j = 1 THEN 0 ELSE ends[j - 1]
  <2>1. TAKE j \in DOMAIN type
  <2>5. j \in 1..n
    BY <1>7
  <2>6. j # 1 => j - 1 \in 1..n
    BY <1>11, <2>5
  <2>2. type[j].offset = c[j - 1] /\ (j # 1 => j - 1 \in 1..n)
    BY <1>9, <2>5, <2>6
  <2>3. j # 1 => ends[j - 1] = c[j - 1]
    BY <1>9, <2>2
  <2>4. j = 1 => c[j - 1] = 0
    BY <1>4
  <2> QED BY <2>2, <2>3, <2>4
<1>13. Last(ends) = r.size
  <2>1. DOMAIN ends = 1..n /\ ends = [j \in 1..n |-> ends[j]]
    BY <1>7, <1>8
  <2>2. Len(ends) = n
    BY <1>11, <2>1, ConstructedSequence
  <2>3. ends[n] = c[n]
    BY <1>9, <1>11
  <2> QED BY <1>1, <1>4, <2>2, <2>3 DEF Last
<1>14. \A f \in DOMAIN r.fields : \E j \in DOMAIN type :
         type[j] = [offset |-> r.fields[f].offset, bytes |-> FieldSize(r.fields[f]), field |-> f]
  <2>1. TAKE f \in DOMAIN r.fields
  <2>2. f \in 1..Len(fields) /\ f # 0
    BY <1>1, <1>10
  <2>3. PICK j \in 1..n : es[j] = [bytes |-> FieldSize(fields[f]), field |-> f]
    BY <1>2, <1>3, <2>2 DEF FieldsAmong
  <2>4. es[j].field = f /\ es[j].bytes = FieldSize(fields[f])
    BY <2>3
  <2>5. fields[f].offset = c[j - 1]
    BY <1>3, <1>4, <2>2, <2>4 DEF CursorOf
  <2>6. type[j] = [offset |-> fields[f].offset, bytes |-> FieldSize(fields[f]), field |-> f]
    BY <1>6, <2>4, <2>5
  <2> QED BY <1>1, <1>7, <2>6
<1>15. AnnotatedElements(type)
  <2>1. type = [k \in 1..n |-> type[k]]
    BY <1>6
  <2>2. IsSequence(type)
    BY <1>11, <2>1, ConstructedSequence
  <2>3. ASSUME NEW k \in 1..n
        PROVE  type[k] = [offset |-> type[k].offset, bytes |-> type[k].bytes,
                          field |-> type[k].field]
    BY <1>6
  <2> QED BY <1>7, <2>2, <2>3 DEF AnnotatedElements
<1> QED
  BY <1>8, <1>12, <1>13, <1>14, <1>15 DEF Tiles

(* So does the array of one without.                                             *)
LEMMA ArrayTiles ==
  ASSUME NEW r, r.fields = <<>>, r.size \in Nat, NEW type, type = AnnotateArray(r.size)
  PROVE  Tiles(r, type) /\ AnnotatedElements(type) /\ Len(type) = 1
<1>1. PICK bytes : bytes = AlignUp(r.size, ComponentBytes)
  OBVIOUS
<1>2. type = <<[offset |-> 0, bytes |-> bytes, field |-> 1]>> /\ bytes \in Nat
  BY <1>1 DEF AnnotateArray, AlignUp, ComponentBytes
<1>3. /\ DOMAIN type = {1} /\ type[1] = [offset |-> 0, bytes |-> bytes, field |-> 1]
      /\ Len(type) = 1
  BY <1>2
<1>4. PICK ends : ends = [j \in DOMAIN type |-> type[j].offset + type[j].bytes]
  OBVIOUS
<1>5. ends = [j \in 1..1 |-> ends[j]] /\ DOMAIN ends = 1..1 /\ ends[1] = bytes
  BY <1>2, <1>3, <1>4
<1>6. Len(ends) = 1
  BY <1>5, ConstructedSequence
<1>7. DOMAIN r.fields = {}
  OBVIOUS
<1>8. Tiles(r, type)
  BY <1>1, <1>3, <1>4, <1>5, <1>6, <1>7 DEF Tiles, Last
<1>9. IsSequence(type)
  <2>1. type = [j \in 1..1 |-> type[j]]
    BY <1>2
  <2> QED BY <2>1, ConstructedSequence
<1> QED
  BY <1>3, <1>8, <1>9 DEF AnnotatedElements

(* A type that has the body of a layout is annotated as that layout.             *)
LEMMA SameBodyAnnotated ==
  ASSUME NEW fields, NEW size, NEW layout, layout = CBufferType(fields, size),
         AnnotatedElements(layout), fields = <<>> => Len(layout) = 1,
         NEW type, IsSequence(type), BodyOf(type) = BodyOf(layout)
  PROVE  Annotate(type, fields, size) = layout
<1>1. DOMAIN type = DOMAIN layout
  <2>1. DOMAIN BodyOf(type) = DOMAIN type /\ DOMAIN BodyOf(layout) = DOMAIN layout
    BY DEF BodyOf
  <2> QED BY <2>1
<1>2. ASSUME NEW k \in DOMAIN layout PROVE type[k].bytes = layout[k].bytes
  <2>1. BodyOf(type)[k] = type[k].bytes /\ BodyOf(layout)[k] = layout[k].bytes
    BY <1>1 DEF BodyOf
  <2> QED BY <2>1
<1>3. ~ (fields = <<>> /\ Len(type) # 1)
  <2>1. /\ DOMAIN type = 1..Len(type) /\ DOMAIN layout = 1..Len(layout)
        /\ Len(type) \in Nat /\ Len(layout) \in Nat
    BY SequenceFacts DEF AnnotatedElements
  <2>2. PICK m, n \in Nat : m = Len(type) /\ n = Len(layout)
    BY <2>1
  <2>3. 1..m = 1..n
    BY <1>1, <2>1, <2>2
  <2>4. n = 1 => m = 1
    <3>1. n = 1 => 1 \in 1..m /\ m \in 1..n
      BY <2>3
    <3> QED BY <3>1
  <2> QED BY <2>2, <2>4
<1>4. Annotate(type, fields, size)
        = [k \in DOMAIN layout |-> [layout[k] EXCEPT !.bytes = type[k].bytes]]
  BY <1>1, <1>3 DEF Annotate
<1>5. ASSUME NEW k \in DOMAIN layout
      PROVE  [layout[k] EXCEPT !.bytes = type[k].bytes] = layout[k]
  <2>1. layout[k] = [offset |-> layout[k].offset, bytes |-> layout[k].bytes,
                     field |-> layout[k].field]
    BY DEF AnnotatedElements
  <2>2. type[k].bytes = layout[k].bytes
    BY <1>2
  <2> QED BY <2>1, <2>2
<1>6. layout = [k \in DOMAIN layout |-> layout[k]]
  BY SequenceFacts DEF AnnotatedElements, IsSequence
<1> QED
  BY <1>4, <1>5, <1>6

--------------------------------------------------------------------------------
(* Parsing (ConvertRecipeData): the layouts that rules see are those declared,   *)
(* and every load that a cbuffer_field emit becomes reads a field.               *)

(* No rule has a load of a constant buffer of its author's, whose address would  *)
(* be the author's.                                                              *)
LoadsFromFields ==
  \A r \in Recipes : \A s \in Range(r) :
    s.kind = "rule" => \A e \in Range(s.rule.emits) : e.op # "cbufferLoadLegacy"

LEMMA ClassesAre ==
  /\ Range(Classes) = {"SRV", "UAV", "CBV", "SAM"}
  /\ Range(Signatures) = {"INPUT", "OUTPUT"}
<1>1. DOMAIN Classes = 1..4 /\ DOMAIN Signatures = 1..2
  BY DEF Classes, Signatures
<1>2. 1..4 = {1, 2, 3, 4} /\ 1..2 = {1, 2}
  OBVIOUS
<1>3. /\ Classes[1] = "SRV" /\ Classes[2] = "UAV" /\ Classes[3] = "CBV" /\ Classes[4] = "SAM"
      /\ Signatures[1] = "INPUT" /\ Signatures[2] = "OUTPUT"
  BY DEF Classes, Signatures
<1> QED
  BY <1>1, <1>2, <1>3 DEF Range

SoundField(f) ==
  /\ f.width \in 1..4 /\ f.offset \in Nat /\ f.offset % ComponentBytes = 0
  /\ ~Straddles(f.offset, FieldSize(f))

(* Every field of a layout is declared under its handle by some step.            *)
LayoutsDeclared(steps, layouts) ==
  \A h \in DOMAIN layouts : \A f \in Range(layouts[h]) :
    SoundField(f) /\ f \in DeclaredFields(steps, h)

(* A load is followed by the extract, and they read a field.                     *)
LoadsRead(steps, emits) ==
  /\ IsSequence(emits)
  /\ \A k \in 1..Len(emits) : emits[k].op = "cbufferLoadLegacy" =>
       k < Len(emits) /\ ReadsField(steps, emits[k], emits[k + 1])

Compiled(steps, s) ==
  /\ s.kind = "resource" =>
       /\ DOMAIN s.decls = Range(Classes) \cup Range(Signatures)
       /\ \A c \in DOMAIN s.decls : IsSequence(s.decls[c])
       /\ \A d \in Range(s.decls.CBV) : d.size \in Nat /\ LaidOut(d.fields)
  /\ s.kind = "rule" /\ LoadsFromFields => LoadsRead(steps, s.rule.emits)

RecipeOK(steps) ==
  /\ IsSequence(steps)
  /\ \A s \in Range(steps) : Compiled(steps, s)

Compiling(acc) ==
  /\ acc = [ok |-> acc.ok, steps |-> acc.steps, layouts |-> acc.layouts]
  /\ RecipeOK(acc.steps)
  /\ LayoutsDeclared(acc.steps, acc.layouts)

(* Further steps take nothing back.                                              *)
LEMMA DeclaredStays ==
  ASSUME NEW steps, NEW more, Range(steps) \subseteq Range(more), NEW h
  PROVE  DeclaredFields(steps, h) \subseteq DeclaredFields(more, h)
BY DEF DeclaredFields

LEMMA LoadsStayRead ==
  ASSUME NEW steps, NEW more, Range(steps) \subseteq Range(more), NEW emits,
         LoadsRead(steps, emits)
  PROVE  LoadsRead(more, emits)
<1>1. \A load, extract : ReadsField(steps, load, extract) => ReadsField(more, load, extract)
  BY DeclaredStays DEF ReadsField
<1> QED
  BY <1>1 DEF LoadsRead

LEMMA StepAppended ==
  ASSUME NEW acc, Compiling(acc), NEW s,
         NEW steps, steps = Append(acc.steps, s), Compiled(steps, s)
  PROVE  /\ RecipeOK(steps) /\ LayoutsDeclared(steps, acc.layouts)
         /\ Range(steps) = Range(acc.steps) \cup {s}
<1>1. IsSequence(acc.steps)
  BY DEF Compiling, RecipeOK
<1>2. /\ IsSequence(steps) /\ Len(steps) = Len(acc.steps) + 1
      /\ \A i \in 1..Len(acc.steps) : steps[i] = acc.steps[i]
      /\ steps[Len(acc.steps) + 1] = s
  BY <1>1, AppendFacts
<1>3. /\ DOMAIN steps = 1..Len(steps) /\ DOMAIN acc.steps = 1..Len(acc.steps)
      /\ Len(acc.steps) \in Nat
  BY <1>1, <1>2, SequenceFacts
<1>4. Range(steps) = Range(acc.steps) \cup {s}
  <2>1. \A i \in 1..Len(steps) : i \in 1..Len(acc.steps) \/ i = Len(acc.steps) + 1
    BY <1>2, <1>3
  <2>2. 1..Len(acc.steps) \subseteq 1..Len(steps) /\ Len(acc.steps) + 1 \in 1..Len(steps)
    BY <1>2, <1>3
  <2> QED BY <1>2, <1>3, <2>1, <2>2 DEF Range
<1>5. \A t \in Range(acc.steps) : Compiled(steps, t)
  BY <1>4, LoadsStayRead DEF Compiling, RecipeOK, Compiled
<1> QED
  BY <1>2, <1>4, <1>5, DeclaredStays DEF Compiling, RecipeOK, LayoutsDeclared

(* An address of a component of a field, by its row.                             *)
LEMMA ComponentAddress ==
  ASSUME NEW f, SoundField(f), NEW component \in Nat, component < f.width
  PROVE  /\ FieldComponent(f, component) < 4
         /\ FieldRow(f) * RowBytes + FieldComponent(f, component) * ComponentBytes
              \in f.offset..(f.offset + FieldSize(f) - 1)
<1>1. PICK o, w : o = f.offset /\ w = f.width
  OBVIOUS
<1>2. o \in Nat /\ w \in 1..4 /\ o % 4 = 0 /\ (o % 16) + w * 4 <= 16
  BY <1>1 DEF SoundField, Straddles, FieldSize, ComponentBytes, RowBytes
<1>3. PICK q, r : q = o \div 16 /\ r = o % 16
  OBVIOUS
<1>4. q \in Nat /\ r \in 0..15 /\ o = 16 * q + r
  BY <1>2, <1>3
<1>5. PICK c : c = r \div 4
  OBVIOUS
<1>6. c \in 0..3 /\ r = 4 * c
  BY <1>2, <1>4, <1>5
<1>7. FieldRow(f) = q /\ FieldComponent(f, component) = c + component
  BY <1>1, <1>3, <1>5 DEF FieldRow, FieldComponent, RowBytes, ComponentBytes
<1>8. 4 * c + w * 4 <= 16 /\ component < w
  BY <1>1, <1>2, <1>3, <1>6
<1>9. c + component < 4
  BY <1>2, <1>6, <1>8
<1>10. q * 16 + (c + component) * 4 \in o..(o + w * 4 - 1)
  BY <1>2, <1>4, <1>6, <1>8
<1> QED
  BY <1>1, <1>7, <1>9, <1>10 DEF FieldSize, RowBytes, ComponentBytes

(* What one emit becomes.                                                        *)
LEMMA ResolveFieldReads ==
  ASSUME NEW steps, NEW layouts, LayoutsDeclared(steps, layouts),
         NEW e, e.op # "cbufferLoadLegacy", e.field # <<>> => e.field[3] \in Nat
  PROVE  LoadsRead(steps, ResolveField(layouts, e))
<1> DEFINE handle == e.field[1]
           found == {f \in (IF handle \in DOMAIN layouts THEN Range(layouts[handle]) ELSE {}) :
                       f.name = e.field[2] /\ e.field[3] < f.width}
           row == e.name \o "__cbuffer_row"
<1>1. CASE e.field = <<>>
  <2>1. PICK emits : emits = <<e>>
    OBVIOUS
  <2>2. emits \in Seq({e}) /\ Len(emits) = 1 /\ emits[1] = e
    BY <2>1
  <2>3. LoadsRead(steps, emits)
    BY <2>2 DEF LoadsRead, IsSequence
  <2> QED BY <1>1, <2>1, <2>3 DEF ResolveField
<1>2. CASE e.field # <<>> /\ found = {}
  <2>1. ResolveField(layouts, e) = <<>>
    BY <1>2 DEF ResolveField
  <2>2. <<>> \in Seq({}) /\ Len(<<>>) = 0
    BY EmptySeq
  <2> QED BY <2>1, <2>2 DEF LoadsRead, IsSequence
<1>3. CASE e.field # <<>> /\ found # {}
  <2> DEFINE Loaded(f) ==
        [NoEmit EXCEPT
           !.op = "cbufferLoadLegacy", !.name = row,
           !.type = IF f.type = "F32" THEN "f32" ELSE "i32",
           !.operands = <<[index |-> 1, kind |-> "resource", cap |-> None, consts |-> <<>>,
                           type |-> None, handle |-> handle],
                          [index |-> 2, kind |-> "constant", cap |-> None,
                           consts |-> <<<<"lit", FieldRow(f)>>>>, type |-> None,
                           handle |-> None]>>]
             Extract(f) ==
        [NoEmit EXCEPT !.name = e.name, !.repl = e.repl,
           !.extract = <<row, <<"lit", FieldComponent(f, e.field[3])>>>>]
  <2>1. PICK f : f = CHOOSE g \in found : TRUE
    OBVIOUS
  <2>2. f \in found
    BY <1>3, <2>1
  <2>3. ResolveField(layouts, e) = <<Loaded(f), Extract(f)>>
    BY <1>3, <2>1 DEF ResolveField
  <2>4. PICK load, extract : load = Loaded(f) /\ extract = Extract(f)
    OBVIOUS
  <2>5. /\ load.op = "cbufferLoadLegacy"
        /\ load.operands[1].handle = handle
        /\ load.operands[2].consts = <<<<"lit", FieldRow(f)>>>>
    BY <2>4 DEF NoEmit
  <2>6. Head(load.operands[2].consts)[2] = FieldRow(f)
    BY <2>5
  <2>7. extract.op = None /\ extract.extract[2][2] = FieldComponent(f, e.field[3])
    BY <2>4 DEF NoEmit
  <2>8. /\ handle \in DOMAIN layouts /\ f \in Range(layouts[handle])
        /\ e.field[3] \in Nat /\ e.field[3] < f.width
    BY <1>3, <2>2
  <2>9. SoundField(f) /\ f \in DeclaredFields(steps, handle)
    BY <2>8 DEF LayoutsDeclared
  <2>10. ReadsField(steps, load, extract)
    <3>1. /\ FieldComponent(f, e.field[3]) < 4
          /\ FieldRow(f) * RowBytes + FieldComponent(f, e.field[3]) * ComponentBytes
               \in f.offset..(f.offset + FieldSize(f) - 1)
      BY <2>8, <2>9, ComponentAddress
    <3> QED BY <2>5, <2>6, <2>7, <2>9, <3>1 DEF ReadsField
  <2>11. PICK emits : emits = <<load, extract>>
    OBVIOUS
  <2>12. /\ emits \in Seq({load, extract}) /\ Len(emits) = 2
         /\ emits[1] = load /\ emits[2] = extract
    BY <2>11
  <2>13. LoadsRead(steps, emits)
    <3>1. extract.op # "cbufferLoadLegacy"
      BY <2>7 DEF None
    <3>2. \A k \in 1..2 : k = 1 \/ k = 2
      OBVIOUS
    <3> QED BY <2>10, <2>12, <3>1, <3>2 DEF LoadsRead, IsSequence
  <2> QED BY <2>3, <2>4, <2>11, <2>13
<1> QED
  BY <1>1, <1>2, <1>3

LEMMA LoadsConcat ==
  ASSUME NEW steps, NEW s, NEW t, LoadsRead(steps, s), LoadsRead(steps, t)
  PROVE  LoadsRead(steps, s \o t)
<1>1. /\ IsSequence(s \o t) /\ Len(s \o t) = Len(s) + Len(t)
      /\ \A i \in 1..Len(s) : (s \o t)[i] = s[i]
      /\ \A i \in 1..Len(t) : (s \o t)[Len(s) + i] = t[i]
      /\ Len(s) \in Nat /\ Len(t) \in Nat
  BY ConcatFacts, SequenceFacts DEF LoadsRead
<1>2. PICK all, n, m : all = s \o t /\ n = Len(s) /\ m = Len(t)
  OBVIOUS
<1>3. ASSUME NEW k \in 1..(n + m), all[k].op = "cbufferLoadLegacy"
      PROVE  k < n + m /\ ReadsField(steps, all[k], all[k + 1])
  <2>1. CASE k \in 1..n
    <3>1. all[k] = s[k]
      BY <1>1, <1>2, <2>1
    <3>2. k < n /\ ReadsField(steps, s[k], s[k + 1])
      BY <1>2, <1>3, <2>1, <3>1 DEF LoadsRead
    <3>3. k + 1 \in 1..n
      BY <1>1, <1>2, <3>2
    <3>4. all[k + 1] = s[k + 1]
      BY <1>1, <1>2, <3>3
    <3> QED BY <1>1, <1>2, <3>1, <3>2, <3>4
  <2>2. CASE ~(k \in 1..n)
    <3>1. PICK i : i = k - n
      OBVIOUS
    <3>2. i \in 1..m /\ k = n + i
      BY <1>1, <1>2, <2>2, <3>1
    <3>3. all[k] = t[i]
      BY <1>1, <1>2, <3>2
    <3>4. i < m /\ ReadsField(steps, t[i], t[i + 1])
      BY <1>2, <1>3, <3>2, <3>3 DEF LoadsRead
    <3>5. i + 1 \in 1..m /\ k + 1 = n + (i + 1)
      BY <1>1, <1>2, <3>2, <3>4
    <3>6. all[k + 1] = t[i + 1]
      BY <1>1, <1>2, <3>5
    <3> QED BY <1>1, <1>2, <3>2, <3>3, <3>4, <3>6
  <2> QED BY <2>1, <2>2
<1> QED
  BY <1>1, <1>2, <1>3 DEF LoadsRead

(* ResolveCBufferReferences is a fold over the emits.                            *)
IsResolving(layouts, emits, n, f) ==
  f = [i \in 0..n |-> IF i = 0 THEN <<>> ELSE f[i - 1] \o ResolveField(layouts, emits[i])]

LEMMA ResolvingExists ==
  ASSUME NEW layouts, NEW emits, NEW n \in Nat
  PROVE  \E f : IsResolving(layouts, emits, n, f)
<1> DEFINE T == {m \in Nat : \E f : IsResolving(layouts, emits, m, f)}
<1>1. 0 \in T
  <2>1. PICK f : f = [i \in 0..0 |-> <<>>]
    OBVIOUS
  <2>2. f = [i \in 0..0 |-> IF i = 0 THEN <<>> ELSE f[i - 1] \o ResolveField(layouts, emits[i])]
    BY <2>1
  <2> QED BY <2>2 DEF IsResolving
<1>2. ASSUME NEW m \in Nat, m \in T PROVE m + 1 \in T
  <2>1. PICK f : IsResolving(layouts, emits, m, f)
    BY <1>2
  <2>2. PICK last : last = f[m] \o ResolveField(layouts, emits[m + 1])
    OBVIOUS
  <2>3. PICK g : g = [i \in 0..(m + 1) |-> IF i <= m THEN f[i] ELSE last]
    OBVIOUS
  <2>4. ASSUME NEW i \in 0..(m + 1)
        PROVE  g[i] = IF i = 0 THEN <<>> ELSE g[i - 1] \o ResolveField(layouts, emits[i])
    <3>1. CASE i = 0
      BY <2>1, <2>3, <3>1 DEF IsResolving
    <3>2. CASE i \in 1..m
      <4>1. i \in 0..m /\ i - 1 \in 0..m /\ i # 0
        BY <3>2
      <4>2. f[i] = f[i - 1] \o ResolveField(layouts, emits[i])
        BY <2>1, <4>1 DEF IsResolving
      <4>3. g[i] = f[i] /\ g[i - 1] = f[i - 1]
        BY <2>3, <4>1
      <4> QED BY <4>1, <4>2, <4>3
    <3>3. CASE i = m + 1
      <4>1. g[i] = last /\ g[m] = f[m] /\ i - 1 = m /\ i # 0
        BY <2>3, <3>3
      <4> QED BY <2>2, <3>3, <4>1
    <3> QED BY <3>1, <3>2, <3>3
  <2>5. g = [i \in 0..(m + 1) |-> IF i = 0 THEN <<>> ELSE g[i - 1] \o ResolveField(layouts, emits[i])]
    BY <2>3, <2>4
  <2>6. IsResolving(layouts, emits, m + 1, g)
    BY <2>5 DEF IsResolving
  <2> QED BY <2>6
<1>3. T = Nat
  BY <1>1, <1>2, SetInduction
<1> QED BY <1>3

LEMMA ResolvingFacts ==
  ASSUME NEW layouts, NEW emits, NEW n \in Nat, NEW f, IsResolving(layouts, emits, n, f)
  PROVE  f[0] = <<>> /\ \A m \in 0..(n - 1) : f[m + 1] = f[m] \o ResolveField(layouts, emits[m + 1])
<1>1. f[0] = <<>>
  BY DEF IsResolving
<1>2. ASSUME NEW i \in 1..n PROVE f[i] = f[i - 1] \o ResolveField(layouts, emits[i])
  <2>1. i \in 0..n /\ i # 0
    OBVIOUS
  <2> QED BY <2>1 DEF IsResolving
<1>3. ASSUME NEW m \in 0..(n - 1) PROVE f[m + 1] = f[m] \o ResolveField(layouts, emits[m + 1])
  <2>1. PICK i : i = m + 1
    OBVIOUS
  <2>2. i \in 1..n /\ i - 1 = m
    BY <2>1
  <2>3. f[i] = f[i - 1] \o ResolveField(layouts, emits[i])
    BY <1>2, <2>2
  <2> QED BY <2>1, <2>2, <2>3
<1> QED BY <1>1, <1>3

LEMMA ReferencesRead ==
  ASSUME NEW steps, NEW layouts, LayoutsDeclared(steps, layouts),
         NEW emits, emits \in Seq(Range(emits)),
         \A e \in Range(emits) : e.op # "cbufferLoadLegacy" /\ (e.field # <<>> => e.field[3] \in Nat)
  PROVE  LoadsRead(steps, ResolveCBufferReferences(layouts, emits))
<1>1. PICK n \in Nat : n = Len(emits)
  OBVIOUS
<1>2. PICK f : f = CHOOSE g : IsResolving(layouts, emits, n, g)
  OBVIOUS
<1>3. IsResolving(layouts, emits, n, f)
  BY <1>2, ResolvingExists
<1>4. ResolveCBufferReferences(layouts, emits) = f[n]
  BY <1>1, <1>2 DEF ResolveCBufferReferences, IsResolving
<1> DEFINE T == {m \in Nat : m <= n => LoadsRead(steps, f[m])}
<1>5. 0 \in T
  <2>1. f[0] = <<>>
    BY <1>3, ResolvingFacts
  <2>2. <<>> \in Seq({}) /\ Len(<<>>) = 0
    BY EmptySeq
  <2>3. LoadsRead(steps, <<>>)
    BY <2>2 DEF LoadsRead, IsSequence
  <2> QED BY <2>1, <2>3
<1>6. ASSUME NEW m \in Nat, m \in T PROVE m + 1 \in T
  <2>1. SUFFICES ASSUME m + 1 <= n PROVE LoadsRead(steps, f[m + 1])
    OBVIOUS
  <2>2. f[m + 1] = f[m] \o ResolveField(layouts, emits[m + 1])
    <3>1. m + 1 \in 0..n /\ m + 1 # 0 /\ m + 1 - 1 = m
      BY <2>1
    <3>2. \A i \in 0..n : f[i] = IF i = 0 THEN <<>>
                                ELSE f[i - 1] \o ResolveField(layouts, emits[i])
      BY <1>3 DEF IsResolving
    <3>3. PICK i \in 0..n : i = m + 1
      BY <3>1
    <3>4. f[i] = f[i - 1] \o ResolveField(layouts, emits[i])
      BY <3>1, <3>2, <3>3
    <3>5. i - 1 = m
      BY <3>1, <3>3
    <3> QED BY <3>3, <3>4, <3>5
  <2>3. emits[m + 1] \in Range(emits)
    BY <1>1, <2>1 DEF Range
  <2>4. LoadsRead(steps, ResolveField(layouts, emits[m + 1]))
    BY <2>3, ResolveFieldReads
  <2> QED BY <1>6, <2>1, <2>2, <2>4, LoadsConcat
<1>7. T = Nat
  BY <1>5, <1>6, SetInduction
<1>8. n \in T
  BY <1>7
<1> QED
  BY <1>4, <1>8

LEMMA RuleCompiles ==
  ASSUME NEW acc, Compiling(acc), NEW s, s.kind = "rule", "kind" \in DOMAIN s, IsRuleStep(s),
         LoadsFromFields => \A e \in Range(s.rule.emits) : e.op # "cbufferLoadLegacy"
  PROVE  Compiling(CompileRule(acc, s))
<1>1. PICK emits : emits = ResolveCBufferReferences(acc.layouts, s.rule.emits)
  OBVIOUS
<1>2. PICK t : t = [s EXCEPT !.rule.emits = emits]
  OBVIOUS
<1>3. t.kind = "rule" /\ t.rule.emits = emits
  BY <1>2 DEF IsRuleStep
<1>4. PICK steps : steps = Append(acc.steps, t)
  OBVIOUS
<1>5. PICK ok : ok = (acc.ok /\ \A e \in Range(s.rule.emits) : ResolveField(acc.layouts, e) # <<>>)
  OBVIOUS
<1>6. CompileRule(acc, s) = [ok |-> ok, steps |-> steps, layouts |-> acc.layouts]
  <2>1. CompileRule(acc, s) = [acc EXCEPT !.ok = ok, !.steps = steps]
    BY <1>1, <1>2, <1>4, <1>5 DEF CompileRule
  <2>2. acc = [ok |-> acc.ok, steps |-> acc.steps, layouts |-> acc.layouts]
    BY DEF Compiling
  <2> QED BY <2>1, <2>2
<1>7. LoadsFromFields => LoadsRead(acc.steps, emits)
  BY <1>1, ReferencesRead DEF Compiling, IsRuleStep
<1>8. Range(acc.steps) \subseteq Range(steps)
  <2>1. IsSequence(acc.steps)
    BY DEF Compiling, RecipeOK
  <2>2. /\ Len(steps) = Len(acc.steps) + 1 /\ DOMAIN steps = 1..Len(steps)
        /\ DOMAIN acc.steps = 1..Len(acc.steps) /\ Len(acc.steps) \in Nat
        /\ \A i \in 1..Len(acc.steps) : steps[i] = acc.steps[i]
    BY <1>4, <2>1, AppendFacts, SequenceFacts
  <2>3. 1..Len(acc.steps) \subseteq 1..Len(steps)
    BY <2>2
  <2> QED BY <2>2, <2>3 DEF Range
<1>9. Compiled(steps, t)
  BY <1>3, <1>7, <1>8, LoadsStayRead DEF Compiled
<1>10. RecipeOK(steps) /\ LayoutsDeclared(steps, acc.layouts)
  BY <1>4, <1>9, StepAppended
<1> QED
  BY <1>6, <1>10 DEF Compiling

LEMMA CBufferCompiles ==
  ASSUME NEW d, d.size \in Nat, d.data \in Seq(Range(d.data)),
         \A f \in Range(d.data) : f.width \in Nat /\ f.offset \in Int
  PROVE  CompileCBuffer(d).size \in Nat /\ LaidOut(CompileCBuffer(d).fields)
<1>1. CASE d.data = <<>>
  <2>1. CompileCBuffer(d).fields = <<>> /\ CompileCBuffer(d).size = d.size
    BY <1>1 DEF CompileCBuffer
  <2>2. LaidOut(<<>>)
    BY EmptyLayout DEF LayingOut
  <2> QED BY <2>1, <2>2
<1>2. CASE d.data # <<>>
  <2>1. PICK placed : placed = PlaceFields(d.data)
    OBVIOUS
  <2>2. PICK cursor : cursor = placed.cursor
    OBVIOUS
  <2>3. PICK size : size = IF d.size # 0 THEN d.size ELSE Max({RowBytes, AlignUp(cursor, RowBytes)})
    OBVIOUS
  <2>4. /\ CompileCBuffer(d).fields = placed.fields
        /\ CompileCBuffer(d).size = size
    BY <1>2, <2>1, <2>2, <2>3 DEF CompileCBuffer, BuildCBufferLayout
  <2>5. LayingOut(placed)
    BY <2>1, FieldsLaidOut
  <2>6. cursor \in Nat
    <3>1. LaidOut(placed.fields) /\ cursor = EndOf(placed.fields, Len(placed.fields))
      BY <2>2, <2>5 DEF LayingOut
    <3>2. Len(placed.fields) \in Nat
      BY <3>1, SequenceFacts DEF LaidOut
    <3>3. Len(placed.fields) \in 0..Len(placed.fields)
      BY <3>2
    <3> QED BY <3>1, <3>3, EndIsNumber
  <2>7. PICK a : a = AlignUp(cursor, RowBytes)
    OBVIOUS
  <2>8. a \in Nat
    BY <2>6, <2>7 DEF AlignUp, RowBytes
  <2>9. Max({16, a}) \in Nat
    <3>1. PICK x \in {16, a} : \A y \in {16, a} : x >= y
      BY <2>8
    <3>2. Max({16, a}) \in {16, a}
      BY <3>1 DEF Max
    <3> QED BY <2>8, <3>2
  <2>10. size \in Nat
    BY <2>3, <2>7, <2>9 DEF RowBytes
  <2> QED BY <2>4, <2>5, <2>10 DEF LayingOut
<1> QED
  BY <1>1, <1>2

LEMMA ResourcesCompile ==
  ASSUME NEW acc, Compiling(acc), NEW s, s.kind = "resource", "kind" \in DOMAIN s,
         IsResourceStep(s)
  PROVE  Compiling(CompileResources(acc, s))
<1> DEFINE cbuffers == s.decls.CBV
<1>1. PICK n \in Nat : n = Len(cbuffers) /\ DOMAIN cbuffers = 1..n
  <2>1. cbuffers \in Seq(Range(cbuffers))
    BY ClassesAre DEF IsResourceStep
  <2> QED BY <2>1
<1>2. PICK compiled : compiled = [k \in DOMAIN cbuffers |-> CompileCBuffer(cbuffers[k])]
  OBVIOUS
<1>3. PICK written : written = [k \in DOMAIN cbuffers |->
        [handle |-> cbuffers[k].handle, lower |-> cbuffers[k].lower, space |-> cbuffers[k].space,
         type |-> compiled[k].type, size |-> compiled[k].size, fields |-> compiled[k].fields]]
  OBVIOUS
<1>4. PICK t : t = [s EXCEPT !.decls.CBV = written]
  OBVIOUS
<1>5. t.kind = "resource" /\ t.decls = [s.decls EXCEPT !.CBV = written]
  BY <1>4 DEF IsResourceStep
<1>6. "CBV" \in DOMAIN s.decls
  BY ClassesAre DEF IsResourceStep
<1>7. t.decls.CBV = written /\ DOMAIN t.decls = DOMAIN s.decls
      /\ \A c \in DOMAIN s.decls \ {"CBV"} : t.decls[c] = s.decls[c]
  BY <1>5, <1>6
<1>8. ASSUME NEW k \in 1..n
      PROVE  compiled[k].size \in Nat /\ LaidOut(compiled[k].fields)
  <2>1. cbuffers[k] \in Range(cbuffers)
    BY <1>1 DEF Range
  <2> QED BY <1>1, <1>2, <2>1, CBufferCompiles DEF IsResourceStep
<1>9. DOMAIN written = 1..n /\ written = [k \in 1..n |-> written[k]]
      /\ \A k \in 1..n : /\ written[k].handle = cbuffers[k].handle
                         /\ written[k].size = compiled[k].size
                         /\ written[k].fields = compiled[k].fields
  BY <1>1, <1>3
<1>10. IsSequence(written)
  BY <1>9, ConstructedSequence
<1>11. PICK steps : steps = Append(acc.steps, t)
  OBVIOUS
<1>12. Compiled(steps, t)
  <2>1. \A c \in DOMAIN t.decls : IsSequence(t.decls[c])
    BY <1>7, <1>10 DEF IsResourceStep, IsSequence
  <2>2. \A d \in Range(written) : d.size \in Nat /\ LaidOut(d.fields)
    BY <1>8, <1>9 DEF Range
  <2>3. DOMAIN t.decls = Range(Classes) \cup Range(Signatures)
    BY <1>7 DEF IsResourceStep
  <2> QED BY <1>5, <1>7, <2>1, <2>2, <2>3 DEF Compiled
<1>13. /\ RecipeOK(steps) /\ LayoutsDeclared(steps, acc.layouts)
       /\ Range(steps) = Range(acc.steps) \cup {t}
  BY <1>11, <1>12, StepAppended
<1>14. PICK layouts : layouts = LayoutsBehind(acc.layouts, cbuffers, compiled)
  OBVIOUS
<1>15. PICK ok : ok = (acc.ok /\ \A k \in DOMAIN compiled : compiled[k].ok)
  OBVIOUS
<1>16. CompileResources(acc, s) = [ok |-> ok, layouts |-> layouts, steps |-> steps]
  BY <1>2, <1>3, <1>4, <1>11, <1>14, <1>15 DEF CompileResources
<1>17. ASSUME NEW h \in DOMAIN layouts, NEW f \in Range(layouts[h])
       PROVE  SoundField(f) /\ f \in DeclaredFields(steps, h)
  <2> DEFINE of == {k \in DOMAIN cbuffers : cbuffers[k].handle = h}
             declared == {d.handle : d \in Range(cbuffers)}
             last(g) == Max({k \in DOMAIN cbuffers : cbuffers[k].handle = g})
             with == {g \in declared : cbuffers[last(g)].data # <<>>}
  <2>1. layouts = [g \in (DOMAIN acc.layouts \ declared) \cup with |->
                     IF g \in with THEN compiled[last(g)].fields ELSE acc.layouts[g]]
    BY <1>14 DEF LayoutsBehind
  <2>2. CASE h \in with
    <3>1. layouts[h] = compiled[last(h)].fields
      BY <2>1, <2>2
    <3>2. PICK d \in Range(cbuffers) : d.handle = h
      BY <2>2
    <3>3. of # {} /\ of \in SUBSET (0..n)
      BY <1>1, <3>2 DEF Range
    <3>4. PICK k : k = last(h)
      OBVIOUS
    <3>5. k \in of
      BY <3>3, <3>4, MaxOf
    <3>6. k \in 1..n /\ cbuffers[k].handle = h
      BY <1>1, <3>5
    <3>7. f \in Range(compiled[k].fields) /\ LaidOut(compiled[k].fields)
      BY <1>8, <3>1, <3>4, <3>6
    <3>8. SoundField(f)
      BY <3>7 DEF LaidOut, SoundField, Range
    <3>9. written[k] \in Range(written) /\ written[k].handle = h /\ f \in Range(written[k].fields)
      BY <1>9, <3>6, <3>7 DEF Range
    <3>10. t \in Range(steps)
      BY <1>13
    <3>11. PICK decl : decl = written[k]
      OBVIOUS
    <3>12. decl \in {c \in Range(t.decls.CBV) : c.handle = h} /\ f \in Range(decl.fields)
      BY <1>7, <3>9, <3>11
    <3>13. t \in {u \in Range(steps) : u.kind = "resource"}
      BY <1>5, <3>10
    <3>14. f \in DeclaredFields(steps, h)
      BY <3>12, <3>13 DEF DeclaredFields
    <3> QED BY <3>8, <3>14
  <2>3. CASE h \notin with
    <3>1. h \in DOMAIN acc.layouts /\ layouts[h] = acc.layouts[h]
      BY <2>1, <2>3
    <3> QED BY <1>13, <3>1 DEF LayoutsDeclared
  <2> QED BY <2>2, <2>3
<1>18. LayoutsDeclared(steps, layouts)
  BY <1>17 DEF LayoutsDeclared
<1> QED
  BY <1>13, <1>16, <1>18 DEF Compiling

LEMMA StepCompiles ==
  ASSUME NEW acc, Compiling(acc), NEW s, "kind" \in DOMAIN s,
         s.kind = "rule" => IsRuleStep(s), s.kind = "resource" => IsResourceStep(s),
         s.kind = "rule" /\ LoadsFromFields =>
           \A e \in Range(s.rule.emits) : e.op # "cbufferLoadLegacy"
  PROVE  Compiling(CompileStep(acc, s))
<1>1. CASE s.kind = "rule"
  BY <1>1, RuleCompiles DEF CompileStep
<1>2. CASE s.kind = "resource"
  BY <1>2, ResourcesCompile DEF CompileStep
<1>3. CASE s.kind # "rule" /\ s.kind # "resource"
  <2>1. PICK steps : steps = Append(acc.steps, s)
    OBVIOUS
  <2>2. Compiled(steps, s)
    BY <1>3 DEF Compiled
  <2>3. RecipeOK(steps) /\ LayoutsDeclared(steps, acc.layouts)
    BY <2>1, <2>2, StepAppended
  <2>4. CompileStep(acc, s) = [acc EXCEPT !.steps = steps]
    BY <1>3, <2>1 DEF CompileStep
  <2>5. CompileStep(acc, s) = [ok |-> acc.ok, steps |-> steps, layouts |-> acc.layouts]
    BY <2>4 DEF Compiling
  <2> QED BY <2>3, <2>5 DEF Compiling
<1> QED
  BY <1>1, <1>2, <1>3

(* ConvertRecipeData is a fold over the steps.                                   *)
IsConverting(data, n, f) ==
  f = [i \in 0..n |-> IF i = 0 THEN [ok |-> TRUE, steps |-> <<>>, layouts |-> <<>>] ELSE CompileStep(f[i - 1], data[i])]

LEMMA ConvertingExists ==
  ASSUME NEW data, NEW n \in Nat
  PROVE  \E f : IsConverting(data, n, f)
<1> DEFINE T == {m \in Nat : \E f : IsConverting(data, m, f)}
<1>1. 0 \in T
  <2>1. PICK f : f = [i \in 0..0 |-> [ok |-> TRUE, steps |-> <<>>, layouts |-> <<>>]]
    OBVIOUS
  <2>2. f = [i \in 0..0 |-> IF i = 0 THEN [ok |-> TRUE, steps |-> <<>>, layouts |-> <<>>] ELSE CompileStep(f[i - 1], data[i])]
    BY <2>1
  <2> QED BY <2>2 DEF IsConverting
<1>2. ASSUME NEW m \in Nat, m \in T PROVE m + 1 \in T
  <2>1. PICK f : IsConverting(data, m, f)
    BY <1>2
  <2>2. PICK last : last = CompileStep(f[m], data[m + 1])
    OBVIOUS
  <2>3. PICK g : g = [i \in 0..(m + 1) |-> IF i <= m THEN f[i] ELSE last]
    OBVIOUS
  <2>4. ASSUME NEW i \in 0..(m + 1)
        PROVE  g[i] = IF i = 0 THEN [ok |-> TRUE, steps |-> <<>>, layouts |-> <<>>] ELSE CompileStep(g[i - 1], data[i])
    <3>1. CASE i = 0
      BY <2>1, <2>3, <3>1 DEF IsConverting
    <3>2. CASE i \in 1..m
      <4>1. i \in 0..m /\ i - 1 \in 0..m /\ i # 0
        BY <3>2
      <4>2. f[i] = CompileStep(f[i - 1], data[i])
        BY <2>1, <4>1 DEF IsConverting
      <4>3. g[i] = f[i] /\ g[i - 1] = f[i - 1]
        BY <2>3, <4>1
      <4> QED BY <4>1, <4>2, <4>3
    <3>3. CASE i = m + 1
      <4>1. g[i] = last /\ g[m] = f[m] /\ i - 1 = m /\ i # 0
        BY <2>3, <3>3
      <4> QED BY <2>2, <3>3, <4>1
    <3> QED BY <3>1, <3>2, <3>3
  <2>5. g = [i \in 0..(m + 1) |-> IF i = 0 THEN [ok |-> TRUE, steps |-> <<>>, layouts |-> <<>>] ELSE CompileStep(g[i - 1], data[i])]
    BY <2>3, <2>4
  <2>6. IsConverting(data, m + 1, g)
    BY <2>5 DEF IsConverting
  <2> QED BY <2>6
<1>3. T = Nat
  BY <1>1, <1>2, SetInduction
<1> QED BY <1>3

LEMMA ConvertingFacts ==
  ASSUME NEW data, NEW n \in Nat, NEW f, IsConverting(data, n, f)
  PROVE  f[0] = [ok |-> TRUE, steps |-> <<>>, layouts |-> <<>>] /\ \A m \in 0..(n - 1) : f[m + 1] = CompileStep(f[m], data[m + 1])
<1>1. f[0] = [ok |-> TRUE, steps |-> <<>>, layouts |-> <<>>]
  BY DEF IsConverting
<1>2. ASSUME NEW i \in 1..n PROVE f[i] = CompileStep(f[i - 1], data[i])
  <2>1. i \in 0..n /\ i # 0
    OBVIOUS
  <2> QED BY <2>1 DEF IsConverting
<1>3. ASSUME NEW m \in 0..(n - 1) PROVE f[m + 1] = CompileStep(f[m], data[m + 1])
  <2>1. PICK i : i = m + 1
    OBVIOUS
  <2>2. i \in 1..n /\ i - 1 = m
    BY <2>1
  <2>3. f[i] = CompileStep(f[i - 1], data[i])
    BY <1>2, <2>2
  <2> QED BY <2>1, <2>2, <2>3
<1> QED BY <1>1, <1>3

LEMMA RecipeConverts ==
  ASSUME NEW data \in Recipes
  PROVE  RecipeOK(ConvertRecipeData(data).steps)
<1>1. /\ data \in Seq(Range(data))
      /\ \A s \in Range(data) : /\ "kind" \in DOMAIN s
                                /\ s.kind = "rule" => IsRuleStep(s)
                                /\ s.kind = "resource" => IsResourceStep(s)
  BY RecipesAssumption
<1>2. PICK n \in Nat : n = Len(data)
  BY <1>1
<1>3. PICK f : f = CHOOSE g : IsConverting(data, n, g)
  OBVIOUS
<1>4. IsConverting(data, n, f)
  BY <1>3, ConvertingExists
<1>5. ConvertRecipeData(data) = f[n]
  BY <1>2, <1>3 DEF ConvertRecipeData, IsConverting
<1> DEFINE T == {m \in Nat : m <= n => Compiling(f[m])}
<1>6. 0 \in T
  <2>1. f[0] = [ok |-> TRUE, steps |-> <<>>, layouts |-> <<>>]
    BY <1>4, ConvertingFacts
  <2>2. IsSequence(<<>>) /\ DOMAIN <<>> = {}
    BY EmptySeq DEF IsSequence
  <2>3. RecipeOK(<<>>) /\ LayoutsDeclared(<<>>, <<>>)
    BY <2>2 DEF RecipeOK, LayoutsDeclared, Range
  <2> QED BY <2>1, <2>3 DEF Compiling
<1>7. ASSUME NEW m \in Nat, m \in T PROVE m + 1 \in T
  <2>1. SUFFICES ASSUME m + 1 <= n PROVE Compiling(f[m + 1])
    OBVIOUS
  <2>2. f[m + 1] = CompileStep(f[m], data[m + 1])
    BY <1>4, <2>1, ConvertingFacts
  <2>3. data[m + 1] \in Range(data)
    BY <1>1, <1>2, <2>1 DEF Range
  <2>4. data[m + 1].kind = "rule" /\ LoadsFromFields =>
          \A e \in Range(data[m + 1].rule.emits) : e.op # "cbufferLoadLegacy"
    BY <2>3 DEF LoadsFromFields
  <2>5. Compiling(f[m])
    BY <1>7, <2>1
  <2> QED BY <1>1, <2>2, <2>3, <2>4, <2>5, StepCompiles
<1>8. T = Nat
  BY <1>6, <1>7, SetInduction
<1>9. n \in T
  BY <1>8
<1> QED
  BY <1>5, <1>9 DEF Compiling

--------------------------------------------------------------------------------
(* The program: what add_resource appends lies where nothing else begins, and a  *)
(* cbuffer it appends is tiled.                                                  *)

ResourcesOK(rs) ==
  /\ DOMAIN rs = Range(Classes)
  /\ \A c \in Range(Classes) : IsSequence(rs[c]) /\ Apart(rs[c])

LayoutOf(r) == CBufferType(r.fields, r.size)

(* The types, of which those in `before' were there: every layout would tile its  *)
(* cbuffer, the type that no other layout shares is that layout, and a type that  *)
(* is no cbuffer's is as it was.                                                  *)
TypesOK(before, cbuffers, types) ==
  /\ \A n \in DOMAIN before : IsSequence(before[n])
  /\ \A r \in Range(cbuffers) : r.type # None =>
       /\ Tiles(r, LayoutOf(r)) /\ r.type \in DOMAIN types
       /\ OwnType(before, cbuffers, r) => types[r.type] = LayoutOf(r)
  /\ \A n \in DOMAIN types :
       \/ n # None /\ \E r \in Range(cbuffers) : r.type = n
       \/ n = None
       \/ n \in DOMAIN before /\ types[n] = before[n]

ProgramOK(before, p) ==
  /\ p = [prog |-> p.prog, resources |-> p.resources, types |-> p.types,
          signature |-> p.signature, injected |-> p.injected]
  /\ ResourcesOK(p.resources)
  /\ TypesOK(before, p.resources["CBV"], p.types)

Adding(acc) ==
  /\ acc = [program |-> acc.program, context |-> acc.context, ok |-> acc.ok,
            undefined |-> acc.undefined]
  /\ ProgramOK(input.types, acc.program)

DeclOK(class, d) == class = "CBV" => d.size \in Nat /\ LaidOut(d.fields)

(* A resource that begins where none does stays apart from all.                  *)
LEMMA AppendedApart ==
  ASSUME NEW resources, IsSequence(resources), Apart(resources),
         NEW r, r.lower \notin Bound(resources, r.space)
  PROVE  IsSequence(Append(resources, r)) /\ Apart(Append(resources, r))
<1>1. PICK n, added : n = Len(resources) /\ added = Append(resources, r)
  OBVIOUS
<1>2. /\ IsSequence(added) /\ Len(added) = n + 1 /\ n \in Nat
      /\ \A i \in 1..n : added[i] = resources[i]
      /\ added[n + 1] = r
  BY <1>1, AppendFacts, SequenceFacts
<1>3. DOMAIN added = 1..(n + 1) /\ DOMAIN resources = 1..n
  BY <1>1, <1>2, SequenceFacts
<1>4. \A i \in 1..n : resources[i].space = r.space => resources[i].lower # r.lower
  BY <1>3 DEF Bound, Range
<1>5. ASSUME NEW j \in 1..(n + 1), NEW k \in 1..(n + 1),
             added[j].lower = added[k].lower, added[j].space = added[k].space
      PROVE  j = k
  <2>1. CASE j \in 1..n /\ k \in 1..n
    BY <1>2, <1>3, <1>5, <2>1 DEF Apart
  <2>2. CASE j = n + 1 /\ k \in 1..n
    BY <1>2, <1>4, <1>5, <2>2
  <2>3. CASE j \in 1..n /\ k = n + 1
    BY <1>2, <1>4, <1>5, <2>3
  <2>4. CASE j = n + 1 /\ k = n + 1
    BY <2>4
  <2> QED BY <1>2, <2>1, <2>2, <2>3, <2>4
<1> QED
  BY <1>1, <1>2, <1>3, <1>5 DEF Apart

(* The layout of a cbuffer that add_resource does not refuse.                     *)
LEMMA NewTiles ==
  ASSUME NEW space, NEW lower, NEW d, NEW resources, DeclOK("CBV", d),
         ~Refuses(resources, "CBV", space, lower, d),
         NEW r, r.fields = d.fields, r.size = d.size
  PROVE  /\ Tiles(r, LayoutOf(r)) /\ AnnotatedElements(LayoutOf(r))
         /\ r.fields = <<>> => Len(LayoutOf(r)) = 1
<1>1. CASE d.fields = <<>>
  <2>1. LayoutOf(r) = AnnotateArray(r.size)
    BY <1>1 DEF LayoutOf, CBufferType
  <2> QED BY <1>1, <2>1, ArrayTiles DEF DeclOK
<1>2. CASE d.fields # <<>>
  <2>1. ValidateCBufferSchema(d.fields, d.size)
    BY <1>2 DEF Refuses
  <2>2. PICK n : n = Len(d.fields)
    OBVIOUS
  <2>3. n \in Nat /\ DOMAIN d.fields = 1..n
    BY <2>2, SequenceFacts DEF DeclOK, LaidOut
  <2>4. n # 0
    <3>1. IsSequence(d.fields)
      BY DEF DeclOK, LaidOut
    <3> QED BY <1>2, <2>2, <3>1, EmptySeq DEF IsSequence
  <2>5. d.fields[n].offset + FieldSize(d.fields[n]) <= d.size
    BY <2>1, <2>3, <2>4 DEF ValidateCBufferSchema
  <2>6. EndOf(d.fields, n) <= d.size
    BY <2>4, <2>5 DEF EndOf
  <2>7. LayoutOf(r) = AnnotateCBufferType(r.fields, r.size)
    BY <1>2 DEF LayoutOf, CBufferType
  <2> QED BY <1>2, <2>2, <2>6, <2>7, AnnotatedTiles DEF DeclOK
<1> QED
  BY <1>1, <1>2

(* One more cbuffer, whose type is made or, when it is there, annotated again.     *)
LEMMA NewTypeKeeps ==
  ASSUME NEW before, NEW cbuffers, NEW types, TypesOK(before, cbuffers, types),
         NEW r, Tiles(r, LayoutOf(r)), AnnotatedElements(LayoutOf(r)),
         r.fields = <<>> => Len(LayoutOf(r)) = 1,
         NEW more, Range(more) = Range(cbuffers) \cup {r}
  PROVE  TypesOK(before, more, TypesWith(types, r))
<1>1. PICK after : after = TypesWith(types, r)
  OBVIOUS
<1>2. /\ DOMAIN after = DOMAIN types \cup {r.type}
      /\ \A n \in DOMAIN types \ {r.type} : after[n] = types[n]
      /\ after[r.type] = IF r.type \in DOMAIN types THEN Annotate(types[r.type], r.fields, r.size)
                         ELSE LayoutOf(r)
  BY <1>1 DEF TypesWith, LayoutOf
<1>3. \A n \in DOMAIN before : IsSequence(before[n])
  BY DEF TypesOK
<1>4. \A q \in Range(cbuffers) : OwnType(before, more, q) => OwnType(before, cbuffers, q)
  BY DEF OwnType
<1>5. ASSUME r.type # None, r.type \in DOMAIN types, OwnType(before, more, r)
      PROVE  IsSequence(types[r.type]) /\ BodyOf(types[r.type]) = BodyOf(LayoutOf(r))
  <2>1. CASE \E p \in Range(cbuffers) : p.type = r.type
    <3>1. PICK p \in Range(cbuffers) : p.type = r.type
      BY <2>1
    <3>2. p \in Range(more) /\ p.fields = r.fields /\ p.size = r.size
      BY <1>5, <3>1 DEF OwnType
    <3>3. LayoutOf(p) = LayoutOf(r)
      BY <3>2 DEF LayoutOf
    <3>4. OwnType(before, more, p)
      BY <1>5, <3>1, <3>2 DEF OwnType
    <3>5. types[p.type] = LayoutOf(p)
      BY <1>4, <1>5, <3>1, <3>4 DEF TypesOK
    <3> QED BY <3>1, <3>3, <3>5 DEF AnnotatedElements
  <2>2. CASE r.type \in DOMAIN before /\ types[r.type] = before[r.type]
    BY <1>3, <1>5, <2>2 DEF OwnType, LayoutOf
  <2> QED BY <1>5, <2>1, <2>2 DEF TypesOK
<1>6. ASSUME r.type # None, OwnType(before, more, r)
      PROVE  after[r.type] = LayoutOf(r)
  <2>1. CASE r.type \notin DOMAIN types
    BY <1>2, <2>1
  <2>2. CASE r.type \in DOMAIN types
    <3>1. PICK type : type = types[r.type]
      OBVIOUS
    <3>2. IsSequence(type) /\ BodyOf(type) = BodyOf(LayoutOf(r))
      BY <1>5, <1>6, <2>2, <3>1
    <3>3. Annotate(type, r.fields, r.size) = LayoutOf(r)
      <4>1. PICK fields, size, layout : /\ fields = r.fields /\ size = r.size
                                        /\ layout = LayoutOf(r)
        OBVIOUS
      <4>2. layout = CBufferType(fields, size)
        BY <4>1 DEF LayoutOf
      <4>3. Annotate(type, fields, size) = layout
        BY <3>2, <4>1, <4>2, SameBodyAnnotated
      <4> QED BY <4>1, <4>3
    <3> QED BY <1>2, <2>2, <3>1, <3>3
  <2> QED BY <2>1, <2>2
<1>7. ASSUME NEW q \in Range(more), q.type # None
      PROVE  /\ Tiles(q, LayoutOf(q)) /\ q.type \in DOMAIN after
             /\ OwnType(before, more, q) => after[q.type] = LayoutOf(q)
  <2>1. CASE q = r
    BY <1>2, <1>6, <1>7, <2>1
  <2>2. CASE q \in Range(cbuffers) /\ q.type # r.type
    BY <1>2, <1>4, <1>7, <2>2 DEF TypesOK
  <2>3. CASE q \in Range(cbuffers) /\ q.type = r.type
    <3>1. Tiles(q, LayoutOf(q)) /\ q.type \in DOMAIN after
      BY <1>2, <1>7, <2>3 DEF TypesOK
    <3>2. ASSUME OwnType(before, more, q) PROVE after[q.type] = LayoutOf(q)
      <4>1. q.fields = r.fields /\ q.size = r.size
        BY <2>3, <3>2 DEF OwnType
      <4>2. OwnType(before, more, r) /\ LayoutOf(q) = LayoutOf(r)
        BY <2>3, <3>2, <4>1 DEF OwnType, LayoutOf
      <4> QED BY <1>6, <1>7, <2>3, <4>2
    <3> QED BY <3>1, <3>2
  <2> QED BY <1>7, <2>1, <2>2, <2>3
<1>8. ASSUME NEW n \in DOMAIN after
      PROVE  \/ n # None /\ \E q \in Range(more) : q.type = n
             \/ n = None
             \/ n \in DOMAIN before /\ after[n] = before[n]
  BY <1>2, <1>8 DEF TypesOK
<1> QED
  BY <1>1, <1>3, <1>7, <1>8 DEF TypesOK

LEMMA ProgramUpdated ==
  ASSUME NEW before, NEW after, NEW prog, NEW rs, NEW types,
         before = [prog |-> before.prog, resources |-> before.resources,
                   types |-> before.types,
                   signature |-> before.signature, injected |-> before.injected],
         after = [before EXCEPT !.resources = rs, !.types = types, !.prog = prog]
  PROVE  after = [prog |-> prog, resources |-> rs, types |-> types,
                  signature |-> before.signature, injected |-> before.injected]
<1>1. PICK a, b, t, c, e :
        before = [prog |-> a, resources |-> b, types |-> t, signature |-> c, injected |-> e]
  OBVIOUS
<1>2. before.signature = c /\ before.injected = e
  BY <1>1
<1>3. DOMAIN after = {"prog", "resources", "types", "signature", "injected"}
  BY <1>1
<1>4. /\ after.prog = prog /\ after.resources = rs /\ after.types = types
      /\ after.signature = c /\ after.injected = e
  BY <1>1
<1>5. after = [i \in DOMAIN after |-> after[i]]
  OBVIOUS
<1> QED
  BY <1>2, <1>3, <1>4, <1>5

LEMMA AddResourceKeeps ==
  ASSUME NEW acc, Adding(acc), NEW class \in Range(Classes), NEW space, NEW d,
         DeclOK(class, d)
  PROVE  Adding(AddResource(acc, class, space, d))
<1> DEFINE rs == acc.program.resources
           resources == rs[class]
           lower == IF d.lower # Unset THEN d.lower ELSE FindNextAvailable(resources, space)
           r == NewResource(GlobalNames(acc.program), class, space, lower, d)
           types == IF class = "CBV" THEN TypesWith(acc.program.types, r) ELSE acc.program.types
           added == Append(resources, r)
           k == FindResourceByRegisterIndex(added, space, lower)
           p == CreateResourceHandle(acc.program.prog, class, k, added[k],
                                     Head(acc.program.prog.order[Entry]),
                                     FirstInsertionPt(acc.program.prog))
           beyond == /\ class = "CBV" /\ r.type \in DOMAIN acc.program.types
                     /\ AnnotatesBeyond(acc.program.types[r.type], r.fields, r.size)
<1>1. CASE Refuses(resources, class, space, lower, d)
  <2>1. PICK ok : ok = (acc.ok /\ ~Step.required)
    OBVIOUS
  <2>2. AddResource(acc, class, space, d) = [acc EXCEPT !.ok = ok]
    BY <1>1, <2>1 DEF AddResource
  <2> QED BY <2>2 DEF Adding
<1>2. CASE ~Refuses(resources, class, space, lower, d) /\ beyond
  <2>1. AddResource(acc, class, space, d) = [acc EXCEPT !.ok = FALSE, !.undefined = TRUE]
    BY <1>2 DEF AddResource
  <2> QED BY <2>1 DEF Adding
<1>3. CASE ~Refuses(resources, class, space, lower, d) /\ ~beyond
  <2>1. PICK handles, declared, bindings :
          /\ handles = (d.handle :> Inst(Len(p.code))) @@ acc.context.handles
          /\ declared = (d.handle :> <<class, k>>) @@ acc.context.declared
          /\ bindings = (d.handle :> [class |-> class, lower |-> lower, space |-> space])
                          @@ acc.context.bindings
    OBVIOUS
  <2>18. AddResource(acc, class, space, d) =
           [acc EXCEPT !.program.resources[class] = added, !.program.types = types,
                       !.program.prog = p,
                       !.context.handles = handles, !.context.declared = declared,
                       !.context.bindings = bindings]
    BY <1>3, <2>1 DEF AddResource
  <2>2. lower \notin Bound(resources, space)
    BY <1>3 DEF Refuses, HasRegisterIndexConflict
  <2>3. r.lower = lower /\ r.space = space
    BY DEF NewResource
  <2>4. IsSequence(resources) /\ Apart(resources) /\ DOMAIN rs = Range(Classes)
    BY DEF Adding, ProgramOK, ResourcesOK
  <2>5. ASSUME class = "CBV"
        PROVE  /\ Tiles(r, LayoutOf(r)) /\ AnnotatedElements(LayoutOf(r))
               /\ r.fields = <<>> => Len(LayoutOf(r)) = 1
    <3>1. r.fields = d.fields /\ r.size = d.size
      BY <2>5 DEF NewResource
    <3> HIDE DEF r, resources, lower
    <3> QED BY <1>3, <2>5, <3>1, NewTiles
  <2>19. class # "CBV" => types = acc.program.types
    OBVIOUS
  <2>20. class = "CBV" => types = TypesWith(acc.program.types, r)
    OBVIOUS
  <2> HIDE DEF lower, r, k, p, beyond, types
  <2>6. IsSequence(added) /\ Apart(added)
    BY <2>2, <2>3, <2>4, AppendedApart
  <2>7. Range(added) = Range(resources) \cup {r}
    <3>1. PICK n : n = Len(resources)
      OBVIOUS
    <3>2. /\ Len(added) = n + 1 /\ n \in Nat
          /\ \A i \in 1..n : added[i] = resources[i]
          /\ added[n + 1] = r
      BY <2>4, <3>1, AppendFacts, SequenceFacts
    <3>3. DOMAIN added = 1..(n + 1) /\ DOMAIN resources = 1..n
      BY <2>4, <2>6, <3>1, <3>2, SequenceFacts
    <3>4. \A i \in 1..(n + 1) : i \in 1..n \/ i = n + 1
      BY <3>2
    <3>5. 1..n \subseteq 1..(n + 1) /\ n + 1 \in 1..(n + 1)
      BY <3>2
    <3> HIDE DEF added, resources
    <3> QED BY <3>2, <3>3, <3>4, <3>5 DEF Range
  <2> HIDE DEF added
  <2>8. PICK after : after = [rs EXCEPT ![class] = added]
    OBVIOUS
  <2>9. /\ DOMAIN after = Range(Classes) /\ after[class] = added
        /\ \A c \in Range(Classes) \ {class} : after[c] = rs[c]
    BY <2>4, <2>8
  <2>10. ResourcesOK(after) /\ TypesOK(input.types, after["CBV"], types)
    <3>1. \A c \in Range(Classes) : IsSequence(after[c]) /\ Apart(after[c])
      BY <2>6, <2>9 DEF Adding, ProgramOK, ResourcesOK
    <3>2. TypesOK(input.types, rs["CBV"], acc.program.types)
      BY DEF Adding, ProgramOK
    <3>3. CASE class = "CBV"
      <4>1. Range(after["CBV"]) = Range(rs["CBV"]) \cup {r}
        BY <2>7, <2>9, <3>3
      <4>2. TypesOK(input.types, after["CBV"], TypesWith(acc.program.types, r))
        <5>1. PICK cbuffers, more, old : /\ cbuffers = rs["CBV"] /\ more = after["CBV"]
                                         /\ old = acc.program.types
          OBVIOUS
        <5>2. TypesOK(input.types, more, TypesWith(old, r))
          BY <2>5, <3>2, <3>3, <4>1, <5>1, NewTypeKeeps
        <5> QED BY <5>1, <5>2
      <4> QED BY <2>9, <2>20, <3>1, <3>3, <4>2 DEF ResourcesOK
    <3>4. CASE class # "CBV"
      <4>1. after["CBV"] = rs["CBV"]
        BY <2>9, <3>4, ClassesAre
      <4> QED BY <2>9, <2>19, <3>1, <3>2, <3>4, <4>1 DEF ResourcesOK
    <3> QED BY <3>3, <3>4
  <2>11. acc.program = [prog |-> acc.program.prog, resources |-> rs,
                        types |-> acc.program.types,
                        signature |-> acc.program.signature, injected |-> acc.program.injected]
    BY DEF Adding, ProgramOK
  <2>12. PICK program2 : program2 = [prog |-> p, resources |-> after, types |-> types,
                                     signature |-> acc.program.signature,
                                     injected |-> acc.program.injected]
    OBVIOUS
  <2>13. [acc.program EXCEPT !.resources[class] = added, !.types = types, !.prog = p] = program2
    <3>1. PICK before : before = acc.program
      OBVIOUS
    <3>2. [before EXCEPT !.resources[class] = added, !.types = types, !.prog = p]
            = [before EXCEPT !.resources = after, !.types = types, !.prog = p]
      BY <2>8, <3>1
    <3>3. before = [prog |-> before.prog, resources |-> before.resources,
                    types |-> before.types,
                    signature |-> before.signature, injected |-> before.injected]
      BY <2>11, <3>1
    <3>4. PICK prog, ts : prog = p /\ ts = types
      OBVIOUS
    <3>5. PICK updated : updated = [before EXCEPT !.resources = after, !.types = ts, !.prog = prog]
      OBVIOUS
    <3> HIDE DEF rs
    <3>6. updated = [prog |-> prog, resources |-> after, types |-> ts,
                     signature |-> before.signature, injected |-> before.injected]
      BY <3>3, <3>5, ProgramUpdated
    <3>7. updated = program2
      BY <2>12, <3>1, <3>4, <3>6
    <3> QED BY <3>1, <3>2, <3>4, <3>5, <3>7
  <2>14. ProgramOK(input.types, program2)
    BY <2>10, <2>12 DEF ProgramOK
  <2>15. PICK ctx : ctx = [acc.context EXCEPT !.handles = handles, !.declared = declared,
                                              !.bindings = bindings]
    OBVIOUS
  <2>16. acc = [program |-> acc.program, context |-> acc.context, ok |-> acc.ok,
                undefined |-> acc.undefined]
    BY DEF Adding
  <2>17. AddResource(acc, class, space, d) =
           [program |-> program2, context |-> ctx, ok |-> acc.ok, undefined |-> acc.undefined]
    BY <2>13, <2>15, <2>16, <2>18
  <2> QED BY <2>14, <2>17 DEF Adding
<1> QED
  BY <1>1, <1>2, <1>3

LEMMA AddElementKeeps ==
  ASSUME NEW acc, Adding(acc), NEW class, NEW d
  PROVE  Adding(AddElement(acc, class, d))
<1> DEFINE lower == IF d.lower # Unset THEN d.lower
                    ELSE FindNextAvailableElement(acc.program.signature[class])
<1>1. PICK bindings : bindings = (d.handle :> [class |-> class, lower |-> lower, space |-> 0])
                                   @@ acc.context.bindings
  OBVIOUS
<1>2. PICK elements : elements = Append(acc.program.signature[class], FALSE)
  OBVIOUS
<1>3. AddElement(acc, class, d) = [acc EXCEPT !.program.signature[class] = elements,
                                              !.context.bindings = bindings]
  BY <1>1, <1>2 DEF AddElement
<1>4. PICK program2 : program2 = [prog |-> acc.program.prog, resources |-> acc.program.resources,
                                  types |-> acc.program.types,
                                  signature |-> [acc.program.signature EXCEPT ![class] = elements],
                                  injected |-> acc.program.injected]
  OBVIOUS
<1>5. [acc.program EXCEPT !.signature[class] = elements] = program2
  BY <1>4 DEF Adding, ProgramOK
<1>6. PICK ctx : ctx = [acc.context EXCEPT !.bindings = bindings]
  OBVIOUS
<1>7. AddElement(acc, class, d) =
       [program |-> program2, context |-> ctx, ok |-> acc.ok, undefined |-> acc.undefined]
  BY <1>3, <1>5, <1>6 DEF Adding
<1>8. ProgramOK(input.types, program2)
  BY <1>4 DEF Adding, ProgramOK
<1> QED
  BY <1>7, <1>8 DEF Adding

(* AddResources is a fold over the declarations of a class.                         *)
IsAddingResources(acc, class, space, decls, n, f) ==
  f = [i \in 0..n |-> IF i = 0 THEN acc ELSE IF f[i - 1].ok THEN AddResource(f[i - 1], class, space, decls[i]) ELSE f[i - 1]]

LEMMA ResourcesExists ==
  ASSUME NEW acc, NEW class, NEW space, NEW decls, NEW n \in Nat
  PROVE  \E f : IsAddingResources(acc, class, space, decls, n, f)
<1> DEFINE T == {m \in Nat : \E f : IsAddingResources(acc, class, space, decls, m, f)}
<1>1. 0 \in T
  <2>1. PICK f : f = [i \in 0..0 |-> acc]
    OBVIOUS
  <2>2. f = [i \in 0..0 |-> IF i = 0 THEN acc ELSE IF f[i - 1].ok THEN AddResource(f[i - 1], class, space, decls[i]) ELSE f[i - 1]]
    BY <2>1
  <2> QED BY <2>2 DEF IsAddingResources
<1>2. ASSUME NEW m \in Nat, m \in T PROVE m + 1 \in T
  <2>1. PICK f : IsAddingResources(acc, class, space, decls, m, f)
    BY <1>2
  <2>2. PICK last : last = IF f[m].ok THEN AddResource(f[m], class, space, decls[m + 1]) ELSE f[m]
    OBVIOUS
  <2>3. PICK g : g = [i \in 0..(m + 1) |-> IF i <= m THEN f[i] ELSE last]
    OBVIOUS
  <2>4. ASSUME NEW i \in 0..(m + 1)
        PROVE  g[i] = IF i = 0 THEN acc ELSE IF g[i - 1].ok THEN AddResource(g[i - 1], class, space, decls[i]) ELSE g[i - 1]
    <3>1. CASE i = 0
      BY <2>1, <2>3, <3>1 DEF IsAddingResources
    <3>2. CASE i \in 1..m
      <4>1. i \in 0..m /\ i - 1 \in 0..m /\ i # 0
        BY <3>2
      <4>2. f[i] = IF f[i - 1].ok THEN AddResource(f[i - 1], class, space, decls[i]) ELSE f[i - 1]
        BY <2>1, <4>1 DEF IsAddingResources
      <4>3. g[i] = f[i] /\ g[i - 1] = f[i - 1]
        BY <2>3, <4>1
      <4> QED BY <4>1, <4>2, <4>3
    <3>3. CASE i = m + 1
      <4>1. g[i] = last /\ g[m] = f[m] /\ i - 1 = m /\ i # 0
        BY <2>3, <3>3
      <4> QED BY <2>2, <3>3, <4>1
    <3> QED BY <3>1, <3>2, <3>3
  <2>5. g = [i \in 0..(m + 1) |-> IF i = 0 THEN acc ELSE IF g[i - 1].ok THEN AddResource(g[i - 1], class, space, decls[i]) ELSE g[i - 1]]
    BY <2>3, <2>4
  <2>6. IsAddingResources(acc, class, space, decls, m + 1, g)
    BY <2>5 DEF IsAddingResources
  <2> QED BY <2>6
<1>3. T = Nat
  BY <1>1, <1>2, SetInduction
<1> QED BY <1>3

LEMMA ResourcesFacts ==
  ASSUME NEW acc, NEW class, NEW space, NEW decls, NEW n \in Nat, NEW f, IsAddingResources(acc, class, space, decls, n, f)
  PROVE  f[0] = acc /\ \A m \in 0..(n - 1) : f[m + 1] = IF f[m].ok THEN AddResource(f[m], class, space, decls[m + 1]) ELSE f[m]
<1>1. f[0] = acc
  BY DEF IsAddingResources
<1>2. ASSUME NEW i \in 1..n PROVE f[i] = IF f[i - 1].ok THEN AddResource(f[i - 1], class, space, decls[i]) ELSE f[i - 1]
  <2>1. i \in 0..n /\ i # 0
    OBVIOUS
  <2> QED BY <2>1 DEF IsAddingResources
<1>3. ASSUME NEW m \in 0..(n - 1) PROVE f[m + 1] = IF f[m].ok THEN AddResource(f[m], class, space, decls[m + 1]) ELSE f[m]
  <2>1. PICK i : i = m + 1
    OBVIOUS
  <2>2. i \in 1..n /\ i - 1 = m
    BY <2>1
  <2>3. f[i] = IF f[i - 1].ok THEN AddResource(f[i - 1], class, space, decls[i]) ELSE f[i - 1]
    BY <1>2, <2>2
  <2> QED BY <2>1, <2>2, <2>3
<1> QED BY <1>1, <1>3

LEMMA AddResourcesKeeps ==
  ASSUME NEW acc, Adding(acc), NEW class \in Range(Classes),
         IsSequence(Step.decls[class]),
         \A d \in Range(Step.decls[class]) : DeclOK(class, d)
  PROVE  Adding(AddResources(acc, class))
<1>1. PICK decls : decls = Step.decls[class]
  OBVIOUS
<1>2. PICK space : space = SpaceOf(acc.program.resources[class], decls)
  OBVIOUS
<1>3. PICK n \in Nat : n = Len(decls) /\ DOMAIN decls = 1..n
  BY <1>1, SequenceFacts
<1>4. PICK f : f = CHOOSE g : IsAddingResources(acc, class, space, decls, n, g)
  OBVIOUS
<1>5. IsAddingResources(acc, class, space, decls, n, f)
  BY <1>4, ResourcesExists
<1>6. AddResources(acc, class) = f[n]
  BY <1>1, <1>2, <1>3, <1>4 DEF AddResources, IsAddingResources
<1> DEFINE T == {m \in Nat : m <= n => Adding(f[m])}
<1>7. f[0] = acc /\ \A m \in 0..(n - 1) :
                      f[m + 1] = IF f[m].ok THEN AddResource(f[m], class, space, decls[m + 1])
                                 ELSE f[m]
  BY <1>5, ResourcesFacts
<1>8. 0 \in T
  BY <1>7
<1>9. ASSUME NEW m \in Nat, m \in T PROVE m + 1 \in T
  <2>1. SUFFICES ASSUME m + 1 <= n PROVE Adding(f[m + 1])
    OBVIOUS
  <2>2. m \in 0..(n - 1) /\ m + 1 \in 1..n
    BY <2>1
  <2>3. Adding(f[m])
    BY <1>9, <2>1
  <2>4. decls[m + 1] \in Range(decls)
    BY <1>3, <2>2 DEF Range
  <2>5. Adding(AddResource(f[m], class, space, decls[m + 1]))
    BY <1>1, <2>3, <2>4, AddResourceKeeps
  <2> QED BY <1>7, <2>2, <2>3, <2>5
<1>10. T = Nat
  BY <1>8, <1>9, SetInduction
<1>11. n \in T
  BY <1>10
<1> QED
  BY <1>6, <1>11

(* AddElements is a fold over the declarations of a signature.                      *)
IsAddingElements(acc, class, decls, n, f) ==
  f = [i \in 0..n |-> IF i = 0 THEN acc ELSE IF f[i - 1].ok THEN AddElement(f[i - 1], class, decls[i]) ELSE f[i - 1]]

LEMMA ElementsExists ==
  ASSUME NEW acc, NEW class, NEW decls, NEW n \in Nat
  PROVE  \E f : IsAddingElements(acc, class, decls, n, f)
<1> DEFINE T == {m \in Nat : \E f : IsAddingElements(acc, class, decls, m, f)}
<1>1. 0 \in T
  <2>1. PICK f : f = [i \in 0..0 |-> acc]
    OBVIOUS
  <2>2. f = [i \in 0..0 |-> IF i = 0 THEN acc ELSE IF f[i - 1].ok THEN AddElement(f[i - 1], class, decls[i]) ELSE f[i - 1]]
    BY <2>1
  <2> QED BY <2>2 DEF IsAddingElements
<1>2. ASSUME NEW m \in Nat, m \in T PROVE m + 1 \in T
  <2>1. PICK f : IsAddingElements(acc, class, decls, m, f)
    BY <1>2
  <2>2. PICK last : last = IF f[m].ok THEN AddElement(f[m], class, decls[m + 1]) ELSE f[m]
    OBVIOUS
  <2>3. PICK g : g = [i \in 0..(m + 1) |-> IF i <= m THEN f[i] ELSE last]
    OBVIOUS
  <2>4. ASSUME NEW i \in 0..(m + 1)
        PROVE  g[i] = IF i = 0 THEN acc ELSE IF g[i - 1].ok THEN AddElement(g[i - 1], class, decls[i]) ELSE g[i - 1]
    <3>1. CASE i = 0
      BY <2>1, <2>3, <3>1 DEF IsAddingElements
    <3>2. CASE i \in 1..m
      <4>1. i \in 0..m /\ i - 1 \in 0..m /\ i # 0
        BY <3>2
      <4>2. f[i] = IF f[i - 1].ok THEN AddElement(f[i - 1], class, decls[i]) ELSE f[i - 1]
        BY <2>1, <4>1 DEF IsAddingElements
      <4>3. g[i] = f[i] /\ g[i - 1] = f[i - 1]
        BY <2>3, <4>1
      <4> QED BY <4>1, <4>2, <4>3
    <3>3. CASE i = m + 1
      <4>1. g[i] = last /\ g[m] = f[m] /\ i - 1 = m /\ i # 0
        BY <2>3, <3>3
      <4> QED BY <2>2, <3>3, <4>1
    <3> QED BY <3>1, <3>2, <3>3
  <2>5. g = [i \in 0..(m + 1) |-> IF i = 0 THEN acc ELSE IF g[i - 1].ok THEN AddElement(g[i - 1], class, decls[i]) ELSE g[i - 1]]
    BY <2>3, <2>4
  <2>6. IsAddingElements(acc, class, decls, m + 1, g)
    BY <2>5 DEF IsAddingElements
  <2> QED BY <2>6
<1>3. T = Nat
  BY <1>1, <1>2, SetInduction
<1> QED BY <1>3

LEMMA ElementsFacts ==
  ASSUME NEW acc, NEW class, NEW decls, NEW n \in Nat, NEW f, IsAddingElements(acc, class, decls, n, f)
  PROVE  f[0] = acc /\ \A m \in 0..(n - 1) : f[m + 1] = IF f[m].ok THEN AddElement(f[m], class, decls[m + 1]) ELSE f[m]
<1>1. f[0] = acc
  BY DEF IsAddingElements
<1>2. ASSUME NEW i \in 1..n PROVE f[i] = IF f[i - 1].ok THEN AddElement(f[i - 1], class, decls[i]) ELSE f[i - 1]
  <2>1. i \in 0..n /\ i # 0
    OBVIOUS
  <2> QED BY <2>1 DEF IsAddingElements
<1>3. ASSUME NEW m \in 0..(n - 1) PROVE f[m + 1] = IF f[m].ok THEN AddElement(f[m], class, decls[m + 1]) ELSE f[m]
  <2>1. PICK i : i = m + 1
    OBVIOUS
  <2>2. i \in 1..n /\ i - 1 = m
    BY <2>1
  <2>3. f[i] = IF f[i - 1].ok THEN AddElement(f[i - 1], class, decls[i]) ELSE f[i - 1]
    BY <1>2, <2>2
  <2> QED BY <2>1, <2>2, <2>3
<1> QED BY <1>1, <1>3

LEMMA AddElementsKeeps ==
  ASSUME NEW acc, Adding(acc), NEW class, IsSequence(Step.decls[class])
  PROVE  Adding(AddElements(acc, class))
<1>1. PICK decls : decls = Step.decls[class]
  OBVIOUS
<1>2. PICK n \in Nat : n = Len(decls)
  BY <1>1, SequenceFacts
<1>3. PICK f : f = CHOOSE g : IsAddingElements(acc, class, decls, n, g)
  OBVIOUS
<1>4. IsAddingElements(acc, class, decls, n, f)
  BY <1>3, ElementsExists
<1>5. AddElements(acc, class) = f[n]
  BY <1>1, <1>2, <1>3 DEF AddElements, IsAddingElements
<1> DEFINE T == {m \in Nat : m <= n => Adding(f[m])}
<1>6. \A i \in 0..n : f[i] = IF i = 0 THEN acc
                             ELSE IF f[i - 1].ok THEN AddElement(f[i - 1], class, decls[i])
                             ELSE f[i - 1]
  BY <1>4 DEF IsAddingElements
<1>7. 0 \in T
  BY <1>6
<1>8. ASSUME NEW m \in Nat, m \in T PROVE m + 1 \in T
  <2>1. SUFFICES ASSUME m + 1 <= n PROVE Adding(f[m + 1])
    OBVIOUS
  <2>2. PICK i \in 0..n : i = m + 1 /\ i # 0 /\ i - 1 = m
    BY <2>1
  <2>3. Adding(f[m])
    BY <1>8, <2>1
  <2>4. Adding(AddElement(f[m], class, decls[i]))
    BY <2>3, AddElementKeeps
  <2>5. f[i] = IF f[m].ok THEN AddElement(f[m], class, decls[i]) ELSE f[m]
    BY <1>6, <2>2
  <2> QED BY <2>2, <2>3, <2>4, <2>5
<1>9. T = Nat
  BY <1>7, <1>8, SetInduction
<1>10. n \in T
  BY <1>9
<1> QED
  BY <1>5, <1>10

--------------------------------------------------------------------------------
(* The inductive invariant.                                                      *)

RInv == RecipeOK(recipe) /\ step \in Nat \ {0} /\ ProgramOK(input.types, program)

LEMMA InitRInv == Init => RInv
<1> SUFFICES ASSUME Init PROVE RInv
  OBVIOUS
<1>1. RecipeOK(recipe)
  BY RecipeConverts DEF Init
<1>2. ResourcesOK(input.resources)
  BY ShadersAssumption, ClassesAre DEF Init, ResourcesOK, IsSequence
<1>4. TypesOK(input.types, input.resources["CBV"], input.types)
  <2>1. \A n \in DOMAIN input.types : IsSequence(input.types[n])
    BY ShadersAssumption DEF Init, IsSequence
  <2>2. \A r \in Range(input.resources["CBV"]) : r.type = None
    BY ShadersAssumption, ClassesAre DEF Init
  <2> QED BY <2>1, <2>2 DEF TypesOK
<1>3. ProgramOK(input.types, program)
  BY <1>2, <1>4 DEF Init, ProgramOK
<1> QED
  BY <1>1, <1>3 DEF Init, RInv

LEMMA ApplyResourcesKeeps ==
  ASSUME RInv, ApplyResources
  PROVE  ProgramOK(input.types, program') \/ program' = program
<1> DEFINE start == [program |-> program, context |-> context, ok |-> TRUE, undefined |-> FALSE]
<1>1. Step \in Range(recipe) /\ Step.kind = "resource"
  BY SequenceFacts DEF ApplyResources, Running, RInv, RecipeOK, Step, Range
<1>2. /\ DOMAIN Step.decls = Range(Classes) \cup Range(Signatures)
      /\ \A c \in DOMAIN Step.decls : IsSequence(Step.decls[c])
      /\ \A d \in Range(Step.decls["CBV"]) : d.size \in Nat /\ LaidOut(d.fields)
  BY <1>1 DEF RInv, RecipeOK, Compiled
<1>3. \A c \in Range(Classes) : /\ IsSequence(Step.decls[c])
                                /\ \A d \in Range(Step.decls[c]) : DeclOK(c, d)
  BY <1>2 DEF DeclOK
<1>4. Adding(start)
  BY DEF Adding, RInv
<1>5. PICK s1 : s1 = AddResources(start, "SRV")
  OBVIOUS
<1>6. PICK s2 : s2 = AddResources(s1, "UAV")
  OBVIOUS
<1>7. PICK s3 : s3 = AddResources(s2, "CBV")
  OBVIOUS
<1>8. PICK s4 : s4 = AddResources(s3, "SAM")
  OBVIOUS
<1>9. PICK s5 : s5 = AddElements(s4, "INPUT")
  OBVIOUS
<1>10. PICK s6 : s6 = AddElements(s5, "OUTPUT")
  OBVIOUS
<1>11. \A c \in {"SRV", "UAV", "CBV", "SAM"} : \A acc : Adding(acc) => Adding(AddResources(acc, c))
  BY <1>3, AddResourcesKeeps, ClassesAre
<1>12. \A c \in {"INPUT", "OUTPUT"} : \A acc : Adding(acc) => Adding(AddElements(acc, c))
  BY <1>2, AddElementsKeeps, ClassesAre
<1>13. Adding(s1) /\ Adding(s2) /\ Adding(s3) /\ Adding(s4)
  BY <1>4, <1>5, <1>6, <1>7, <1>8, <1>11
<1>14. Adding(s6)
  BY <1>9, <1>10, <1>12, <1>13
<1>15. program' = program \/ program' = s6.program
  BY <1>5, <1>6, <1>7, <1>8, <1>9, <1>10 DEF ApplyResources, Stop
<1> QED
  BY <1>14, <1>15 DEF Adding

LEMMA NextRInv == RInv /\ [Next]_vars => RInv'
<1> SUFFICES ASSUME RInv, [Next]_vars PROVE RInv'
  OBVIOUS
<1>12. input' = input
  <2>1. ASSUME NEW r, Rewritten(r) PROVE input' = input
    BY <2>1 DEF Rewritten, Turn, Stop
  <2>2. CASE ApplyRule
    BY <2>1, <2>2 DEF ApplyRule, Stop
  <2>3. CASE Load \/ SkipStep \/ Finish \/ UNCHANGED vars
    BY <2>3 DEF Load, SkipStep, Finish, vars
  <2>4. CASE ApplyResources
    BY <2>4 DEF ApplyResources, Turn, Stop
  <2>5. CASE DeclareFunction
    BY <2>5 DEF DeclareFunction, Turn, Stop
  <2>6. CASE CheckShaderVersion \/ Check
    BY <2>6 DEF CheckShaderVersion, Check, Turn, Stop
  <2> QED BY <2>2, <2>3, <2>4, <2>5, <2>6 DEF Next
<1>1. recipe' = recipe /\ step' \in {step, step + 1} => RecipeOK(recipe)' /\ step' \in Nat \ {0}
  BY DEF RInv
<1>2. ASSUME NEW p, program' = [program EXCEPT !.prog = p]
      PROVE  ProgramOK(input.types, program')
  BY <1>2 DEF RInv, ProgramOK
<1>3. CASE Load
  BY <1>1, <1>12, <1>3 DEF Load, RInv
<1>4. CASE SkipStep
  BY <1>1, <1>12, <1>4 DEF SkipStep, RInv
<1>5. CASE ApplyRule
  <2>1. CASE UNCHANGED <<recipe, step, program>>
    BY <1>1, <1>12, <2>1 DEF RInv
  <2>2. CASE \E r : Rewritten(r) /\ r.w.phase = "running"
    <3>1. PICK r : Rewritten(r) /\ r.w.phase = "running"
      BY <2>2
    <3>2. program' = [program EXCEPT !.prog = r.w.prog] /\ recipe' = recipe /\ step' = step + 1
      BY <3>1 DEF Rewritten, Turn
    <3> QED BY <1>1, <1>12, <1>2, <3>2 DEF RInv
  <2> QED BY <1>5, <2>1, <2>2 DEF ApplyRule, Rewritten, Stop
<1>6. CASE ApplyResources
  <2>1. recipe' = recipe /\ step' \in {step, step + 1}
    BY <1>6 DEF ApplyResources, Stop, Turn
  <2> QED BY <1>1, <1>12, <1>6, <2>1, ApplyResourcesKeeps DEF RInv
<1>7. CASE DeclareFunction
  <2>1. CASE UNCHANGED <<recipe, step, program>>
    BY <1>1, <1>12, <2>1 DEF RInv
  <2>2. CASE \E p, i : program' = [program EXCEPT !.prog = p, !.injected = i] /\ Turn(TRUE)
    <3>1. PICK p, i : program' = [program EXCEPT !.prog = p, !.injected = i]
      BY <2>2
    <3>2. ProgramOK(input.types, program')
      BY <3>1 DEF RInv, ProgramOK
    <3> QED BY <1>1, <1>12, <2>2, <3>2 DEF RInv, Turn
  <2>3. UNCHANGED <<recipe, step, program>>
          \/ \E p, i : program' = [program EXCEPT !.prog = p, !.injected = i] /\ Turn(TRUE)
    BY <1>7 DEF DeclareFunction, Stop
  <2> QED BY <2>1, <2>2, <2>3
<1>8. CASE CheckShaderVersion
  BY <1>1, <1>12, <1>8 DEF CheckShaderVersion, Turn, RInv
<1>9. CASE Check
  BY <1>1, <1>12, <1>9 DEF Check, Turn, RInv
<1>10. CASE Finish
  BY <1>1, <1>12, <1>10 DEF Finish, RInv
<1>11. CASE UNCHANGED vars
  BY <1>1, <1>12, <1>11 DEF vars, RInv
<1> QED
  BY <1>3, <1>4, <1>5, <1>6, <1>7, <1>8, <1>9, <1>10, <1>11 DEF Next

(* No two resources of a class ever begin at one register of one space, neither  *)
(* two that add_resource appends nor one of them and one of the game's.          *)
THEOREM BindingsApartHolds == Spec => []BindingsApart
<1>1. RInv => BindingsApart
  BY DEF RInv, ProgramOK, ResourcesOK, BindingsApart
<1> QED
  BY <1>1, InitRInv, NextRInv, PTL DEF Spec

(* The type of an added cbuffer tiles it, with every field where the layout has  *)
(* it, when no other layout shares the type's name: of the recipe, the shader or *)
(* a shader before it.  A cbuffer_field emit reads a field of the cbuffer it     *)
(* names; the author writes no cbuffer load of his own.                          *)
THEOREM CBufferSoundHolds ==
  ASSUME LoadsFromFields
  PROVE  Spec => []CBufferSound
<1>1. RInv => FieldsTile
  BY DEF RInv, ProgramOK, TypesOK, FieldsTile
<1>2. ASSUME RInv PROVE FieldsReadable
  <2>1. SUFFICES ASSUME NEW s \in Range(recipe), s.kind = "rule", NEW k \in DOMAIN s.rule.emits,
                        s.rule.emits[k].op = "cbufferLoadLegacy"
                 PROVE  ReadsField(recipe, s.rule.emits[k], s.rule.emits[k + 1])
    BY DEF FieldsReadable
  <2>2. LoadsRead(recipe, s.rule.emits)
    BY <1>2, <2>1, LoadsFromFields DEF RInv, RecipeOK, Compiled
  <2>3. k \in 1..Len(s.rule.emits)
    BY <2>2, SequenceFacts DEF LoadsRead
  <2> QED BY <2>1, <2>2, <2>3 DEF LoadsRead
<1>3. RInv => CBufferSound
  BY <1>1, <1>2 DEF CBufferSound
<1> QED
  BY <1>3, InitRInv, NextRInv, PTL DEF Spec
================================================================================
