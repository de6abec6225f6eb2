--------------------------- MODULE StorageProofs ----------------------------
(***************************************************************************)
(* Proofs about what keeps the recordings: their index on the SD card      *)
(* (RecIndex) and their copies on the network disk (NasSync), for any      *)
(* number of recorders, days, recordings and queued requests.              *)
(*                                                                         *)
(* IndexInv says of each sound day that what its index counts, or the app  *)
(* holds of it while it rewrites the index, are recordings on the card,    *)
(* each once and none that a queued request names; and of each recording   *)
(* under way that nobody has listed it yet, but for the entry its recorder *)
(* put behind those the head counts.                                       *)
(* From it, and from LooseInv, which says what the files of a day without  *)
(* an index are, each step of RecIndex is shown to be one of Catalogue.    *)
(***************************************************************************)
EXTENDS NasSync, RecIndex, TLAPS, FiniteSetTheorems, SequenceTheorems,
        WellFoundedInduction

(* The index of the recordings. *)

(* The numbers a sequence holds, and that it holds none twice. *)
Entries(s) == {s[i] : i \in 1 .. Len(s)}
Distinct(s) == \A i, j \in 1 .. Len(s) : s[i] = s[j] => i = j

Writing(r) == rec[r].at \in {"open", "entry"}
Asked(d, f) == Contains(queue, <<d, f>>)

(* mutex_idx_lock is held by who is between the two halves of a change. *)
LockInv ==
  /\ \A r \in Recorders : rec[r].at = "entry" <=> idxlock = r
  /\ app.at # "idle" <=> idxlock = "app"
  /\ idxlock = "cleaner" => dates # <<>>
  /\ app.at # "idle" => app.dir \in Days
  /\ \A r \in Recorders : rec[r].at # "idle" => rec[r].dir \in Days

(* Numbers are given once: nobody knows of a recording that was not begun,  *)
(* and a recording belongs to one day and one recorder.                     *)
KnownInv ==
  /\ \A d \in Days : \A f \in files[d] : f <= past.begun
  /\ \A f \in past.kept : f <= past.begun
  /\ \A d \in Days : \A f \in Entries(idx[d].list) : f <= past.begun
  /\ \A f \in Entries(app.list) : f <= past.begun
  /\ \A d \in Days : \A f \in 0 .. MaxFiles : Asked(d, f) => f <= past.begun

OwnInv ==
  /\ \A d, e \in Days : d # e => files[d] \cap files[e] = {}
  /\ \A r \in Recorders : Writing(r) =>
       /\ rec[r].name \in 1 .. past.begun
       /\ \A q \in Recorders : Writing(q) /\ q # r => rec[q].name # rec[r].name
       /\ \A e \in Days : e # rec[r].dir => rec[r].name \notin files[e]

(* What is left of an index that is missing or cut, and where a recorder    *)
(* that has written its entry will find the head.                           *)
FormInv ==
  /\ \A d \in Days : /\ idx[d].state = "none" => idx[d] = NoIndex
                     /\ idx[d].state = "cut" => idx[d] = CutIndex
  /\ \A r \in Recorders : rec[r].at = "entry" /\ ~rec[r].gone =>
       rec[r].dir \in dirs /\ idx[rec[r].dir].state = "good"

(* Of a sound day: the entries L behind a recording's back are each of one  *)
(* recording on the card that nobody asked to delete, and leave out none    *)
(* that was listed.                                                         *)
Right(d, L) ==
  /\ L \subseteq files[d]
  /\ past.kept \cap files[d] \subseteq L
  /\ \A f \in L : ~Asked(d, f)

Heads(d) == {idx[d].list[i] : i \in 1 .. idx[d].totol}
HeadsDistinct(d) ==
  \A i, j \in 1 .. idx[d].totol : idx[d].list[i] = idx[d].list[j] => i = j

DayRight(d) ==
  /\ idx[d].totol <= Len(idx[d].list)
  /\ ~Deleting(d) => /\ HeadsDistinct(d) /\ Right(d, Heads(d))
                     /\ idx[d].state # "cut"
  /\ Deleting(d) => /\ d \in dirs /\ ~app.gone
                    /\ Distinct(app.list) /\ Right(d, Entries(app.list))

(* A recording under way is on the card and listed nowhere yet, but for the *)
(* entry its recorder has put behind those the head counts.                 *)
RecordingFits(d, f) ==
  /\ d \in dirs /\ f \in files[d] /\ f \notin past.kept /\ ~Asked(d, f)
  /\ f \notin Heads(d)
  /\ Deleting(d) => f \notin Entries(app.list)

EntryFits(d, f) ==
  idx[d].totol < Len(idx[d].list) /\ idx[d].list[idx[d].totol + 1] = f

RecordingRight(r) ==
  /\ RecordingFits(rec[r].dir, rec[r].name)
  /\ rec[r].at = "entry" => ~rec[r].gone /\ EntryFits(rec[r].dir, rec[r].name)

DaysInv == \A d \in Days : Sound(d) => DayRight(d)
RecordingsInv ==
  \A r \in Recorders : Writing(r) /\ Sound(rec[r].dir) => RecordingRight(r)

IndexInv == /\ RecIndexType /\ LockInv /\ KnownInv /\ OwnInv /\ FormInv
            /\ DaysInv /\ RecordingsInv
-----------------------------------------------------------------------------
(* Sequences of numbers. *)

LEMMA Least ==
  ASSUME NEW n \in Nat, NEW T \in SUBSET (1 .. n), T # {}
  PROVE  \E x \in T : \A y \in T : x <= y
<1> DEFINE B(x) == {m \in T : m <= x}
           F == {B(x) : x \in T}
           R == StrictSubsetOrdering(T)
<1>1. IsFiniteSet(1 .. n)
  BY FS_Interval
<1>2. IsFiniteSet(T)
  BY <1>1, FS_Subset
<1>3. \A x \in T : B(x) \in FiniteSubsetsOf(T)
  <2> SUFFICES ASSUME NEW x \in T PROVE B(x) \in FiniteSubsetsOf(T)
    OBVIOUS
  <2>1. B(x) \in SUBSET T
    OBVIOUS
  <2> QED BY <2>1, <1>2, FS_Subset DEF FiniteSubsetsOf
<1>4. F \subseteq FiniteSubsetsOf(T) /\ F # {}
  BY <1>3
<1>5. PICK M \in F : \A N \in F : ~ (<<N, M>> \in R)
  <2>1. IsWellFoundedOn(R, FiniteSubsetsOf(T))
    BY FS_StrictSubsetOrderingWellFounded
  <2> HIDE DEF F, R
  <2> QED BY <2>1, <1>4, WFMin, Zenon
<1>6. PICK x \in T : M = B(x)
  BY <1>5
<1>7. SUFFICES ASSUME NEW y \in T, y < x PROVE FALSE
  BY <1>6
<1>8. B(y) \in F /\ B(y) \subseteq B(x) /\ x \in B(x) /\ x \notin B(y)
  <2>1. B(y) \in F
    OBVIOUS
  <2>2. x \in Nat /\ y \in Nat /\ \A m \in T : m \in Nat
    OBVIOUS
  <2>3. \A m \in T : m <= y => m <= x
    BY <2>2, <1>7
  <2>4. x <= x /\ ~ (x <= y)
    BY <2>2, <1>7
  <2>5. B(y) \subseteq B(x) /\ x \in B(x) /\ x \notin B(y)
    BY <2>3, <2>4, Zenon
  <2> QED BY <2>1, <2>5
<1>9. <<B(y), B(x)>> \in R
  BY <1>8 DEF StrictSubsetOrdering
<1> QED BY <1>5, <1>6, <1>8, <1>9

LEMMA RemoveAtIs ==
  ASSUME NEW S, NEW s \in Seq(S), NEW k \in 1 .. Len(s)
  PROVE  /\ RemoveAt(s, k) \in Seq(S)
         /\ Len(RemoveAt(s, k)) = Len(s) - 1
         /\ \A j \in 1 .. Len(s) - 1 :
              RemoveAt(s, k)[j] = IF j < k THEN s[j] ELSE s[j + 1]
<1> DEFINE a == SubSeq(s, 1, k - 1)
           b == SubSeq(s, k + 1, Len(s))
           c == a \o b
<1>1. Len(s) \in Nat /\ k \in Nat /\ 1 <= k /\ k <= Len(s)
  BY LenProperties
<1>2. \A i \in 1 .. Len(s) : s[i] \in S
  BY ElementOfSeq
<1>3. a \in Seq(S) /\ Len(a) = k - 1 /\ \A i \in 1 .. k - 1 : a[i] = s[i]
  <2>1. \A i \in 1 .. k - 1 : s[i] \in S
    BY <1>1, <1>2
  <2>2. /\ a \in Seq(S) /\ Len(a) = (IF 1 <= k - 1 THEN k - 1 - 1 + 1 ELSE 0)
        /\ \A i \in 1 .. k - 1 - 1 + 1 : a[i] = s[1 + i - 1]
    BY <2>1, <1>1, SubSeqProperties, 1 \in Int, k - 1 \in Int
  <2> HIDE DEF a
  <2> QED BY <2>2, <1>1
<1>4. b \in Seq(S) /\ Len(b) = Len(s) - k /\ \A i \in 1 .. Len(s) - k : b[i] = s[k + i]
  <2>1. \A i \in k + 1 .. Len(s) : s[i] \in S
    BY <1>1, <1>2
  <2>2. /\ b \in Seq(S)
        /\ Len(b) = (IF k + 1 <= Len(s) THEN Len(s) - (k + 1) + 1 ELSE 0)
        /\ \A i \in 1 .. Len(s) - (k + 1) + 1 : b[i] = s[k + 1 + i - 1]
    BY <2>1, <1>1, SubSeqProperties, Len(s) \in Int, k + 1 \in Int
  <2> HIDE DEF b
  <2> QED BY <2>2, <1>1
<1> HIDE DEF a, b
<1>5. /\ c \in Seq(S) /\ Len(c) = Len(a) + Len(b)
      /\ \A i \in 1 .. Len(a) + Len(b) :
           c[i] = IF i <= Len(a) THEN a[i] ELSE b[i - Len(a)]
  BY <1>3, <1>4, ConcatProperties
<1>6. RemoveAt(s, k) = c
  BY DEF RemoveAt, a, b
<1> HIDE DEF c
<1>7. Len(c) = Len(s) - 1
  BY <1>1, <1>3, <1>4, <1>5
<1>8. ASSUME NEW j \in 1 .. Len(s) - 1
      PROVE  c[j] = IF j < k THEN s[j] ELSE s[j + 1]
  <2>1. CASE j < k
    <3>1. j \in 1 .. Len(a) + Len(b) /\ j <= Len(a) /\ j \in 1 .. k - 1
      BY <2>1, <1>1, <1>3, <1>4
    <3>2. c[j] = a[j]
      BY <3>1, <1>5
    <3> QED BY <2>1, <3>1, <3>2, <1>3
  <2>2. CASE ~ (j < k)
    <3>1. j \in 1 .. Len(a) + Len(b) /\ ~ (j <= Len(a)) /\ j - Len(a) \in 1 .. Len(s) - k
      BY <2>2, <1>1, <1>3, <1>4
    <3>2. c[j] = b[j - Len(a)]
      BY <3>1, <1>5
    <3>3. b[j - Len(a)] = s[k + (j - Len(a))]
      BY <3>1, <1>4
    <3>4. k + (j - Len(a)) = j + 1
      BY <1>1, <1>3
    <3> QED BY <2>2, <3>2, <3>3, <3>4
  <2> QED BY <2>1, <2>2
<1> QED BY <1>5, <1>6, <1>7, <1>8

LEMMA RemoveFirstIs ==
  ASSUME NEW S, NEW s \in Seq(S), NEW e, Contains(s, e)
  PROVE  \E k \in 1 .. Len(s) : s[k] = e /\ RemoveFirst(s, e) = RemoveAt(s, k)
<1> DEFINE I == {i \in 1 .. Len(s) : s[i] = e}
<1>1. I # {} /\ I \in SUBSET (1 .. Len(s)) /\ Len(s) \in Nat
  BY LenProperties DEF Contains
<1>2. \E x \in I : \A y \in I : x <= y
  <2> HIDE DEF I
  <2> QED BY <1>1, Least
<1>3. Min(I) \in I
  BY <1>2 DEF Min
<1>4. SelectInSeq(s, LAMBDA v : v = e) = Min(I)
  BY <1>1 DEF SelectInSeq
<1>5. RemoveFirst(s, e) = RemoveAt(s, SelectInSeq(s, LAMBDA v : v = e))
  BY DEF RemoveFirst, Contains
<1> QED BY <1>1, <1>3, <1>4, <1>5

LEMMA RemoveFirstSeq ==
  ASSUME NEW S, NEW s \in Seq(S), NEW e
  PROVE  RemoveFirst(s, e) \in Seq(S)
<1>1. CASE Contains(s, e)
  BY <1>1, RemoveFirstIs, RemoveAtIs
<1>2. CASE ~Contains(s, e)
  BY <1>2 DEF Contains, RemoveFirst
<1> QED BY <1>1, <1>2

(* What is taken out of a list is out of it, and nothing else is. *)
LEMMA RemoveFirstEntries ==
  ASSUME NEW S, NEW s \in Seq(S), NEW e, Contains(s, e)
  PROVE  /\ Entries(RemoveFirst(s, e)) \subseteq Entries(s)
         /\ Entries(s) \ {e} \subseteq Entries(RemoveFirst(s, e))
         /\ Distinct(s) => /\ Distinct(RemoveFirst(s, e))
                           /\ e \notin Entries(RemoveFirst(s, e))
<1>1. PICK k \in 1 .. Len(s) : s[k] = e /\ RemoveFirst(s, e) = RemoveAt(s, k)
  BY RemoveFirstIs
<1> DEFINE t == RemoveFirst(s, e)
<1>2. /\ t \in Seq(S) /\ Len(t) = Len(s) - 1
      /\ \A j \in 1 .. Len(s) - 1 : t[j] = IF j < k THEN s[j] ELSE s[j + 1]
  BY <1>1, RemoveAtIs
<1>3. Len(s) \in Nat /\ k \in Nat /\ 1 <= k /\ k <= Len(s)
  BY LenProperties
<1> HIDE DEF t
<1> SUFFICES /\ Entries(t) \subseteq Entries(s)
             /\ Entries(s) \ {e} \subseteq Entries(t)
             /\ Distinct(s) => Distinct(t) /\ e \notin Entries(t)
  BY DEF t
<1>4. Entries(t) \subseteq Entries(s)
  <2> SUFFICES ASSUME NEW j \in 1 .. Len(t) PROVE \E i \in 1 .. Len(s) : s[i] = t[j]
    BY DEF Entries
  <2>1. j \in 1 .. Len(s) /\ j + 1 \in 1 .. Len(s)
    BY <1>2, <1>3
  <2> QED BY <2>1, <1>2, <1>3
<1>5. Entries(s) \ {e} \subseteq Entries(t)
  <2> SUFFICES ASSUME NEW i \in 1 .. Len(s), s[i] # e
               PROVE  \E j \in 1 .. Len(t) : t[j] = s[i]
    BY DEF Entries
  <2>1. CASE i < k
    <3>1. i \in 1 .. Len(s) - 1
      BY <2>1, <1>3
    <3>2. t[i] = s[i]
      BY <3>1, <2>1, <1>2
    <3> QED BY <3>1, <3>2, <1>2
  <2>2. CASE i > k
    <3>1. i - 1 \in 1 .. Len(s) - 1 /\ ~ (i - 1 < k) /\ i - 1 + 1 = i
      BY <2>2, <1>3
    <3>2. t[i - 1] = s[i]
      BY <3>1, <1>2
    <3> QED BY <3>1, <3>2, <1>2
  <2>3. i # k
    BY <1>1
  <2> QED BY <2>1, <2>2, <2>3, <1>3
<1>6. ASSUME Distinct(s) PROVE Distinct(t) /\ e \notin Entries(t)
  <2> DEFINE g(j) == IF j < k THEN j ELSE j + 1
  <2>1. \A j \in 1 .. Len(t) : g(j) \in 1 .. Len(s) /\ g(j) # k /\ t[j] = s[g(j)]
    BY <1>2, <1>3
  <2>2. \A i, j \in 1 .. Len(t) : g(i) = g(j) => i = j
    BY <1>2, <1>3
  <2> HIDE DEF g
  <2>3. Distinct(t)
    BY <2>1, <2>2, <1>6 DEF Distinct
  <2>4. \A j \in 1 .. Len(t) : t[j] # e
    BY <2>1, <1>1, <1>6 DEF Distinct
  <2> QED BY <2>3, <2>4 DEF Entries
<1> QED BY <1>4, <1>5, <1>6

LEMMA InOrderIs ==
  ASSUME NEW n \in Nat, NEW S \in SUBSET (1 .. n)
  PROVE  /\ InOrder(S) \in Seq(S)
         /\ Entries(InOrder(S)) = S
         /\ Distinct(InOrder(S))
<1> DEFINE below(x) == {m \in S : m < x}
           rank(x) == Cardinality(below(x))
           c == Cardinality(S)
           g == [x \in S |-> rank(x) + 1]
<1>1. IsFiniteSet(S) /\ c \in Nat
  <2>1. IsFiniteSet(1 .. n)
    BY FS_Interval, 1 \in Int, n \in Int
  <2>2. IsFiniteSet(S)
    BY <2>1, FS_Subset, Zenon
  <2> QED BY <2>2, FS_CardinalityType, Zenon
<1>2. \A x \in S : x \in Nat
  OBVIOUS
<1>3. \A x \in S : IsFiniteSet(below(x)) /\ rank(x) \in Nat
  BY <1>1, FS_Subset, FS_CardinalityType
<1>4. \A x, y \in S : x < y => rank(x) < rank(y)
  <2> SUFFICES ASSUME NEW x \in S, NEW y \in S, x < y PROVE rank(x) < rank(y)
    OBVIOUS
  <2>1. below(x) \in SUBSET below(y) /\ x \in below(y) /\ x \notin below(x)
    <3>1. ~ (x < x) /\ \A m \in S : m < x => m < y
      BY <1>2
    <3> QED BY <3>1, Zenon
  <2>2. rank(x) <= rank(y) /\ (rank(y) = rank(x) => below(y) = below(x))
    BY <2>1, <1>3, FS_Subset
  <2> HIDE DEF below
  <2> QED BY <2>1, <2>2, <1>3
<1>5. \A x \in S : rank(x) < c
  <2> SUFFICES ASSUME NEW x \in S PROVE rank(x) < c
    OBVIOUS
  <2>1. below(x) \in SUBSET S /\ x \notin below(x)
    BY <1>2
  <2>2. rank(x) <= c /\ (c = rank(x) => S = below(x))
    BY <2>1, <1>1, FS_Subset
  <2> HIDE DEF below, c
  <2> QED BY <2>1, <2>2, <1>1, <1>3
<1> HIDE DEF rank, c
<1>6. g \in [S -> 1 .. c]
  <2>1. \A x \in S : rank(x) + 1 \in 1 .. c
    <3> SUFFICES ASSUME NEW x \in S PROVE rank(x) + 1 \in 1 .. c
      OBVIOUS
    <3>1. rank(x) \in Nat /\ rank(x) < c
      BY <1>3, <1>5, Zenon
    <3> QED BY <3>1, <1>1
  <2> QED BY <2>1, Zenon
<1>7. \A x, y \in S : rank(x) = rank(y) => x = y
  <2> SUFFICES ASSUME NEW x \in S, NEW y \in S, rank(x) = rank(y) PROVE x = y
    OBVIOUS
  <2>1. ~ (x < y) /\ ~ (y < x)
    <3>1. rank(x) \in Nat /\ rank(y) \in Nat
      BY <1>3, Zenon
    <3>2. /\ x < y => rank(x) < rank(y)
          /\ y < x => rank(y) < rank(x)
      BY <1>4, Zenon
    <3> QED BY <3>1, <3>2
  <2> QED BY <2>1, <1>2
<1>8. g \in Injection(S, 1 .. c)
  <2>1. \A x, y \in S : g[x] = g[y] => x = y
    <3> SUFFICES ASSUME NEW x \in S, NEW y \in S, g[x] = g[y] PROVE x = y
      OBVIOUS
    <3>1. rank(x) + 1 = rank(y) + 1
      BY Zenon
    <3>2. rank(x) \in Nat /\ rank(y) \in Nat
      BY <1>3, Zenon
    <3>3. rank(x) = rank(y)
      BY <3>1, <3>2
    <3> QED BY <3>3, <1>7, Zenon
  <2> HIDE DEF g
  <2> QED BY <1>6, <2>1 DEF Injection, IsInjective
<1>9. g \in Surjection(S, 1 .. c)
  <2>1. IsFiniteSet(1 .. c) /\ Cardinality(1 .. c) = c
    <3>1. IsFiniteSet(1 .. c) /\ Cardinality(1 .. c) = IF 1 > c THEN 0 ELSE c - 1 + 1
      BY <1>1, FS_Interval
    <3> QED BY <3>1, <1>1
  <2> HIDE DEF g
  <2> QED BY <1>8, <2>1, FS_Injection DEF c
<1>10. \A i \in 1 .. c : \E x \in S : rank(x) = i - 1
  <2> SUFFICES ASSUME NEW i \in 1 .. c PROVE \E x \in S : rank(x) = i - 1
    OBVIOUS
  <2>1. PICK x \in S : g[x] = i
    <3> HIDE DEF g
    <3> QED BY <1>9, Zenon DEF Surjection
  <2>2. rank(x) + 1 = i /\ rank(x) \in Nat
    BY <2>1, <1>3, Zenon
  <2> QED BY <2>2
<1> DEFINE s == InOrder(S)
<1>11. s = [i \in 1 .. c |-> CHOOSE x \in S : rank(x) = i - 1]
  BY DEF InOrder, rank, c
<1>12. \A i \in 1 .. c : s[i] \in S /\ rank(s[i]) = i - 1
  BY <1>10, <1>11
<1>13. s \in Seq(S) /\ Len(s) = c
  <2>1. s \in [1 .. c -> S]
    BY <1>11, <1>12
  <2> HIDE DEF s
  <2> QED BY <2>1, <1>1
<1> HIDE DEF s
<1>14. Distinct(s)
  BY <1>12, <1>13, <1>1 DEF Distinct
<1>15. S \subseteq Entries(s)
  <2> SUFFICES ASSUME NEW x \in S PROVE x \in Entries(s)
    OBVIOUS
  <2>1. PICK i \in 1 .. c : i - 1 = rank(x)
    <3>1. rank(x) \in Nat /\ rank(x) < c
      BY <1>3, <1>5, Zenon
    <3>2. ASSUME NEW k \in Nat, k < c PROVE \E i \in 1 .. c : i - 1 = k
      <4>1. k + 1 \in 1 .. c /\ (k + 1) - 1 = k
        BY <3>2, <1>1
      <4> QED BY <4>1, Zenon
    <3> QED BY <3>1, <3>2, Zenon
  <2>2. s[i] \in S /\ rank(s[i]) = rank(x)
    BY <2>1, <1>12, Zenon
  <2>3. s[i] = x
    BY <2>2, <1>7, Zenon
  <2> QED BY <2>1, <2>3, <1>13 DEF Entries
<1>16. Entries(s) \subseteq S
  BY <1>12, <1>13 DEF Entries
<1> QED BY <1>13, <1>14, <1>15, <1>16 DEF s

IndexRecord == [state : {"none", "cut", "good"}, totol : Nat, list : Seq(Nat)]

(* f is put at its place, behind an entry there is or at the end. *)
LEMMA PutAtIs ==
  ASSUME NEW index \in IndexRecord, NEW i \in Nat \ {0}, NEW f \in Nat
  PROVE  LET put == PutAt(index, i, f) IN
         /\ put \in IndexRecord
         /\ put.state = index.state /\ put.totol = index.totol
         /\ i <= Len(put.list) /\ put.list[i] = f
         /\ \A j \in 1 .. Len(index.list) : j # i => put.list[j] = index.list[j]
         /\ Len(index.list) <= Len(put.list)
         /\ \A g \in Entries(put.list) : g \in Entries(index.list) \cup {0, f}
<1> DEFINE L == index.list
           n == IF i > Len(L) THEN i ELSE Len(L)
           h(j) == IF j = i THEN f ELSE IF j <= Len(L) THEN L[j] ELSE 0
           t == [j \in 1 .. Len(L) \cup 1 .. i |-> h(j)]
           put == PutAt(index, i, f)
<1>1. L \in Seq(Nat) /\ index.totol \in Nat
      /\ index.state \in {"none", "cut", "good"}
  BY DEF IndexRecord
<1>2. Len(L) \in Nat /\ n \in Nat /\ 1 .. Len(L) \cup 1 .. i = 1 .. n
  BY <1>1
<1>3. \A j \in 1 .. n : h(j) \in Nat
  BY <1>1, <1>2
<1>4. t \in [1 .. n -> Nat] /\ \A j \in 1 .. n : t[j] = h(j)
  BY <1>2, <1>3
<1>5. put = [index EXCEPT !.list = t]
  BY DEF PutAt
<1>6. put.state = index.state /\ put.totol = index.totol /\ put.list = t
  BY <1>5 DEF IndexRecord
<1>7. t \in Seq(Nat) /\ Len(t) = n
  <2> HIDE DEF t, n
  <2> QED BY <1>2, <1>4
<1>8. put \in IndexRecord
  <2> HIDE DEF t
  <2> QED BY <1>5, <1>7 DEF IndexRecord
<1>9. \A j \in 1 .. Len(t) : t[j] \in Entries(L) \cup {0, f}
  <2> SUFFICES ASSUME NEW j \in 1 .. Len(t) PROVE t[j] \in Entries(L) \cup {0, f}
    OBVIOUS
  <2>1. t[j] = h(j)
    BY <1>4, <1>7
  <2> HIDE DEF t
  <2> QED BY <2>1, <1>1, <1>7 DEF Entries
<1>10. i <= n /\ i \in 1 .. n /\ Len(L) <= n /\ \A j \in 1 .. Len(L) : j \in 1 .. n
  BY <1>2
<1>11. t[i] = f /\ \A j \in 1 .. Len(L) : j # i => t[j] = L[j]
  BY <1>10, <1>4
<1> HIDE DEF t, put, n
<1> QED BY <1>6, <1>7, <1>8, <1>9, <1>10, <1>11 DEF put, Entries

LEMMA CountedIs ==
  ASSUME NEW d \in Days, idx[d] \in IndexRecord
  PROVE  /\ Counted(d) \in Seq(Nat)
         /\ Entries(Counted(d)) \subseteq Entries(idx[d].list)
         /\ idx[d].totol <= Len(idx[d].list) =>
              /\ Len(Counted(d)) = idx[d].totol
              /\ \A i \in 1 .. idx[d].totol : Counted(d)[i] = idx[d].list[i]
<1> DEFINE L == idx[d].list   t == idx[d].totol   m == AtMost(t, Len(L))
<1>1. L \in Seq(Nat) /\ t \in Nat /\ Len(L) \in Nat
  BY DEF IndexRecord
<1> HIDE DEF L, t
<1>2. m \in Nat /\ m <= Len(L) /\ (t <= Len(L) => m = t)
  BY <1>1 DEF AtMost
<1> HIDE DEF m
<1> DEFINE s == SubSeq(L, 1, m)
<1>3. \A i \in 1 .. m : L[i] \in Nat /\ i \in 1 .. Len(L)
  BY <1>1, <1>2
<1>4. /\ s \in Seq(Nat) /\ Len(s) = (IF 1 <= m THEN m - 1 + 1 ELSE 0)
      /\ \A i \in 1 .. m - 1 + 1 : s[i] = L[1 + i - 1]
  BY <1>2, <1>3, SubSeqProperties, 1 \in Int, m \in Int
<1> HIDE DEF s
<1>5. s \in Seq(Nat) /\ Len(s) = m /\ \A i \in 1 .. m : s[i] = L[i]
  BY <1>2, <1>4
<1>6. Counted(d) = s
  BY DEF Counted, s, m, L, t
<1> QED BY <1>2, <1>3, <1>5, <1>6 DEF Entries, L, t
-----------------------------------------------------------------------------
(* Types. *)

RecorderPlaces == {"idle", "absent", "made", "listed", "ready", "open", "entry"}
RecorderRecord ==
  [at : RecorderPlaces, dir : 0 .. MaxDay, name : 0 .. MaxFiles, gone : BOOLEAN]
AppRecord ==
  [at : {"idle", "has", "cut"}, dir : 0 .. MaxDay, list : Seq(Nat), gone : BOOLEAN]
Requests == Days \X (0 .. MaxFiles)

DiskType == dates \in Seq(Days) /\ dirs \subseteq Days /\ files \in [Days -> SUBSET Files]
IndexType ==
  /\ idx \in [Days -> IndexRecord]
  /\ \A d \in Days \ dirs : files[d] = {} /\ idx[d] = NoIndex
RecorderType == rec \in [Recorders -> RecorderRecord]
AppType == app \in AppRecord
QueueType == queue \in Seq(Requests) /\ Len(queue) <= MaxQueue
LockType == idxlock \in Recorders \cup Others
PastType ==
  past \in [begun : 0 .. MaxFiles, kept : SUBSET Files, spoilt : SUBSET Days]

LEMMA TypeParts ==
  RecIndexType <=> /\ DiskType /\ IndexType /\ RecorderType /\ AppType
                   /\ QueueType /\ LockType /\ PastType
BY Zenon DEF RecIndexType, DiskType, IndexType, RecorderType, AppType, QueueType,
   LockType, PastType, IndexRecord, RecorderRecord, RecorderPlaces, AppRecord, Requests

LEMMA RecorderIs ==
  ASSUME RecorderType, NEW r \in Recorders
  PROVE  /\ rec[r] \in RecorderRecord
         /\ rec[r].at \in RecorderPlaces /\ rec[r].dir \in 0 .. MaxDay
         /\ rec[r].name \in 0 .. MaxFiles /\ rec[r].gone \in BOOLEAN
BY DEF RecorderType, RecorderRecord

(* A recorder's step changes that recorder alone. *)
LEMMA RecorderMoves ==
  ASSUME RecorderType, NEW r \in Recorders, NEW x \in RecorderRecord,
         rec' = [rec EXCEPT ![r] = x]
  PROVE  RecorderType' /\ rec'[r] = x /\ \A q \in Recorders \ {r} : rec'[q] = rec[q]
BY Zenon DEF RecorderType

LEMMA RecorderGoes ==
  ASSUME RecorderType, NEW r \in Recorders, NEW at \in RecorderPlaces, Goes(r, at)
  PROVE  /\ RecorderType'
         /\ \A q \in Recorders \ {r} : rec'[q] = rec[q]
         /\ rec'[r].at = at /\ rec'[r].dir = rec[r].dir
         /\ rec'[r].name = rec[r].name /\ rec'[r].gone = rec[r].gone
<1> DEFINE x == [rec[r] EXCEPT !.at = at]
<1>1. rec' = [rec EXCEPT ![r] = x]
  BY Zenon DEF Goes
<1>2. rec[r] \in RecorderRecord
  BY RecorderIs
<1>3. /\ x \in RecorderRecord /\ x.at = at /\ x.dir = rec[r].dir
      /\ x.name = rec[r].name /\ x.gone = rec[r].gone
  BY <1>2 DEF RecorderRecord
<1> HIDE DEF x
<1> QED BY <1>1, <1>3, RecorderMoves, Zenon

LEMMA RecorderRests ==
  ASSUME RecorderType, NEW r \in Recorders, Rests(r)
  PROVE  RecorderType' /\ rec'[r] = IdleRec /\ \A q \in Recorders \ {r} : rec'[q] = rec[q]
<1>1. IdleRec \in RecorderRecord
  BY RecIndexAssumption DEF IdleRec, RecorderRecord, RecorderPlaces
<1>2. rec' = [rec EXCEPT ![r] = IdleRec]
  BY Zenon DEF Rests
<1> QED BY <1>1, <1>2, RecorderMoves, Zenon

LEMMA IndexMoves ==
  ASSUME idx \in [Days -> IndexRecord], NEW d \in Days, NEW x \in IndexRecord,
         idx' = [idx EXCEPT ![d] = x]
  PROVE  /\ idx' \in [Days -> IndexRecord] /\ idx'[d] = x
         /\ \A e \in Days \ {d} : idx'[e] = idx[e]
BY Zenon

LEMMA FilesMove ==
  ASSUME files \in [Days -> SUBSET Files], NEW d \in Days, NEW X \in SUBSET Files,
         files' = [files EXCEPT ![d] = X]
  PROVE  /\ files' \in [Days -> SUBSET Files] /\ files'[d] = X
         /\ \A e \in Days \ {d} : files'[e] = files[e]
BY Zenon

LEMMA NewIndex ==
  /\ NoIndex \in IndexRecord /\ CutIndex \in IndexRecord
  /\ \A list \in Seq(Nat) : Index(list) \in IndexRecord
BY DEF NoIndex, CutIndex, Index, IndexRecord

LEMMA PastParts ==
  ASSUME PastType
  PROVE  past.begun \in 0 .. MaxFiles /\ past.kept \subseteq Files /\ past.spoilt \subseteq Days
BY DEF PastType

LEMMA PastSpoilt ==
  ASSUME PastType, NEW d \in Days, NEW so \in BOOLEAN,
         past' = [past EXCEPT !.spoilt = Spoil(d, so)]
  PROVE  /\ PastType'
         /\ past'.begun = past.begun /\ past'.kept = past.kept
         /\ past'.spoilt = past.spoilt \cup (IF so THEN {d} ELSE {})
BY DEF PastType, Spoil

LEMMA PastKept ==
  ASSUME PastType, NEW X \in SUBSET Files, past' = [past EXCEPT !.kept = X]
  PROVE  /\ PastType'
         /\ past'.begun = past.begun /\ past'.kept = X /\ past'.spoilt = past.spoilt
BY DEF PastType

(* Removing a day's directory. *)
LEMMA RemoveDirIs ==
  ASSUME RecIndexType, NEW d \in Days, NEW u \in BOOLEAN, RemoveDir(d, u)
  PROVE  /\ dirs' = dirs \ {d}
         /\ files' \in [Days -> SUBSET Files] /\ files'[d] = {}
         /\ \A e \in Days \ {d} : files'[e] = files[e]
         /\ IndexType' /\ idx'[d] = NoIndex /\ \A e \in Days \ {d} : idx'[e] = idx[e]
         /\ RecorderType'
         /\ \A r \in Recorders :
              /\ rec'[r].at = rec[r].at /\ rec'[r].dir = rec[r].dir
              /\ rec'[r].name = rec[r].name
              /\ rec'[r].gone = (rec[r].dir = d \/ rec[r].gone)
         /\ PastType' /\ past'.begun = past.begun /\ past'.kept = past.kept
         /\ past'.spoilt = past.spoilt \cup (IF d \in dirs /\ u THEN {d} ELSE {})
<1> USE TypeParts
<1>1. dirs' = dirs \ {d}
  BY Zenon DEF RemoveDir
<1>2. /\ files' \in [Days -> SUBSET Files] /\ files'[d] = {}
      /\ \A e \in Days \ {d} : files'[e] = files[e]
  <2>1. files' = [files EXCEPT ![d] = {}]
    BY Zenon DEF RemoveDir
  <2> QED BY <2>1, FilesMove, Zenon DEF DiskType
<1>3. /\ idx' \in [Days -> IndexRecord] /\ idx'[d] = NoIndex
      /\ \A e \in Days \ {d} : idx'[e] = idx[e]
  <2>1. idx' = [idx EXCEPT ![d] = NoIndex]
    BY Zenon DEF RemoveDir
  <2> QED BY <2>1, IndexMoves, NewIndex, Zenon DEF IndexType
<1>4. IndexType'
  BY <1>1, <1>2, <1>3, Zenon DEF IndexType
<1>5. /\ PastType' /\ past'.begun = past.begun /\ past'.kept = past.kept
      /\ past'.spoilt = past.spoilt \cup (IF d \in dirs /\ u THEN {d} ELSE {})
  <2>1. past' = [past EXCEPT !.spoilt = Spoil(d, d \in dirs /\ u)]
    BY Zenon DEF RemoveDir
  <2>2. (d \in dirs /\ u) \in BOOLEAN
    BY Zenon
  <2> QED BY <2>1, <2>2, PastSpoilt, Zenon
<1>6. rec' = [r \in Recorders |-> IF rec[r].dir = d
                                    THEN [rec[r] EXCEPT !.gone = TRUE] ELSE rec[r]]
  BY Zenon DEF RemoveDir
<1>7. ASSUME NEW r \in Recorders
      PROVE  /\ rec'[r] \in RecorderRecord
             /\ rec'[r].at = rec[r].at /\ rec'[r].dir = rec[r].dir
             /\ rec'[r].name = rec[r].name
             /\ rec'[r].gone = (rec[r].dir = d \/ rec[r].gone)
  <2>1. rec[r] \in RecorderRecord /\ rec[r].gone \in BOOLEAN
    BY RecorderIs
  <2>2. CASE rec[r].dir = d
    <3> DEFINE x == [rec[r] EXCEPT !.gone = TRUE]
    <3>1. rec'[r] = x
      BY <1>6, <2>2, Zenon
    <3>2. /\ x \in RecorderRecord /\ x.at = rec[r].at /\ x.dir = rec[r].dir
          /\ x.name = rec[r].name /\ x.gone = TRUE
      BY <2>1 DEF RecorderRecord
    <3> HIDE DEF x
    <3> QED BY <3>1, <3>2, <2>2, Zenon
  <2>3. CASE rec[r].dir # d
    <3>1. rec'[r] = rec[r]
      BY <1>6, <2>3, Zenon
    <3>2. rec[r].gone = (rec[r].dir = d \/ rec[r].gone)
      BY <2>1, <2>3, Zenon
    <3> QED BY <3>1, <3>2, <2>1, Zenon
  <2> QED BY <2>2, <2>3, Zenon
<1>8. RecorderType'
  <2>1. rec' \in [Recorders -> RecorderRecord]
    BY <1>6, <1>7, Zenon
  <2> QED BY <2>1, Zenon DEF RecorderType
<1> QED BY <1>1, <1>2, <1>3, <1>4, <1>5, <1>7, <1>8, Zenon

(* A request joins the queue, or is lost when it is full. *)
LEMMA QueuedIs ==
  ASSUME QueueType, NEW d \in Days, NEW f \in 0 .. MaxFiles, Queued(d, f)
  PROVE  /\ QueueType'
         /\ \A e \in Days : \A g \in 0 .. MaxFiles :
              Asked(e, g)' => Asked(e, g) \/ (e = d /\ g = f)
<1> DEFINE x == <<d, f>>
<1>1. x \in Requests /\ Len(queue) \in Nat /\ queue \in Seq(Requests)
  BY DEF Requests, QueueType
<1>2. CASE Len(queue) < MaxQueue
  <2>1. queue' = Append(queue, x)
    BY <1>2, Zenon DEF Queued
  <2> HIDE DEF x
  <2>2. /\ queue' \in Seq(Requests) /\ Len(queue') = Len(queue) + 1
        /\ \A i \in 1 .. Len(queue) : queue'[i] = queue[i]
        /\ queue'[Len(queue) + 1] = x
    BY <2>1, <1>1, AppendProperties
  <2>3. \A i \in 1 .. Len(queue') : i \in 1 .. Len(queue) \/ i = Len(queue) + 1
    BY <2>2, <1>1
  <2>4. QueueType'
    BY <2>2, <1>1, <1>2, RecIndexAssumption DEF QueueType
  <2>5. \A y : Contains(queue', y) => Contains(queue, y) \/ y = x
    BY <2>2, <2>3, Zenon DEF Contains
  <2>6. ASSUME NEW e \in Days, NEW g \in 0 .. MaxFiles, Asked(e, g)'
        PROVE  Asked(e, g) \/ (e = d /\ g = f)
    <3>1. Contains(queue', <<e, g>>)
      BY <2>6, Zenon DEF Asked
    <3>2. Contains(queue, <<e, g>>) \/ <<e, g>> = x
      BY <3>1, <2>5, Zenon
    <3> QED BY <3>2, Zenon DEF Asked, x
  <2> QED BY <2>4, <2>6
<1>3. CASE ~ (Len(queue) < MaxQueue)
  <2>1. queue' = queue
    BY <1>3, Zenon DEF Queued
  <2> QED BY <2>1, Zenon DEF QueueType, Asked
<1> QED BY <1>2, <1>3

LEMMA QueueShrinks ==
  ASSUME QueueType, queue # <<>>, queue' = Tail(queue)
  PROVE  /\ QueueType'
         /\ \A e, g : Asked(e, g)' => Asked(e, g)
         /\ Head(queue)[1] \in Days /\ Head(queue)[2] \in 0 .. MaxFiles
         /\ Asked(Head(queue)[1], Head(queue)[2])
<1>1. queue \in Seq(Requests) /\ Len(queue) \in Nat /\ Len(queue) # 0
  BY DEF QueueType
<1>2. /\ Head(queue) \in Requests /\ queue' \in Seq(Requests)
      /\ Len(queue') = Len(queue) - 1
      /\ \A i \in 1 .. Len(queue') : queue'[i] = queue[i + 1]
  BY <1>1, HeadTailProperties
<1>3. QueueType'
  BY <1>1, <1>2, RecIndexAssumption DEF QueueType
<1>4. \A i \in 1 .. Len(queue') : i + 1 \in 1 .. Len(queue)
  BY <1>1, <1>2
<1>5. \A e, g : Asked(e, g)' => Asked(e, g)
  BY <1>2, <1>4, Zenon DEF Asked, Contains
<1>6. Head(queue) = queue[1] /\ 1 \in 1 .. Len(queue)
  BY <1>1
<1>7. /\ Head(queue)[1] \in Days /\ Head(queue)[2] \in 0 .. MaxFiles
      /\ Head(queue) = <<Head(queue)[1], Head(queue)[2]>>
  BY <1>2 DEF Requests
<1>8. Asked(Head(queue)[1], Head(queue)[2])
  <2>1. Contains(queue, Head(queue))
    BY <1>6, Zenon DEF Contains
  <2>2. Contains(queue, <<Head(queue)[1], Head(queue)[2]>>)
    BY <2>1, <1>7, Zenon
  <2> QED BY <2>2, Zenon DEF Asked
<1> QED BY <1>3, <1>5, <1>7, <1>8

LEMMA WithoutDayIs ==
  ASSUME dates \in Seq(Days), NEW d
  PROVE  WithoutDay(d) \in Seq(Days)
BY RemoveFirstSeq DEF WithoutDay

-----------------------------------------------------------------------------
(* What each step does to one recorder, one day, the queue: the facts the   *)
(* invariants are about.                                                    *)

OnlyRecorder(r) == \A q \in Recorders \ {r} : rec'[q] = rec[q]
OnlyFiles(d) == \A e \in Days \ {d} : files'[e] = files[e]
OnlyIndex(d) == \A e \in Days \ {d} : idx'[e] = idx[e]

LEMMA NoChange ==
  ASSUME RecIndexType
  PROVE  /\ UNCHANGED <<dates, dirs, files>> => DiskType'
         /\ UNCHANGED <<dirs, files, idx>> => IndexType'
         /\ UNCHANGED rec => RecorderType'
         /\ UNCHANGED app => AppType'
         /\ UNCHANGED queue => QueueType'
         /\ UNCHANGED idxlock => LockType'
         /\ UNCHANGED past => PastType'
         /\ idxlock' \in {"free", "app", "cleaner"} => LockType'
BY TypeParts, Zenon DEF Others, DiskType, IndexType, RecorderType, AppType, QueueType,
   LockType, PastType

LEMMA TypePartsNext ==
  RecIndexType' <=> /\ DiskType' /\ IndexType' /\ RecorderType' /\ AppType'
                    /\ QueueType' /\ LockType' /\ PastType'
BY TypeParts, PTL

(* The index of a day that has a directory is replaced. *)
LEMMA IndexReplaced ==
  ASSUME RecIndexType, NEW d \in Days, d \in dirs, NEW x \in IndexRecord,
         idx' = [idx EXCEPT ![d] = x], UNCHANGED <<dirs, files>>
  PROVE  IndexType' /\ idx'[d] = x /\ OnlyIndex(d)
<1>1. /\ idx' \in [Days -> IndexRecord] /\ idx'[d] = x
      /\ \A e \in Days \ {d} : idx'[e] = idx[e]
  BY TypeParts, IndexMoves, Zenon DEF IndexType
<1> QED BY <1>1, TypeParts, Zenon DEF IndexType, OnlyIndex

LEMMA DoesLookForDir ==
  ASSUME RecIndexType, NEW r \in Recorders, NEW d \in Days, LookForDir(r, d)
  PROVE  /\ RecIndexType' /\ rec[r].at = "idle" /\ OnlyRecorder(r)
         /\ rec'[r].at \in {"ready", "absent"} /\ rec'[r].dir = d
         /\ UNCHANGED <<dates, dirs, files, idx, app, queue, idxlock, past>>
<1> DEFINE at == IF d \in dirs THEN "ready" ELSE "absent"
           x == [IdleRec EXCEPT !.dir = d, !.at = at]
<1>1. /\ rec' = [rec EXCEPT ![r] = x] /\ rec[r].at = "idle"
      /\ UNCHANGED <<dates, dirs, files, idx, app, queue, idxlock, past>>
  BY Zenon DEF LookForDir
<1>2. x \in RecorderRecord /\ x.at \in {"ready", "absent"} /\ x.dir = d
  <2>1. at \in {"ready", "absent"}
    BY Zenon
  <2>2. d \in 0 .. MaxDay /\ 0 \in 0 .. MaxFiles /\ 0 \in 0 .. MaxDay
    BY RecIndexAssumption DEF Days
  <2> HIDE DEF at
  <2>3. IdleRec \in RecorderRecord
    BY <2>2 DEF IdleRec, RecorderRecord, RecorderPlaces
  <2> QED BY <2>1, <2>2, <2>3 DEF RecorderRecord, RecorderPlaces
<1> HIDE DEF x
<1>3. RecorderType' /\ OnlyRecorder(r) /\ rec'[r] = x
  BY <1>1, <1>2, TypeParts, RecorderMoves, Zenon DEF OnlyRecorder
<1>4. RecIndexType'
  BY <1>1, <1>3, NoChange, TypePartsNext, Zenon
<1> QED BY <1>1, <1>2, <1>3, <1>4, Zenon

LEMMA DoesMakeDir ==
  ASSUME RecIndexType, LockInv, NEW r \in Recorders, MakeDir(r)
  PROVE  /\ RecIndexType' /\ rec[r].at = "absent" /\ OnlyRecorder(r)
         /\ rec'[r].at = "made" /\ rec'[r].dir = rec[r].dir
         /\ rec[r].dir \in Days /\ dirs' = dirs \cup {rec[r].dir}
         /\ UNCHANGED <<dates, files, idx, app, queue, idxlock, past>>
<1>1. /\ Goes(r, "made") /\ dirs' = dirs \cup {rec[r].dir} /\ rec[r].at = "absent"
      /\ UNCHANGED <<dates, files, idx, app, queue, idxlock, past>>
  BY Zenon DEF MakeDir
<1>2. rec[r].dir \in Days
  BY <1>1, Zenon DEF LockInv
<1>3. RecorderType' /\ OnlyRecorder(r) /\ rec'[r].at = "made" /\ rec'[r].dir = rec[r].dir
  BY <1>1, TypeParts, RecorderGoes, Zenon DEF RecorderPlaces, OnlyRecorder
<1>4. DiskType' /\ IndexType'
  BY <1>1, <1>2, TypeParts, Zenon DEF DiskType, IndexType
<1>5. RecIndexType'
  BY <1>1, <1>3, <1>4, NoChange, TypePartsNext, Zenon
<1> QED BY <1>1, <1>2, <1>3, <1>5, Zenon

LEMMA DoesListDay ==
  ASSUME RecIndexType, LockInv, NEW r \in Recorders, ListDay(r)
  PROVE  /\ RecIndexType' /\ rec[r].at = "made" /\ OnlyRecorder(r)
         /\ rec'[r].at = "listed" /\ rec'[r].dir = rec[r].dir /\ idxlock = "free"
         /\ UNCHANGED <<dirs, files, idx, app, queue, idxlock, past>>
<1>1. /\ Goes(r, "listed") /\ dates' = Append(dates, rec[r].dir) /\ rec[r].at = "made"
      /\ idxlock = "free" /\ UNCHANGED <<dirs, files, idx, app, queue, idxlock, past>>
  BY Zenon DEF ListDay
<1>2. rec[r].dir \in Days
  BY <1>1, Zenon DEF LockInv
<1>3. /\ RecorderType' /\ OnlyRecorder(r) /\ rec'[r].at = "listed"
      /\ rec'[r].dir = rec[r].dir
  BY <1>1, TypeParts, RecorderGoes, Zenon DEF RecorderPlaces, OnlyRecorder
<1>4. dates' \in Seq(Days)
  BY <1>1, <1>2, TypeParts, AppendProperties DEF DiskType
<1>5. DiskType'
  BY <1>1, <1>4, TypeParts, Zenon DEF DiskType
<1>6. RecIndexType'
  BY <1>1, <1>3, <1>5, NoChange, TypePartsNext, Zenon
<1> QED BY <1>1, <1>3, <1>6, Zenon

LEMMA DoesMakeIndex ==
  ASSUME RecIndexType, LockInv, NEW r \in Recorders, MakeIndex(r)
  PROVE  LET d == rec[r].dir IN
         /\ RecIndexType' /\ rec[r].at = "listed" /\ OnlyRecorder(r)
         /\ rec'[r].at = "ready" /\ rec'[r].dir = d
         /\ d \in Days /\ OnlyIndex(d)
         /\ idx'[d] = IF d \in dirs THEN Index(<<>>) ELSE idx[d]
         /\ past'.begun = past.begun /\ past'.kept = past.kept
         /\ past'.spoilt = past.spoilt \cup
              (IF InUse(d) \/ idx[d].totol > 0 THEN {d} ELSE {})
         /\ UNCHANGED <<dates, dirs, files, app, queue, idxlock>>
<1> DEFINE d == rec[r].dir   so == InUse(d) \/ idx[d].totol > 0
<1>1. /\ Goes(r, "ready") /\ rec[r].at = "listed"
      /\ idx' = IF d \in dirs THEN [idx EXCEPT ![d] = Index(<<>>)] ELSE idx
      /\ past' = [past EXCEPT !.spoilt = Spoil(d, so)]
      /\ UNCHANGED <<dates, dirs, files, app, queue, idxlock>>
  BY Zenon DEF MakeIndex
<1>2. d \in Days /\ so \in BOOLEAN
  BY <1>1, Zenon DEF LockInv
<1>3. /\ RecorderType' /\ OnlyRecorder(r) /\ rec'[r].at = "ready" /\ rec'[r].dir = d
  BY <1>1, TypeParts, RecorderGoes, Zenon DEF RecorderPlaces, OnlyRecorder
<1> HIDE DEF d, so
<1>4. /\ PastType' /\ past'.begun = past.begun /\ past'.kept = past.kept
      /\ past'.spoilt = past.spoilt \cup (IF so THEN {d} ELSE {})
  BY <1>1, <1>2, TypeParts, PastSpoilt, Zenon
<1>5. Index(<<>>) \in IndexRecord
  BY NewIndex, EmptySeq
<1>6. IndexType' /\ OnlyIndex(d) /\ idx'[d] = IF d \in dirs THEN Index(<<>>) ELSE idx[d]
  <2>1. CASE d \in dirs
    BY <2>1, <1>1, <1>2, <1>5, IndexReplaced, Zenon
  <2>2. CASE d \notin dirs
    BY <2>2, <1>1, NoChange, Zenon DEF OnlyIndex
  <2> QED BY <2>1, <2>2
<1>7. RecIndexType'
  BY <1>1, <1>3, <1>4, <1>6, NoChange, TypePartsNext, Zenon
<1> QED BY <1>1, <1>2, <1>3, <1>4, <1>6, <1>7, Zenon DEF d, so

LEMMA DoesOpenRecording ==
  ASSUME RecIndexType, NEW r \in Recorders, OpenRecording(r)
  PROVE  LET d == rec[r].dir   f == past.begun + 1 IN
         /\ RecIndexType' /\ rec[r].at = "ready" /\ OnlyRecorder(r)
         /\ rec'[r].at = "open" /\ rec'[r].dir = d /\ rec'[r].name = f
         /\ d \in Days /\ d \in dirs /\ f \in Files
         /\ OnlyFiles(d) /\ files'[d] = files[d] \cup {f}
         /\ past'.begun = f /\ past'.kept = past.kept /\ past'.spoilt = past.spoilt
         /\ UNCHANGED <<dates, dirs, idx, app, queue, idxlock>>
<1> DEFINE d == rec[r].dir   f == past.begun + 1
           x == [rec[r] EXCEPT !.at = "open", !.name = f]
           X == files[d] \cup {f}
<1> USE TypeParts
<1>1. /\ rec[r].at = "ready" /\ d \in dirs /\ past.begun < MaxFiles
      /\ rec' = [rec EXCEPT ![r].at = "open", ![r].name = f]
      /\ files' = [files EXCEPT ![d] = X]
      /\ past' = [past EXCEPT !.begun = f]
      /\ UNCHANGED <<dates, dirs, idx, app, queue, idxlock>>
  BY Zenon DEF OpenRecording
<1>2. d \in Days
  BY <1>1, Zenon DEF DiskType
<1>3. f \in Files /\ f \in 0 .. MaxFiles
  BY <1>1, RecIndexAssumption DEF PastType, Files
<1>4. /\ rec' = [rec EXCEPT ![r] = x] /\ x \in RecorderRecord
      /\ x.at = "open" /\ x.dir = d /\ x.name = f
  <2>1. rec[r] \in RecorderRecord
    BY RecorderIs
  <2>2. x \in RecorderRecord /\ x.at = "open" /\ x.dir = d /\ x.name = f
    BY <2>1, <1>3 DEF RecorderRecord, RecorderPlaces
  <2> QED BY <1>1, <2>1, <2>2 DEF RecorderType, RecorderRecord
<1>5. /\ PastType' /\ past'.begun = f /\ past'.kept = past.kept
      /\ past'.spoilt = past.spoilt
  BY <1>1, <1>3 DEF PastType
<1> HIDE DEF d, f, x
<1>6. RecorderType' /\ OnlyRecorder(r) /\ rec'[r] = x
  BY <1>4, RecorderMoves, Zenon DEF OnlyRecorder
<1>7. X \in SUBSET Files
  BY <1>2, <1>3, Zenon DEF DiskType
<1>8. files' \in [Days -> SUBSET Files] /\ files'[d] = X /\ OnlyFiles(d)
  <2> HIDE DEF X
  <2> QED BY <1>1, <1>2, <1>7, FilesMove, Zenon DEF DiskType, OnlyFiles
<1>9. DiskType' /\ IndexType'
  BY <1>1, <1>8, Zenon DEF DiskType, IndexType, OnlyFiles
<1>10. RecIndexType'
  BY <1>1, <1>5, <1>6, <1>9, NoChange, TypePartsNext, Zenon
<1> QED BY <1>1, <1>2, <1>3, <1>4, <1>5, <1>6, <1>8, <1>10, Zenon DEF d, f

LEMMA DoesOpenFails ==
  ASSUME RecIndexType, NEW r \in Recorders, OpenFails(r)
  PROVE  /\ RecIndexType' /\ rec[r].at = "ready" /\ OnlyRecorder(r) /\ rec'[r] = IdleRec
         /\ UNCHANGED <<dates, dirs, files, idx, app, queue, idxlock, past>>
<1>1. /\ rec[r].at = "ready" /\ Rests(r)
      /\ UNCHANGED <<dates, dirs, files, idx, app, queue, idxlock, past>>
  BY Zenon DEF OpenFails
<1>2. RecorderType' /\ OnlyRecorder(r) /\ rec'[r] = IdleRec
  BY <1>1, TypeParts, RecorderRests, Zenon DEF OnlyRecorder
<1> QED BY <1>1, <1>2, NoChange, TypePartsNext, Zenon

LEMMA DoesDropRecording ==
  ASSUME RecIndexType, LockInv, NEW r \in Recorders, DropRecording(r)
  PROVE  LET d == rec[r].dir IN
         /\ RecIndexType' /\ rec[r].at = "open" /\ OnlyRecorder(r) /\ rec'[r] = IdleRec
         /\ d \in Days
         /\ OnlyFiles(d) /\ files'[d] = files[d] \ {rec[r].name}
         /\ UNCHANGED <<dates, dirs, idx, app, queue, idxlock, past>>
<1> DEFINE d == rec[r].dir   X == files[d] \ {rec[r].name}
<1> USE TypeParts
<1>1. /\ Rests(r) /\ files' = [files EXCEPT ![d] = X] /\ rec[r].at = "open"
      /\ UNCHANGED <<dates, dirs, idx, app, queue, idxlock, past>>
  BY Zenon DEF DropRecording
<1>2. d \in Days
  BY <1>1, Zenon DEF LockInv
<1>3. RecorderType' /\ OnlyRecorder(r) /\ rec'[r] = IdleRec
  BY <1>1, RecorderRests, Zenon DEF OnlyRecorder
<1> HIDE DEF d
<1>4. X \in SUBSET Files /\ X \subseteq files[d]
  BY <1>2, Zenon DEF DiskType
<1>5. files' \in [Days -> SUBSET Files] /\ files'[d] = X /\ OnlyFiles(d)
  <2> HIDE DEF X
  <2> QED BY <1>1, <1>2, <1>4, FilesMove, Zenon DEF DiskType, OnlyFiles
<1>6. \A e \in Days : files'[e] \subseteq files[e]
  <2> SUFFICES ASSUME NEW e \in Days PROVE files'[e] \subseteq files[e]
    OBVIOUS
  <2> HIDE DEF X
  <2>1. CASE e = d
    BY <2>1, <1>4, <1>5, Zenon
  <2>2. CASE e # d
    BY <2>2, <1>5, Zenon DEF OnlyFiles
  <2> QED BY <2>1, <2>2
<1>7. DiskType' /\ IndexType'
  BY <1>1, <1>5, <1>6, Zenon DEF DiskType, IndexType
<1>8. RecIndexType'
  BY <1>1, <1>3, <1>7, NoChange, TypePartsNext, Zenon
<1> QED BY <1>1, <1>2, <1>3, <1>5, <1>8, Zenon DEF d

LEMMA DoesStartIndex ==
  ASSUME RecIndexType, LockInv, OwnInv, NEW r \in Recorders, StartIndex(r)
  PROVE  LET d == rec[r].dir   f == rec[r].name IN
         /\ RecIndexType' /\ rec[r].at = "open" /\ OnlyRecorder(r) /\ rec'[r] = IdleRec
         /\ d \in Days /\ f \in Files /\ idxlock = "free" /\ idx[d].state # "good"
         /\ OnlyIndex(d)
         /\ idx'[d] = IF d \in dirs THEN Index(<<f>>) ELSE idx[d]
         /\ past'.begun = past.begun /\ past'.spoilt = past.spoilt
         /\ past'.kept = past.kept \cup (IF d \in dirs THEN {f} ELSE {})
         /\ UNCHANGED <<dates, dirs, files, app, queue, idxlock>>
<1> DEFINE d == rec[r].dir   f == rec[r].name
<1> USE TypeParts
<1>1. /\ Rests(r) /\ rec[r].at = "open" /\ idxlock = "free" /\ idx[d].state # "good"
      /\ UNCHANGED <<dates, dirs, files, app, queue, idxlock>>
  BY Zenon DEF StartIndex
<1>2. /\ d \in dirs => /\ idx' = [idx EXCEPT ![d] = Index(<<f>>)]
                       /\ past' = [past EXCEPT !.kept = @ \cup {f}]
      /\ d \notin dirs => UNCHANGED <<idx, past>>
  BY Zenon DEF StartIndex
<1>3. d \in Days
  BY <1>1, Zenon DEF LockInv
<1>4. f \in Files /\ f \in Nat
  <2>1. f \in 1 .. past.begun
    BY <1>1, Zenon DEF OwnInv, Writing
  <2> HIDE DEF f
  <2> QED BY <2>1, PastParts, RecIndexAssumption DEF Files
<1>5. RecorderType' /\ OnlyRecorder(r) /\ rec'[r] = IdleRec
  BY <1>1, RecorderRests, Zenon DEF OnlyRecorder
<1> HIDE DEF d, f
<1>6. Index(<<f>>) \in IndexRecord
  <2>1. <<f>> \in Seq(Nat)
    BY <1>4
  <2> QED BY <2>1, NewIndex, Zenon
<1>7. CASE d \in dirs
  <2>1. IndexType' /\ OnlyIndex(d) /\ idx'[d] = Index(<<f>>)
    BY <1>1, <1>2, <1>3, <1>6, <1>7, IndexReplaced, Zenon
  <2> DEFINE X == past.kept \cup {f}
  <2>2. X \in SUBSET Files
    BY <1>4, PastParts, Zenon
  <2>3. past' = [past EXCEPT !.kept = X]
    BY <1>2, <1>7
  <2> HIDE DEF X
  <2>4. /\ PastType' /\ past'.begun = past.begun /\ past'.kept = X
        /\ past'.spoilt = past.spoilt
    BY <2>2, <2>3, PastKept, Zenon
  <2>5. RecIndexType'
    BY <1>1, <1>5, <2>1, <2>4, NoChange, TypePartsNext, Zenon
  <2> QED BY <1>1, <1>3, <1>4, <1>5, <1>7, <2>1, <2>4, <2>5, Zenon DEF d, f, X
<1>8. CASE d \notin dirs
  <2>1. RecIndexType'
    BY <1>1, <1>2, <1>5, <1>8, NoChange, TypePartsNext, Zenon
  <2>2. past.kept = past.kept \cup {}
    BY Zenon
  <2> QED BY <1>1, <1>2, <1>3, <1>4, <1>5, <1>8, <2>1, <2>2, Zenon DEF d, f, OnlyIndex
<1> QED BY <1>7, <1>8

LEMMA DoesWriteEntry ==
  ASSUME RecIndexType, LockInv, OwnInv, NEW r \in Recorders, WriteEntry(r)
  PROVE  LET d == rec[r].dir   f == rec[r].name   i == idx[d].totol + 1 IN
         /\ RecIndexType' /\ rec[r].at = "open" /\ OnlyRecorder(r)
         /\ rec'[r].at = "entry" /\ rec'[r].dir = d /\ rec'[r].name = f
         /\ rec'[r].gone = FALSE
         /\ d \in Days /\ d \in dirs /\ idxlock = "free" /\ idx[d].state = "good"
         /\ idxlock' = r
         /\ OnlyIndex(d)
         /\ idx'[d].state = "good" /\ idx'[d].totol = idx[d].totol
         /\ i <= Len(idx'[d].list) /\ idx'[d].list[i] = f
         /\ \A j \in 1 .. Len(idx[d].list) : j # i => idx'[d].list[j] = idx[d].list[j]
         /\ Len(idx[d].list) <= Len(idx'[d].list)
         /\ \A g \in Entries(idx'[d].list) : g \in Entries(idx[d].list) \cup {0, f}
         /\ UNCHANGED <<dates, dirs, files, app, queue, past>>
<1> DEFINE d == rec[r].dir   f == rec[r].name   i == idx[d].totol + 1
           x == [rec[r] EXCEPT !.at = "entry", !.gone = FALSE]
           y == PutAt(idx[d], i, f)
<1> USE TypeParts
<1>1. /\ rec[r].at = "open" /\ idxlock = "free" /\ idx[d].state = "good"
      /\ rec' = [rec EXCEPT ![r].at = "entry", ![r].gone = FALSE]
      /\ idxlock' = r
      /\ UNCHANGED <<dates, dirs, files, app, queue, past>>
  BY Zenon DEF WriteEntry
<1>2. idx' = [idx EXCEPT ![d] = y]
  BY Zenon DEF WriteEntry, FirstWrite
<1>3. d \in Days /\ f \in 0 .. MaxFiles
  BY <1>1, RecorderIs, Zenon DEF LockInv
<1>4. d \in dirs
  <2> HIDE DEF d
  <2>1. d \notin dirs => idx[d] = NoIndex
    BY <1>3, Zenon DEF IndexType
  <2> QED BY <1>1, <2>1 DEF NoIndex
<1>5. /\ rec' = [rec EXCEPT ![r] = x] /\ x \in RecorderRecord
      /\ x.at = "entry" /\ x.dir = d /\ x.name = f /\ x.gone = FALSE
  <2>1. rec[r] \in RecorderRecord
    BY RecorderIs
  <2>2. x \in RecorderRecord /\ x.at = "entry" /\ x.dir = d /\ x.name = f /\ x.gone = FALSE
    BY <2>1 DEF RecorderRecord, RecorderPlaces
  <2> QED BY <1>1, <2>1, <2>2 DEF RecorderType, RecorderRecord
<1> HIDE DEF x
<1>6. RecorderType' /\ OnlyRecorder(r) /\ rec'[r] = x
  BY <1>5, RecorderMoves, Zenon DEF OnlyRecorder
<1> HIDE DEF d, f
<1>7. idx[d] \in IndexRecord /\ i \in Nat \ {0} /\ f \in Nat
  <2>1. idx[d] \in IndexRecord
    BY <1>3, Zenon DEF IndexType
  <2> QED BY <2>1, <1>3 DEF IndexRecord
<1> HIDE DEF i
<1>8. /\ y \in IndexRecord
      /\ y.state = idx[d].state /\ y.totol = idx[d].totol
      /\ i <= Len(y.list) /\ y.list[i] = f
      /\ \A j \in 1 .. Len(idx[d].list) : j # i => y.list[j] = idx[d].list[j]
      /\ Len(idx[d].list) <= Len(y.list)
      /\ \A g \in Entries(y.list) : g \in Entries(idx[d].list) \cup {0, f}
  BY <1>7, PutAtIs, Zenon
<1> HIDE DEF y
<1>9. IndexType' /\ OnlyIndex(d) /\ idx'[d] = y
  BY <1>1, <1>2, <1>3, <1>4, <1>8, IndexReplaced, Zenon
<1>10. LockType'
  BY <1>1, Zenon DEF LockType, Others
<1>11. RecIndexType'
  BY <1>1, <1>6, <1>9, <1>10, NoChange, TypePartsNext, Zenon
<1>12. /\ rec'[r].at = "entry" /\ rec'[r].dir = d /\ rec'[r].name = f
       /\ rec'[r].gone = FALSE
  BY <1>5, <1>6, Zenon
<1>13. /\ idx'[d].state = "good" /\ idx'[d].totol = idx[d].totol
       /\ i <= Len(idx'[d].list) /\ idx'[d].list[i] = f
       /\ \A j \in 1 .. Len(idx[d].list) : j # i => idx'[d].list[j] = idx[d].list[j]
       /\ Len(idx[d].list) <= Len(idx'[d].list)
       /\ \A g \in Entries(idx'[d].list) : g \in Entries(idx[d].list) \cup {0, f}
  BY <1>1, <1>8, <1>9, Zenon
<1> QED BY <1>1, <1>3, <1>4, <1>6, <1>9, <1>11, <1>12, <1>13, Zenon DEF d, f, i

LEMMA DoesWriteHead ==
  ASSUME RecIndexType, LockInv, OwnInv, FormInv, NEW r \in Recorders, WriteHead(r)
  PROVE  LET d == rec[r].dir   f == rec[r].name IN
         /\ RecIndexType' /\ rec[r].at = "entry" /\ OnlyRecorder(r) /\ rec'[r] = IdleRec
         /\ d \in Days /\ f \in Files /\ idxlock = r /\ idxlock' = "free"
         /\ OnlyIndex(d)
         /\ idx'[d].list = idx[d].list /\ idx'[d].state = idx[d].state
         /\ idx'[d].totol = IF rec[r].gone THEN idx[d].totol ELSE idx[d].totol + 1
         /\ past'.begun = past.begun /\ past'.spoilt = past.spoilt
         /\ past'.kept = past.kept \cup (IF rec[r].gone THEN {} ELSE {f})
         /\ rec[r].gone => idx'[d] = idx[d]
         /\ ~rec[r].gone => d \in dirs /\ idx[d].state = "good"
         /\ UNCHANGED <<dates, dirs, files, app, queue>>
<1> DEFINE d == rec[r].dir   f == rec[r].name
           y == Headed(idx[d])
<1> USE TypeParts
<1>1. /\ Rests(r) /\ rec[r].at = "entry" /\ idxlock' = "free"
      /\ UNCHANGED <<dates, dirs, files, app, queue>>
  BY Zenon DEF WriteHead
<1>2. /\ ~rec[r].gone => /\ idx' = [idx EXCEPT ![d] = y]
                         /\ past' = [past EXCEPT !.kept = @ \cup {f}]
      /\ rec[r].gone => UNCHANGED <<idx, past>>
  BY Zenon DEF WriteHead, LastWrite
<1>3. d \in Days /\ idxlock = r
  BY <1>1, Zenon DEF LockInv
<1>4. f \in Files
  <2>1. f \in 1 .. past.begun
    BY <1>1, Zenon DEF OwnInv, Writing
  <2> HIDE DEF f
  <2> QED BY <2>1, PastParts, RecIndexAssumption DEF Files
<1>5. RecorderType' /\ OnlyRecorder(r) /\ rec'[r] = IdleRec
  BY <1>1, RecorderRests, Zenon DEF OnlyRecorder
<1>6. CASE ~rec[r].gone
  <2>1. d \in dirs /\ idx[d].state = "good"
    BY <1>1, <1>6, Zenon DEF FormInv
  <2> HIDE DEF d, f
  <2>2. idx[d] \in IndexRecord
    BY <1>3, Zenon DEF IndexType
  <2>3. /\ y \in IndexRecord /\ y.list = idx[d].list /\ y.state = idx[d].state
        /\ y.totol = idx[d].totol + 1
    BY <2>2 DEF Headed, IndexRecord
  <2> HIDE DEF y
  <2>4. IndexType' /\ OnlyIndex(d) /\ idx'[d] = y
    BY <1>1, <1>2, <1>3, <1>6, <2>1, <2>3, IndexReplaced, Zenon
  <2> DEFINE X == past.kept \cup {f}
  <2>5. X \in SUBSET Files
    BY <1>4, PastParts, Zenon
  <2>6. past' = [past EXCEPT !.kept = X]
    BY <1>2, <1>6
  <2> HIDE DEF X
  <2>7. /\ PastType' /\ past'.begun = past.begun /\ past'.kept = X
        /\ past'.spoilt = past.spoilt
    BY <2>5, <2>6, PastKept, Zenon
  <2>8. RecIndexType'
    BY <1>1, <1>5, <2>4, <2>7, NoChange, TypePartsNext, Zenon
  <2> QED BY <1>1, <1>3, <1>4, <1>5, <1>6, <2>1, <2>3, <2>4, <2>7, <2>8, Zenon DEF d, f, X
<1>7. CASE rec[r].gone
  <2>1. RecIndexType'
    BY <1>1, <1>2, <1>5, <1>7, NoChange, TypePartsNext, Zenon
  <2>2. past.kept = past.kept \cup {}
    BY Zenon
  <2> QED BY <1>1, <1>2, <1>3, <1>4, <1>5, <1>7, <2>1, <2>2, Zenon DEF d, f, OnlyIndex
<1> QED BY <1>6, <1>7

LEMMA DoesDeleteDay ==
  ASSUME RecIndexType, NEW d \in Days, DeleteDay(d)
  PROVE  /\ RecIndexType' /\ idxlock = "free"
         /\ \A e \in Days : \A g \in 0 .. MaxFiles :
              Asked(e, g)' => Asked(e, g) \/ (e = d /\ g = 0)
         /\ UNCHANGED <<dirs, files, idx, rec, app, idxlock, past>>
<1> USE TypeParts
<1>1. /\ dates' = WithoutDay(d) /\ Queued(d, 0) /\ idxlock = "free"
      /\ UNCHANGED <<dirs, files, idx, rec, app, idxlock, past>>
  BY Zenon DEF DeleteDay
<1>2. dates' \in Seq(Days)
  BY <1>1, WithoutDayIs DEF DiskType
<1>3. 0 \in 0 .. MaxFiles
  BY RecIndexAssumption
<1>4. /\ QueueType'
      /\ \A e \in Days : \A g \in 0 .. MaxFiles :
           Asked(e, g)' => Asked(e, g) \/ (e = d /\ g = 0)
  BY <1>1, <1>3, QueuedIs, Zenon
<1>5. DiskType'
  BY <1>1, <1>2, Zenon DEF DiskType
<1>6. RecIndexType'
  BY <1>1, <1>4, <1>5, NoChange, TypePartsNext, Zenon
<1> QED BY <1>1, <1>4, <1>6, Zenon

LEMMA DoesImportIndex ==
  ASSUME RecIndexType, NEW d \in Days, ImportIndex(d)
  PROVE  /\ RecIndexType' /\ idxlock = "free" /\ idx[d].state = "good" /\ d \in dirs
         /\ app.at = "idle" /\ app'.at = "has" /\ app'.dir = d /\ app'.gone = FALSE
         /\ app'.list = Counted(d) /\ idxlock' = "app"
         /\ UNCHANGED <<dates, dirs, files, idx, rec, queue, past>>
<1> USE TypeParts
<1>1. /\ app.at = "idle" /\ idxlock = "free" /\ idx[d].state = "good"
      /\ app' = [at |-> "has", dir |-> d, list |-> Counted(d), gone |-> FALSE]
      /\ idxlock' = "app"
      /\ UNCHANGED <<dates, dirs, files, idx, rec, queue, past>>
  BY Zenon DEF ImportIndex
<1>2. d \in dirs
  <2>1. d \notin dirs => idx[d] = NoIndex
    BY Zenon DEF IndexType
  <2> QED BY <1>1, <2>1 DEF NoIndex
<1>3. Counted(d) \in Seq(Nat)
  BY CountedIs, Zenon DEF IndexType
<1>4. d \in 0 .. MaxDay
  BY RecIndexAssumption DEF Days
<1>5. app' \in AppRecord
  BY <1>1, <1>3, <1>4 DEF AppRecord
<1>6. AppType' /\ LockType'
  BY <1>1, <1>5, Zenon DEF AppType, LockType, Others
<1>7. RecIndexType'
  BY <1>1, <1>6, NoChange, TypePartsNext, Zenon
<1>8. app'.at = "has" /\ app'.dir = d /\ app'.gone = FALSE /\ app'.list = Counted(d)
  BY <1>1
<1> QED BY <1>1, <1>2, <1>7, <1>8, Zenon

LEMMA DoesDropEntry ==
  ASSUME RecIndexType, LockInv, NEW f \in Files, DropEntry(f)
  PROVE  /\ RecIndexType'
         /\ app.at = "has" /\ Contains(app.list, f) /\ app.list \in Seq(Nat)
         /\ app'.at = "has" /\ app'.dir = app.dir /\ app'.gone = app.gone
         /\ app'.list = RemoveFirst(app.list, f)
         /\ \A e \in Days : \A g \in 0 .. MaxFiles :
              Asked(e, g)' => Asked(e, g) \/ (e = app.dir /\ g = f)
         /\ past'.begun = past.begun /\ past'.spoilt = past.spoilt
         /\ past'.kept = past.kept \ {f}
         /\ UNCHANGED <<dates, dirs, files, idx, rec, idxlock>>
<1> DEFINE t == RemoveFirst(app.list, f)   X == past.kept \ {f}
<1> USE TypeParts
<1>1. /\ app.at = "has" /\ Contains(app.list, f)
      /\ app' = [app EXCEPT !.list = t] /\ Queued(app.dir, f)
      /\ past' = [past EXCEPT !.kept = X]
      /\ UNCHANGED <<dates, dirs, files, idx, rec, idxlock>>
  BY Zenon DEF DropEntry, Without
<1>2. app \in AppRecord /\ app.list \in Seq(Nat)
  BY DEF AppType, AppRecord
<1>3. t \in Seq(Nat)
  BY <1>2, RemoveFirstSeq
<1>4. app.dir \in Days /\ f \in 0 .. MaxFiles
  <2>1. app.dir \in Days
    BY <1>1, Zenon DEF LockInv
  <2> QED BY <2>1, RecIndexAssumption DEF Files
<1>5. X \in SUBSET Files
  BY PastParts, Zenon
<1> HIDE DEF t, X
<1>6. /\ app' \in AppRecord /\ app'.at = "has" /\ app'.dir = app.dir
      /\ app'.gone = app.gone /\ app'.list = t
  BY <1>1, <1>2, <1>3 DEF AppRecord
<1>7. /\ QueueType'
      /\ \A e \in Days : \A g \in 0 .. MaxFiles :
           Asked(e, g)' => Asked(e, g) \/ (e = app.dir /\ g = f)
  BY <1>1, <1>4, QueuedIs, Zenon
<1>8. /\ PastType' /\ past'.begun = past.begun /\ past'.kept = X
      /\ past'.spoilt = past.spoilt
  BY <1>1, <1>5, PastKept, Zenon
<1>9. RecIndexType'
  BY <1>1, <1>6, <1>7, <1>8, NoChange, TypePartsNext, Zenon DEF AppType
<1> QED BY <1>1, <1>2, <1>6, <1>7, <1>8, <1>9, Zenon DEF t, X

(* The three ways a day's directory goes. *)
DirRemoved(d) ==
  /\ dirs' = dirs \ {d}
  /\ files'[d] = {} /\ OnlyFiles(d)
  /\ idx'[d] = NoIndex /\ OnlyIndex(d)
  /\ \A r \in Recorders :
       /\ rec'[r].at = rec[r].at /\ rec'[r].dir = rec[r].dir
       /\ rec'[r].name = rec[r].name
       /\ rec'[r].gone = (rec[r].dir = d \/ rec[r].gone)
  /\ past'.begun = past.begun /\ past'.kept = past.kept

LEMMA DirIsRemoved ==
  ASSUME RecIndexType, NEW d \in Days, NEW u \in BOOLEAN, RemoveDir(d, u)
  PROVE  /\ DirRemoved(d) /\ files' \in [Days -> SUBSET Files]
         /\ IndexType' /\ RecorderType' /\ PastType'
         /\ past'.spoilt = past.spoilt \cup (IF d \in dirs /\ u THEN {d} ELSE {})
<1>1. /\ dirs' = dirs \ {d}
      /\ files' \in [Days -> SUBSET Files] /\ files'[d] = {} /\ OnlyFiles(d)
  <2>1. /\ dirs' = dirs \ {d}
        /\ files' \in [Days -> SUBSET Files] /\ files'[d] = {}
        /\ \A e \in Days \ {d} : files'[e] = files[e]
    BY RemoveDirIs
  <2> QED BY <2>1, Zenon DEF OnlyFiles
<1>2. IndexType' /\ idx'[d] = NoIndex /\ OnlyIndex(d)
  BY RemoveDirIs, Zenon DEF OnlyIndex
<1>3. /\ RecorderType'
      /\ \A r \in Recorders :
           /\ rec'[r].at = rec[r].at /\ rec'[r].dir = rec[r].dir
           /\ rec'[r].name = rec[r].name
           /\ rec'[r].gone = (rec[r].dir = d \/ rec[r].gone)
  BY RemoveDirIs, Zenon
<1>4. /\ PastType' /\ past'.begun = past.begun /\ past'.kept = past.kept
      /\ past'.spoilt = past.spoilt \cup (IF d \in dirs /\ u THEN {d} ELSE {})
  BY RemoveDirIs
<1> QED BY <1>1, <1>2, <1>3, <1>4, Zenon DEF DirRemoved

LEMMA DoesReleaseEmpty ==
  ASSUME RecIndexType, LockInv, ReleaseEmpty
  PROVE  LET d == app.dir IN
         /\ RecIndexType' /\ d \in Days /\ app.at = "has" /\ idxlock = "app"
         /\ DirRemoved(d) /\ app' = IdleApp /\ idxlock' = "free"
         /\ past'.spoilt = past.spoilt \cup (IF d \in dirs /\ Recording(d) THEN {d} ELSE {})
         /\ UNCHANGED queue
<1> DEFINE d == app.dir
<1> USE TypeParts
<1>1. /\ app.at = "has" /\ app' = IdleApp /\ idxlock' = "free"
      /\ RemoveDir(d, Recording(d)) /\ dates' = WithoutDay(d) /\ UNCHANGED queue
  BY Zenon DEF ReleaseEmpty
<1>2. d \in Days /\ idxlock = "app" /\ Recording(d) \in BOOLEAN
  BY <1>1, Zenon DEF LockInv, Recording
<1> HIDE DEF d
<1>3. /\ DirRemoved(d) /\ files' \in [Days -> SUBSET Files]
      /\ IndexType' /\ RecorderType' /\ PastType'
      /\ past'.spoilt = past.spoilt \cup (IF d \in dirs /\ Recording(d) THEN {d} ELSE {})
  BY <1>1, <1>2, DirIsRemoved, Zenon
<1>4. dates' \in Seq(Days)
  BY <1>1, WithoutDayIs DEF DiskType
<1>5. DiskType'
  BY <1>3, <1>4, Zenon DEF DiskType, DirRemoved
<1>6. IdleApp \in AppRecord
  BY RecIndexAssumption DEF IdleApp, AppRecord
<1>7. AppType' /\ LockType'
  BY <1>1, <1>6, Zenon DEF AppType, LockType, Others
<1>8. RecIndexType'
  BY <1>1, <1>3, <1>5, <1>7, NoChange, TypePartsNext, Zenon
<1> QED BY <1>1, <1>2, <1>3, <1>8, Zenon DEF d

LEMMA DoesCutOff ==
  ASSUME RecIndexType, LockInv, CutOff
  PROVE  LET d == app.dir IN
         /\ RecIndexType' /\ d \in Days /\ app.at = "has" /\ idxlock = "app"
         /\ app'.at = "cut" /\ app'.dir = d /\ app'.list = app.list
         /\ app'.gone = (d \notin dirs)
         /\ OnlyIndex(d) /\ idx'[d] = IF d \in dirs THEN CutIndex ELSE idx[d]
         /\ UNCHANGED <<dates, dirs, files, rec, queue, idxlock, past>>
<1> DEFINE d == app.dir   gone == d \notin dirs
<1> USE TypeParts
<1>1. /\ app.at = "has" /\ app' = [app EXCEPT !.at = "cut", !.gone = gone]
      /\ idx' = IF d \in dirs THEN [idx EXCEPT ![d] = CutIndex] ELSE idx
      /\ UNCHANGED <<dates, dirs, files, rec, queue, idxlock, past>>
  BY Zenon DEF CutOff
<1>2. d \in Days /\ idxlock = "app" /\ gone \in BOOLEAN
  BY <1>1, Zenon DEF LockInv
<1>3. app \in AppRecord
  BY DEF AppType
<1> HIDE DEF gone
<1>4. /\ app' \in AppRecord /\ app'.at = "cut" /\ app'.dir = d /\ app'.list = app.list
      /\ app'.gone = gone
  BY <1>1, <1>2, <1>3 DEF AppRecord
<1> HIDE DEF d
<1>5. IndexType' /\ OnlyIndex(d) /\ idx'[d] = IF d \in dirs THEN CutIndex ELSE idx[d]
  <2>1. CASE d \in dirs
    BY <2>1, <1>1, <1>2, NewIndex, IndexReplaced, Zenon
  <2>2. CASE d \notin dirs
    BY <2>2, <1>1, NoChange, Zenon DEF OnlyIndex
  <2> QED BY <2>1, <2>2
<1>6. RecIndexType'
  BY <1>1, <1>4, <1>5, NoChange, TypePartsNext, Zenon DEF AppType
<1> QED BY <1>1, <1>2, <1>4, <1>5, <1>6, Zenon DEF d, gone

LEMMA DoesWriteList ==
  ASSUME RecIndexType, LockInv, WriteList
  PROVE  LET d == app.dir IN
         /\ RecIndexType' /\ d \in Days /\ app.at = "cut" /\ idxlock = "app"
         /\ app' = IdleApp /\ idxlock' = "free"
         /\ OnlyIndex(d)
         /\ idx'[d] = IF app.gone \/ d \notin dirs THEN idx[d] ELSE Index(app.list)
         /\ UNCHANGED <<dates, dirs, files, rec, queue, past>>
<1> DEFINE d == app.dir
<1> USE TypeParts
<1>1. /\ app.at = "cut" /\ app' = IdleApp /\ idxlock' = "free"
      /\ idx' = IF app.gone \/ d \notin dirs THEN idx ELSE [idx EXCEPT ![d] = Index(app.list)]
      /\ UNCHANGED <<dates, dirs, files, rec, queue, past>>
  BY Zenon DEF WriteList
<1>2. d \in Days /\ idxlock = "app"
  BY <1>1, Zenon DEF LockInv
<1>3. Index(app.list) \in IndexRecord
  <2>1. app.list \in Seq(Nat)
    BY DEF AppType, AppRecord
  <2> QED BY <2>1, NewIndex, Zenon
<1> HIDE DEF d
<1>4. /\ IndexType' /\ OnlyIndex(d)
      /\ idx'[d] = IF app.gone \/ d \notin dirs THEN idx[d] ELSE Index(app.list)
  <2>1. CASE ~ (app.gone \/ d \notin dirs)
    <3>1. d \in dirs /\ idx' = [idx EXCEPT ![d] = Index(app.list)]
      BY <2>1, <1>1, Zenon
    <3> QED BY <2>1, <3>1, <1>1, <1>2, <1>3, IndexReplaced, Zenon
  <2>2. CASE app.gone \/ d \notin dirs
    BY <2>2, <1>1, NoChange, Zenon DEF OnlyIndex
  <2> QED BY <2>1, <2>2
<1>5. IdleApp \in AppRecord
  BY RecIndexAssumption DEF IdleApp, AppRecord
<1>6. AppType' /\ LockType'
  BY <1>1, <1>5, Zenon DEF AppType, LockType, Others
<1>7. RecIndexType'
  BY <1>1, <1>4, <1>6, NoChange, TypePartsNext, Zenon
<1> QED BY <1>1, <1>2, <1>4, <1>7, Zenon DEF d

LEMMA DoesCarryOut ==
  ASSUME RecIndexType, CarryOut
  PROVE  LET d == Head(queue)[1]   f == Head(queue)[2] IN
         /\ RecIndexType' /\ d \in Days /\ f \in 0 .. MaxFiles /\ Asked(d, f)
         /\ \A e, g : Asked(e, g)' => Asked(e, g)
         /\ f = 0 => /\ DirRemoved(d)
                     /\ past'.spoilt = past.spoilt \cup
                          (IF d \in dirs /\ InUse(d) THEN {d} ELSE {})
         /\ f # 0 => /\ OnlyFiles(d) /\ files'[d] = files[d] \ {f}
                     /\ UNCHANGED <<dirs, idx, rec, past>>
         /\ UNCHANGED <<dates, app, idxlock>>
<1> DEFINE d == Head(queue)[1]   f == Head(queue)[2]
<1> USE TypeParts
<1>1. /\ queue # <<>> /\ queue' = Tail(queue)
      /\ f = 0 => RemoveDir(d, InUse(d))
      /\ f # 0 => /\ files' = [files EXCEPT ![d] = @ \ {f}]
                  /\ UNCHANGED <<dirs, idx, rec, past>>
      /\ UNCHANGED <<dates, app, idxlock>>
  BY Zenon DEF CarryOut
<1>2. /\ QueueType' /\ d \in Days /\ f \in 0 .. MaxFiles /\ Asked(d, f)
      /\ \A e, g : Asked(e, g)' => Asked(e, g)
  BY <1>1, QueueShrinks, Zenon
<1> HIDE DEF d, f
<1>3. CASE f = 0
  <2>1. InUse(d) \in BOOLEAN
    BY Zenon DEF InUse
  <2>2. /\ DirRemoved(d) /\ files' \in [Days -> SUBSET Files]
        /\ IndexType' /\ RecorderType' /\ PastType'
        /\ past'.spoilt = past.spoilt \cup (IF d \in dirs /\ InUse(d) THEN {d} ELSE {})
    BY <1>1, <1>2, <1>3, <2>1, DirIsRemoved, Zenon
  <2>3. DiskType'
    BY <1>1, <2>2, Zenon DEF DiskType, DirRemoved
  <2>4. RecIndexType'
    BY <1>1, <1>2, <2>2, <2>3, NoChange, TypePartsNext, Zenon
  <2> QED BY <1>1, <1>2, <1>3, <2>2, <2>4, Zenon DEF d, f
<1>4. CASE f # 0
  <2> DEFINE X == files[d] \ {f}
  <2>1. X \in SUBSET Files /\ X \subseteq files[d]
    BY <1>2, Zenon DEF DiskType
  <2>2. files' = [files EXCEPT ![d] = X]
    BY <1>1, <1>4, Zenon
  <2> HIDE DEF X
  <2>3. files' \in [Days -> SUBSET Files] /\ files'[d] = X /\ OnlyFiles(d)
    BY <1>2, <2>1, <2>2, FilesMove, Zenon DEF DiskType, OnlyFiles
  <2>4. ASSUME NEW e \in Days PROVE files'[e] \subseteq files[e]
    <3>1. CASE e = d
      BY <3>1, <2>1, <2>3, Zenon
    <3>2. CASE e # d
      BY <3>2, <2>3, Zenon DEF OnlyFiles
    <3> QED BY <3>1, <3>2
  <2>5. DiskType' /\ IndexType'
    BY <1>1, <1>4, <2>3, <2>4, Zenon DEF DiskType, IndexType
  <2>6. RecIndexType'
    BY <1>1, <1>2, <1>4, <2>5, NoChange, TypePartsNext, Zenon
  <2> QED BY <1>1, <1>2, <1>4, <2>3, <2>6, Zenon DEF d, f, X
<1> QED BY <1>3, <1>4

LEMMA DoesCleanBegins ==
  ASSUME RecIndexType, CleanBegins
  PROVE  /\ RecIndexType' /\ idxlock = "free" /\ dates # <<>> /\ idxlock' = "cleaner"
         /\ UNCHANGED <<dates, dirs, files, idx, rec, app, queue, past>>
BY TypeParts, NoChange, TypePartsNext, Zenon DEF CleanBegins

LEMMA DoesCleanEnds ==
  ASSUME RecIndexType, LockInv, CleanEnds
  PROVE  LET d == Head(dates) IN
         /\ RecIndexType' /\ d \in Days /\ idxlock = "cleaner" /\ idxlock' = "free"
         /\ DirRemoved(d)
         /\ past'.spoilt = past.spoilt \cup (IF d \in dirs /\ InUse(d) THEN {d} ELSE {})
         /\ UNCHANGED <<app, queue>>
<1> DEFINE d == Head(dates)
<1> USE TypeParts
<1>1. /\ idxlock = "cleaner" /\ idxlock' = "free" /\ RemoveDir(d, InUse(d))
      /\ dates' = Tail(dates) /\ UNCHANGED <<app, queue>>
  BY Zenon DEF CleanEnds
<1>2. dates # <<>> /\ dates \in Seq(Days)
  BY <1>1, Zenon DEF LockInv, DiskType
<1>3. d \in Days /\ dates' \in Seq(Days)
  BY <1>1, <1>2, HeadTailProperties
<1>4. InUse(d) \in BOOLEAN
  BY Zenon DEF InUse
<1> HIDE DEF d
<1>5. /\ DirRemoved(d) /\ files' \in [Days -> SUBSET Files]
      /\ IndexType' /\ RecorderType' /\ PastType'
      /\ past'.spoilt = past.spoilt \cup (IF d \in dirs /\ InUse(d) THEN {d} ELSE {})
  BY <1>1, <1>3, <1>4, DirIsRemoved, Zenon
<1>6. DiskType' /\ LockType'
  BY <1>1, <1>3, <1>5, Zenon DEF DiskType, DirRemoved, LockType, Others
<1>7. RecIndexType'
  BY <1>1, <1>5, <1>6, NoChange, TypePartsNext, Zenon
<1> QED BY <1>1, <1>3, <1>5, <1>7, Zenon DEF d

LEMMA FoundIs ==
  ASSUME RecIndexType, NEW d \in Days
  PROVE  /\ Found(d) \in IndexRecord
         /\ d \notin dirs => Found(d) = NoIndex
         /\ idx[d].state = "none" /\ files[d] # {} =>
              /\ Found(d).state = "good" /\ Found(d).totol = Len(Found(d).list)
              /\ Entries(Found(d).list) = files[d] /\ Distinct(Found(d).list)
         /\ ~ (idx[d].state = "none" /\ files[d] # {}) => Found(d) = idx[d]
<1>1. idx[d] \in IndexRecord /\ (d \notin dirs => files[d] = {} /\ idx[d] = NoIndex)
  BY TypeParts, Zenon DEF IndexType
<1>2. CASE idx[d].state = "none" /\ files[d] # {}
  <2> DEFINE s == InOrder(files[d])
  <2>1. files[d] \in SUBSET (1 .. MaxFiles) /\ MaxFiles \in Nat
    BY TypeParts, RecIndexAssumption, Zenon DEF DiskType, Files
  <2>2. s \in Seq(files[d]) /\ Entries(s) = files[d] /\ Distinct(s)
    BY <2>1, InOrderIs, Zenon
  <2>3. files[d] \subseteq Nat
    BY <2>1
  <2> HIDE DEF s
  <2>4. s \in Seq(Nat)
    BY <2>2, <2>3, SeqMonotonic
  <2>5. Index(s) \in IndexRecord
    BY <2>4, NewIndex, Zenon
  <2>6. Found(d) = Index(s)
    BY <1>2, Zenon DEF Found, s
  <2>7. Index(s).state = "good" /\ Index(s).totol = Len(s) /\ Index(s).list = s
    BY Zenon DEF Index
  <2> QED BY <1>1, <1>2, <2>2, <2>5, <2>6, <2>7, Zenon
<1>3. CASE ~ (idx[d].state = "none" /\ files[d] # {})
  <2>1. Found(d) = idx[d]
    BY <1>3, Zenon DEF Found
  <2> QED BY <1>1, <1>3, <2>1, Zenon
<1> QED BY <1>2, <1>3

LEMMA DoesRestart ==
  ASSUME RecIndexType, LockInv, Restart
  PROVE  /\ RecIndexType'
         /\ \A d \in Days : idx'[d] = Found(d)
         /\ \A r \in Recorders : rec'[r] = IdleRec
         /\ app' = IdleApp /\ idxlock' = "free"
         /\ \A d, f : ~Asked(d, f)'
         /\ past'.begun = past.begun /\ past'.kept = past.kept
         /\ past'.spoilt = past.spoilt \cup (IF app.at # "idle" THEN {app.dir} ELSE {})
         /\ UNCHANGED <<dirs, files>>
<1> USE TypeParts
<1>1. /\ idx' = [d \in Days |-> Found(d)]
      /\ dates' = InOrder({d \in dirs : Found(d).state # "none"})
      /\ rec' = [r \in Recorders |-> IdleRec]
      /\ app' = IdleApp /\ queue' = <<>> /\ idxlock' = "free"
      /\ past' = [past EXCEPT !.spoilt = Spoil(app.dir, app.at # "idle")]
      /\ UNCHANGED <<dirs, files>>
  BY Zenon DEF Restart
<1>2. IndexType' /\ \A d \in Days : idx'[d] = Found(d)
  <2>1. \A d \in Days : Found(d) \in IndexRecord /\ (d \notin dirs => Found(d) = NoIndex)
    BY FoundIs, Zenon
  <2>2. \A d \in Days : idx'[d] = Found(d)
    BY <1>1, Zenon
  <2>3. idx' \in [Days -> IndexRecord]
    BY <1>1, <2>1, Zenon
  <2> QED BY <1>1, <2>1, <2>2, <2>3, Zenon DEF IndexType
<1>3. DiskType'
  <2> DEFINE S == {d \in dirs : Found(d).state # "none"}
  <2>1. S \in SUBSET (1 .. MaxDay) /\ MaxDay \in Nat /\ S \subseteq Days
    BY RecIndexAssumption, Zenon DEF DiskType, Days
  <2>2. dates' = InOrder(S)
    BY <1>1, Zenon
  <2> HIDE DEF S
  <2>3. dates' \in Seq(S)
    BY <2>1, <2>2, InOrderIs, Zenon
  <2>4. dates' \in Seq(Days)
    BY <2>1, <2>3, SeqMonotonic
  <2> QED BY <1>1, <2>4, Zenon DEF DiskType
<1>4. IdleRec \in RecorderRecord /\ IdleApp \in AppRecord
  BY RecIndexAssumption DEF IdleRec, RecorderRecord, RecorderPlaces, IdleApp, AppRecord
<1>5. RecorderType' /\ \A r \in Recorders : rec'[r] = IdleRec
  BY <1>1, <1>4, Zenon DEF RecorderType
<1>6. AppType' /\ LockType'
  BY <1>1, <1>4, Zenon DEF AppType, LockType, Others
<1>7. QueueType' /\ \A d, f : ~Asked(d, f)'
  <2>1. queue' \in Seq(Requests) /\ Len(queue') = 0 /\ 0 <= MaxQueue
    BY <1>1, RecIndexAssumption
  <2>2. \A i \in 1 .. Len(queue') : FALSE
    BY <2>1
  <2>3. \A x : ~Contains(queue', x)
    BY <2>2, Zenon DEF Contains
  <2>4. QueueType'
    BY <2>1 DEF QueueType
  <2>5. \A d, f : ~Asked(d, f)'
    BY <2>3, Zenon DEF Asked
  <2> QED BY <2>4, <2>5, Zenon
<1>8. /\ PastType' /\ past'.begun = past.begun /\ past'.kept = past.kept
      /\ past'.spoilt = past.spoilt \cup (IF app.at # "idle" THEN {app.dir} ELSE {})
  <2> DEFINE X == Spoil(app.dir, app.at # "idle")
  <2>1. X \in SUBSET Days
    BY PastParts, Zenon DEF Spoil, LockInv
  <2>2. X = past.spoilt \cup (IF app.at # "idle" THEN {app.dir} ELSE {})
    BY Zenon DEF Spoil
  <2>3. past' = [past EXCEPT !.spoilt = X]
    BY <1>1, Zenon
  <2> HIDE DEF X
  <2>4. PastType' /\ past'.begun = past.begun /\ past'.kept = past.kept /\ past'.spoilt = X
    BY <2>1, <2>3 DEF PastType
  <2> QED BY <2>2, <2>4, Zenon
<1>9. RecIndexType'
  BY <1>2, <1>3, <1>5, <1>6, <1>7, <1>8, TypePartsNext, Zenon
<1> QED BY <1>1, <1>2, <1>5, <1>7, <1>8, <1>9, Zenon
-----------------------------------------------------------------------------
(* The invariant, part by part. *)

LEMMA StartRight == RecIndexInit => IndexInv
<1> SUFFICES ASSUME RecIndexInit PROVE IndexInv
  OBVIOUS
<1>1. /\ dates = <<>> /\ dirs = {} /\ queue = <<>> /\ idxlock = "free"
      /\ files = [d \in Days |-> {}] /\ idx = [d \in Days |-> NoIndex]
      /\ rec = [r \in Recorders |-> IdleRec] /\ app = IdleApp
      /\ past = [begun |-> 0, kept |-> {}, spoilt |-> {}]
  BY Zenon DEF RecIndexInit
<1>2. IdleRec \in RecorderRecord /\ IdleApp \in AppRecord
  BY RecIndexAssumption DEF IdleRec, RecorderRecord, RecorderPlaces, IdleApp, AppRecord
<1>3. RecorderType /\ AppType /\ LockType
  BY <1>1, <1>2, Zenon DEF RecorderType, AppType, LockType, Others
<1>4. DiskType /\ IndexType
  <2>1. <<>> \in Seq(Days)
    BY EmptySeq
  <2> QED BY <1>1, <2>1, NewIndex, Zenon DEF DiskType, IndexType
<1>5. QueueType /\ PastType
  <2>1. queue \in Seq(Requests) /\ Len(queue) = 0 /\ 0 <= MaxQueue
    BY <1>1, RecIndexAssumption
  <2>2. PastType
    BY <1>1, RecIndexAssumption DEF PastType
  <2> QED BY <2>1, <2>2 DEF QueueType
<1>6. RecIndexType
  BY <1>3, <1>4, <1>5, TypeParts, Zenon
<1>7. /\ \A d \in Days : files[d] = {} /\ idx[d] = NoIndex
      /\ \A r \in Recorders : rec[r].at = "idle"
      /\ app.at = "idle" /\ app.list = <<>> /\ past.kept = {}
  BY <1>1 DEF IdleRec, IdleApp
<1>8. /\ NoIndex.state = "none" /\ NoIndex.totol = 0 /\ NoIndex.list = <<>>
      /\ Len(<<>>) = 0 /\ (1 .. 0) = {}
  BY DEF NoIndex
<1>9. \A d, f : ~Asked(d, f)
  BY <1>1, <1>8, Zenon DEF Asked, Contains
<1>10. Entries(<<>>) = {}
  BY <1>8, Zenon DEF Entries
<1>11. LockInv
  BY <1>1, <1>7, RecorderNames, Zenon DEF LockInv, Others
<1>12. KnownInv
  BY <1>7, <1>8, <1>9, <1>10, Zenon DEF KnownInv
<1>13. OwnInv
  BY <1>7, Zenon DEF OwnInv, Writing
<1>14. FormInv
  BY <1>7, <1>8, Zenon DEF FormInv
<1>15. DaysInv
  <2> SUFFICES ASSUME NEW d \in Days PROVE DayRight(d)
    BY Zenon DEF DaysInv
  <2>1. ~Deleting(d)
    BY <1>7, Zenon DEF Deleting
  <2>2. Heads(d) = {} /\ HeadsDistinct(d)
    BY <1>7, <1>8, Zenon DEF Heads, HeadsDistinct
  <2>3. idx[d].totol <= Len(idx[d].list) /\ idx[d].state # "cut"
    BY <1>7 DEF NoIndex
  <2>4. Right(d, {})
    BY <1>7, Zenon DEF Right
  <2> QED BY <2>1, <2>2, <2>3, <2>4, Zenon DEF DayRight
<1>16. RecordingsInv
  BY <1>7, Zenon DEF RecordingsInv, Writing
<1> QED BY <1>6, <1>11, <1>12, <1>13, <1>14, <1>15, <1>16, Zenon DEF IndexInv

LEMMA LockFrame ==
  ASSUME LockInv, NEW r \in Recorders, OnlyRecorder(r),
         rec[r].at # "entry", rec'[r].at # "entry",
         rec'[r].at # "idle" => rec'[r].dir \in Days,
         idxlock = "cleaner" => dates' # <<>>, UNCHANGED <<app, idxlock>>
  PROVE  LockInv'
<1>1. ASSUME NEW q \in Recorders
      PROVE  /\ rec'[q].at = "entry" <=> idxlock' = q
             /\ rec'[q].at # "idle" => rec'[q].dir \in Days
  <2>1. CASE q = r
    BY <2>1, Zenon DEF LockInv
  <2>2. CASE q # r
    BY <2>2, Zenon DEF LockInv, OnlyRecorder
  <2> QED BY <2>1, <2>2
<1> QED BY <1>1, Zenon DEF LockInv

(* The lock goes to another, and no recorder is within an insertion. *)
LEMMA LockMoves ==
  ASSUME LockInv, idxlock \in Others, idxlock' \in Others,
         \A r \in Recorders : rec'[r].at = rec[r].at /\ rec'[r].dir = rec[r].dir,
         app'.at # "idle" <=> idxlock' = "app",
         app'.at # "idle" => app'.dir \in Days,
         idxlock' = "cleaner" => dates' # <<>>
  PROVE  LockInv'
<1>1. \A r \in Recorders : idxlock # r /\ idxlock' # r
  BY RecorderNames, Zenon
<1> QED BY <1>1, Zenon DEF LockInv

LEMMA StepLock ==
  ASSUME IndexInv, RecIndexNext
  PROVE  LockInv'
<1> USE DEF IndexInv
<1>0. /\ \A r \in Recorders : r \notin Others
      /\ "free" \in Others /\ "app" \in Others /\ "cleaner" \in Others
      /\ IdleRec.at = "idle" /\ IdleApp.at = "idle"
  BY RecorderNames, Zenon DEF Others, IdleRec, IdleApp
<1>1. ASSUME NEW r \in Recorders, NEW d \in Days, LookForDir(r, d) PROVE LockInv'
  <2>1. /\ rec[r].at = "idle" /\ OnlyRecorder(r)
        /\ rec'[r].at \in {"ready", "absent"} /\ rec'[r].dir = d
        /\ UNCHANGED <<dates, app, idxlock>>
    BY <1>1, DoesLookForDir, Zenon
  <2> QED BY <2>1, LockFrame, Zenon DEF LockInv
<1>2. ASSUME NEW r \in Recorders, MakeDir(r) PROVE LockInv'
  <2>1. /\ rec[r].at = "absent" /\ OnlyRecorder(r) /\ rec'[r].at = "made"
        /\ rec'[r].dir = rec[r].dir /\ rec[r].dir \in Days
        /\ UNCHANGED <<dates, app, idxlock>>
    BY <1>2, DoesMakeDir, Zenon
  <2> QED BY <2>1, LockFrame, Zenon DEF LockInv
<1>3. ASSUME NEW r \in Recorders, ListDay(r) PROVE LockInv'
  <2>1. /\ rec[r].at = "made" /\ OnlyRecorder(r) /\ rec'[r].at = "listed"
        /\ rec'[r].dir = rec[r].dir /\ idxlock = "free"
        /\ UNCHANGED <<app, idxlock>>
    BY <1>3, DoesListDay, Zenon
  <2> QED BY <2>1, LockFrame, Zenon DEF LockInv
<1>4. ASSUME NEW r \in Recorders, MakeIndex(r) PROVE LockInv'
  <2>1. /\ rec[r].at = "listed" /\ OnlyRecorder(r) /\ rec'[r].at = "ready"
        /\ rec'[r].dir = rec[r].dir /\ rec[r].dir \in Days
        /\ UNCHANGED <<dates, app, idxlock>>
    BY <1>4, DoesMakeIndex, Zenon
  <2> QED BY <2>1, LockFrame, Zenon DEF LockInv
<1>5. ASSUME NEW r \in Recorders, OpenRecording(r) PROVE LockInv'
  <2>1. /\ rec[r].at = "ready" /\ OnlyRecorder(r) /\ rec'[r].at = "open"
        /\ rec'[r].dir = rec[r].dir /\ rec[r].dir \in Days
        /\ UNCHANGED <<dates, app, idxlock>>
    BY <1>5, DoesOpenRecording, Zenon
  <2> QED BY <2>1, LockFrame, Zenon DEF LockInv
<1>6. ASSUME NEW r \in Recorders, OpenFails(r) PROVE LockInv'
  <2>1. /\ rec[r].at = "ready" /\ OnlyRecorder(r) /\ rec'[r] = IdleRec
        /\ UNCHANGED <<dates, app, idxlock>>
    BY <1>6, DoesOpenFails, Zenon
  <2> QED BY <2>1, <1>0, LockFrame, Zenon DEF LockInv
<1>7. ASSUME NEW r \in Recorders, DropRecording(r) PROVE LockInv'
  <2>1. /\ rec[r].at = "open" /\ OnlyRecorder(r) /\ rec'[r] = IdleRec
        /\ UNCHANGED <<dates, app, idxlock>>
    BY <1>7, DoesDropRecording, Zenon
  <2> QED BY <2>1, <1>0, LockFrame, Zenon DEF LockInv
<1>8. ASSUME NEW r \in Recorders, StartIndex(r) PROVE LockInv'
  <2>1. /\ rec[r].at = "open" /\ OnlyRecorder(r) /\ rec'[r] = IdleRec
        /\ UNCHANGED <<dates, app, idxlock>>
    BY <1>8, DoesStartIndex, Zenon
  <2> QED BY <2>1, <1>0, LockFrame, Zenon DEF LockInv
<1>9. ASSUME NEW r \in Recorders, WriteEntry(r) PROVE LockInv'
  <2>1. /\ OnlyRecorder(r) /\ rec'[r].at = "entry" /\ rec'[r].dir = rec[r].dir
        /\ rec[r].dir \in Days /\ idxlock = "free" /\ idxlock' = r
        /\ UNCHANGED <<dates, app>>
    BY <1>9, DoesWriteEntry, Zenon
  <2>2. ASSUME NEW q \in Recorders, q # r
        PROVE  /\ rec'[q].at # "entry" /\ idxlock' # q
               /\ rec'[q].at # "idle" => rec'[q].dir \in Days
    BY <2>1, <2>2, <1>0, Zenon DEF LockInv, OnlyRecorder
  <2> QED BY <2>1, <2>2, <1>0, Zenon DEF LockInv
<1>10. ASSUME NEW r \in Recorders, WriteHead(r) PROVE LockInv'
  <2>1. /\ OnlyRecorder(r) /\ rec'[r] = IdleRec /\ idxlock = r /\ idxlock' = "free"
        /\ UNCHANGED <<dates, app>>
    BY <1>10, DoesWriteHead, Zenon
  <2>2. ASSUME NEW q \in Recorders, q # r
        PROVE  /\ rec'[q].at # "entry" /\ idxlock' # q
               /\ rec'[q].at # "idle" => rec'[q].dir \in Days
    BY <2>1, <2>2, <1>0, Zenon DEF LockInv, OnlyRecorder
  <2> QED BY <2>1, <2>2, <1>0, Zenon DEF LockInv
<1>11. ASSUME NEW d \in Days, DeleteDay(d) PROVE LockInv'
  <2>1. idxlock = "free" /\ UNCHANGED <<rec, app, idxlock>>
    BY <1>11, DoesDeleteDay, Zenon
  <2> QED BY <2>1, <1>0, LockMoves, Zenon DEF LockInv
<1>12. ASSUME NEW d \in Days, ImportIndex(d) PROVE LockInv'
  <2>1. /\ idxlock = "free" /\ idxlock' = "app" /\ app'.at = "has" /\ app'.dir = d
        /\ UNCHANGED <<dates, rec>>
    BY <1>12, DoesImportIndex, Zenon
  <2> QED BY <2>1, <1>0, LockMoves, Zenon
<1>13. ASSUME NEW f \in Files, DropEntry(f) PROVE LockInv'
  <2>1. /\ app.at = "has" /\ app'.at = "has" /\ app'.dir = app.dir
        /\ UNCHANGED <<dates, rec, idxlock>>
    BY <1>13, DoesDropEntry, Zenon
  <2>2. idxlock = "app" /\ app.dir \in Days
    BY <2>1, Zenon DEF LockInv
  <2> QED BY <2>1, <2>2, <1>0, LockMoves, Zenon
<1>14. ASSUME ReleaseEmpty PROVE LockInv'
  <2>1. idxlock = "app" /\ DirRemoved(app.dir) /\ app' = IdleApp /\ idxlock' = "free"
    BY <1>14, DoesReleaseEmpty, Zenon
  <2> QED BY <2>1, <1>0, LockMoves, Zenon DEF DirRemoved
<1>15. ASSUME CutOff PROVE LockInv'
  <2>1. /\ idxlock = "app" /\ app.dir \in Days /\ app'.at = "cut" /\ app'.dir = app.dir
        /\ UNCHANGED <<dates, rec, idxlock>>
    BY <1>15, DoesCutOff, Zenon
  <2> QED BY <2>1, <1>0, LockMoves, Zenon
<1>16. ASSUME WriteList PROVE LockInv'
  <2>1. idxlock = "app" /\ app' = IdleApp /\ idxlock' = "free" /\ UNCHANGED rec
    BY <1>16, DoesWriteList, Zenon
  <2> QED BY <2>1, <1>0, LockMoves, Zenon
<1>17. ASSUME CarryOut PROVE LockInv'
  <2>1. /\ Head(queue)[2] = 0 => DirRemoved(Head(queue)[1])
        /\ Head(queue)[2] # 0 => UNCHANGED rec
        /\ UNCHANGED <<dates, app, idxlock>>
    BY <1>17, DoesCarryOut, Zenon
  <2>2. \A r \in Recorders : rec'[r].at = rec[r].at /\ rec'[r].dir = rec[r].dir
    BY <2>1, Zenon DEF DirRemoved
  <2> QED BY <2>1, <2>2, Zenon DEF LockInv
<1>18. ASSUME CleanBegins PROVE LockInv'
  <2>1. /\ idxlock = "free" /\ dates # <<>> /\ idxlock' = "cleaner"
        /\ UNCHANGED <<dates, rec, app>>
    BY <1>18, DoesCleanBegins, Zenon
  <2>2. app.at = "idle"
    BY <2>1, Zenon DEF LockInv
  <2> QED BY <2>1, <2>2, <1>0, LockMoves, Zenon
<1>19. ASSUME CleanEnds PROVE LockInv'
  <2>1. /\ idxlock = "cleaner" /\ idxlock' = "free" /\ DirRemoved(Head(dates))
        /\ UNCHANGED app
    BY <1>19, DoesCleanEnds, Zenon
  <2>2. app.at = "idle"
    BY <2>1, Zenon DEF LockInv
  <2> QED BY <2>1, <2>2, <1>0, LockMoves, Zenon DEF DirRemoved
<1>20. ASSUME Restart PROVE LockInv'
  <2>1. /\ \A r \in Recorders : rec'[r] = IdleRec
        /\ app' = IdleApp /\ idxlock' = "free"
    BY <1>20, DoesRestart, Zenon
  <2> QED BY <2>1, <1>0, Zenon DEF LockInv
<1> QED BY <1>1, <1>2, <1>3, <1>4, <1>5, <1>6, <1>7, <1>8, <1>9, <1>10, <1>11, <1>12,
           <1>13, <1>14, <1>15, <1>16, <1>17, <1>18, <1>19, <1>20, Zenon
        DEF RecIndexNext, Recorder, Deleter

LEMMA KnownFrame ==
  ASSUME RecIndexType, KnownInv, past'.begun = past.begun,
         \A d \in Days : files'[d] \subseteq files[d],
         \A f \in past'.kept : f \in past.kept \/ f <= past.begun,
         \A d \in Days : \A f \in Entries(idx'[d].list) :
           f \in Entries(idx[d].list) \/ f <= past.begun,
         \A f \in Entries(app'.list) : f \in Entries(app.list) \/ f <= past.begun,
         \A d \in Days : \A f \in 0 .. MaxFiles : Asked(d, f)' => Asked(d, f) \/ f <= past.begun
  PROVE  KnownInv'
<1>1. /\ \A d \in Days : \A f \in files'[d] : f <= past'.begun
      /\ \A f \in past'.kept : f <= past'.begun
  BY Zenon DEF KnownInv
<1>2. /\ \A d \in Days : \A f \in Entries(idx'[d].list) : f <= past'.begun
      /\ \A f \in Entries(app'.list) : f <= past'.begun
  BY Zenon DEF KnownInv
<1>3. \A d \in Days : \A f \in 0 .. MaxFiles : Asked(d, f)' => f <= past'.begun
  BY Zenon DEF KnownInv
<1>4. /\ \A d \in Days : Entries(idx[d].list)' = Entries(idx'[d].list)
      /\ Entries(app.list)' = Entries(app'.list)
  BY Zenon DEF Entries
<1> QED BY <1>1, <1>2, <1>3, <1>4, Zenon DEF KnownInv

(* What a day's directory going leaves of the days. *)
LEMMA RemovedDays ==
  ASSUME NEW d \in Days, DirRemoved(d), NEW e \in Days
  PROVE  /\ files'[e] \subseteq files[e]
         /\ Entries(idx'[e].list) \subseteq Entries(idx[e].list)
         /\ e = d => files'[e] = {} /\ idx'[e] = NoIndex
         /\ e # d => files'[e] = files[e] /\ idx'[e] = idx[e]
<1>1. Entries(NoIndex.list) = {}
  <2>1. NoIndex.list = <<>> /\ 1 .. Len(<<>>) = {}
    BY DEF NoIndex
  <2> QED BY <2>1, Zenon DEF Entries
<1>2. CASE e = d
  BY <1>1, <1>2, Zenon DEF DirRemoved
<1>3. CASE e # d
  BY <1>3, Zenon DEF DirRemoved, OnlyFiles, OnlyIndex
<1> QED BY <1>2, <1>3

LEMMA Singleton ==
  ASSUME NEW f
  PROVE  /\ Len(<<f>>) = 1 /\ <<f>>[1] = f /\ Entries(<<f>>) = {f} /\ Distinct(<<f>>)
         /\ Index(<<f>>).totol = 1 /\ Index(<<f>>).list = <<f>>
         /\ Index(<<f>>).state = "good"
<1>1. Len(<<f>>) = 1 /\ <<f>>[1] = f /\ 1 .. Len(<<f>>) = {1}
  OBVIOUS
<1>2. Entries(<<f>>) = {f} /\ Distinct(<<f>>)
  BY <1>1, Zenon DEF Entries, Distinct
<1>3. /\ Index(<<f>>).totol = 1 /\ Index(<<f>>).list = <<f>>
      /\ Index(<<f>>).state = "good"
  BY <1>1 DEF Index
<1> QED BY <1>1, <1>2, <1>3

LEMMA Nothing ==
  /\ Entries(<<>>) = {} /\ Distinct(<<>>) /\ Len(<<>>) = 0
  /\ IdleApp.list = <<>> /\ IdleApp.at = "idle" /\ IdleRec.at = "idle"
  /\ Index(<<>>).list = <<>> /\ Index(<<>>).totol = 0 /\ Index(<<>>).state = "good"
  /\ CutIndex.list = <<>> /\ CutIndex.totol = 0 /\ CutIndex.state = "cut"
  /\ NoIndex.list = <<>> /\ NoIndex.totol = 0 /\ NoIndex.state = "none"
  /\ 1 .. 0 = {}
<1>1. Len(<<>>) = 0 /\ 1 .. Len(<<>>) = {} /\ 1 .. 0 = {}
  OBVIOUS
<1>2. Entries(<<>>) = {} /\ Distinct(<<>>)
  BY <1>1, Zenon DEF Entries, Distinct
<1>3. /\ IdleApp.list = <<>> /\ IdleApp.at = "idle" /\ IdleRec.at = "idle"
      /\ Index(<<>>).list = <<>> /\ Index(<<>>).totol = 0 /\ Index(<<>>).state = "good"
      /\ CutIndex.list = <<>> /\ CutIndex.totol = 0 /\ CutIndex.state = "cut"
      /\ NoIndex.list = <<>> /\ NoIndex.totol = 0 /\ NoIndex.state = "none"
  BY <1>1 DEF IdleApp, IdleRec, Index, CutIndex, NoIndex
<1> QED BY <1>1, <1>2, <1>3

LEMMA StepKnown ==
  ASSUME IndexInv, RecIndexNext
  PROVE  KnownInv'
<1> USE DEF IndexInv
<1>b. past.begun \in Nat /\ 0 <= past.begun
  BY TypeParts, PastParts, RecIndexAssumption
<1>1. ASSUME UNCHANGED <<files, idx, app, queue, past>> PROVE KnownInv'
  BY <1>1, KnownFrame, Zenon DEF Asked
<1>4. ASSUME NEW r \in Recorders, MakeIndex(r) PROVE KnownInv'
  <2> DEFINE d == rec[r].dir
  <2>1. /\ d \in Days /\ OnlyIndex(d)
        /\ idx'[d] = IF d \in dirs THEN Index(<<>>) ELSE idx[d]
        /\ past'.begun = past.begun /\ past'.kept = past.kept
        /\ UNCHANGED <<files, app, queue>>
    BY <1>4, DoesMakeIndex, Zenon
  <2> HIDE DEF d
  <2>2. \A e \in Days : Entries(idx'[e].list) \subseteq Entries(idx[e].list)
    BY <2>1, Nothing, Zenon DEF OnlyIndex
  <2> QED BY <2>1, <2>2, KnownFrame, Zenon DEF Asked
<1>5. ASSUME NEW r \in Recorders, OpenRecording(r) PROVE KnownInv'
  <2> DEFINE d == rec[r].dir   f == past.begun + 1
  <2>1. /\ d \in Days /\ OnlyFiles(d) /\ files'[d] = files[d] \cup {f} /\ f \in Files
        /\ past'.begun = f /\ past'.kept = past.kept /\ RecIndexType'
        /\ UNCHANGED <<idx, app, queue>>
    BY <1>5, DoesOpenRecording, Zenon
  <2> HIDE DEF d
  <2>2. \A n \in Nat : n <= past.begun => n <= f
    BY <1>b
  <2>3. f <= f /\ f \in Nat
    BY <1>b
  <2>4. /\ \A e \in Days : files[e] \subseteq Nat
        /\ past.kept \subseteq Nat
        /\ \A e \in Days : Entries(idx[e].list) \subseteq Nat
        /\ Entries(app.list) \subseteq Nat
        /\ 0 .. MaxFiles \subseteq Nat
    <3>1. Files \subseteq Nat /\ 0 .. MaxFiles \subseteq Nat
      BY RecIndexAssumption DEF Files
    <3>2. \A s \in Seq(Nat) : Entries(s) \subseteq Nat
      BY DEF Entries
    <3>3. app.list \in Seq(Nat) /\ \A e \in Days : idx[e].list \in Seq(Nat)
      BY TypeParts DEF AppType, AppRecord, IndexType, IndexRecord
    <3> QED BY <3>1, <3>2, <3>3, TypeParts, PastParts, Zenon DEF DiskType
  <2> HIDE DEF f
  <2>5. ASSUME NEW e \in Days, NEW g \in files'[e] PROVE g <= f
    <3>1. CASE e = d
      BY <3>1, <2>1, <2>2, <2>3, <2>4, Zenon DEF KnownInv
    <3>2. CASE e # d
      BY <3>2, <2>1, <2>2, <2>3, <2>4, Zenon DEF KnownInv, OnlyFiles
    <3> QED BY <3>1, <3>2
  <2>6. \A g \in past'.kept : g <= f
    BY <2>1, <2>2, <2>4, Zenon DEF KnownInv
  <2>7. /\ \A e \in Days : \A g \in Entries(idx[e].list) : g <= f
        /\ \A g \in Entries(app.list) : g <= f
        /\ \A e \in Days : \A g \in 0 .. MaxFiles : Asked(e, g) => g <= f
    BY <2>2, <2>4, Zenon DEF KnownInv
  <2>8. /\ \A e \in Days : \A g \in Entries(idx[e].list)' : g <= f
        /\ \A g \in Entries(app.list)' : g <= f
        /\ \A e \in Days : \A g \in 0 .. MaxFiles : Asked(e, g)' => g <= f
    BY <2>1, <2>7, Zenon DEF Entries, Asked
  <2> QED BY <2>1, <2>5, <2>6, <2>8, Zenon DEF KnownInv
<1>7. ASSUME NEW r \in Recorders, DropRecording(r) PROVE KnownInv'
  <2> DEFINE d == rec[r].dir
  <2>1. /\ d \in Days /\ OnlyFiles(d) /\ files'[d] = files[d] \ {rec[r].name}
        /\ UNCHANGED <<idx, app, queue, past>>
    BY <1>7, DoesDropRecording, Zenon
  <2> HIDE DEF d
  <2>2. \A e \in Days : files'[e] \subseteq files[e]
    BY <2>1, Zenon DEF OnlyFiles
  <2> QED BY <2>1, <2>2, KnownFrame, Zenon DEF Asked
<1>8. ASSUME NEW r \in Recorders, StartIndex(r) PROVE KnownInv'
  <2> DEFINE d == rec[r].dir   f == rec[r].name
  <2>1. /\ rec[r].at = "open" /\ d \in Days /\ OnlyIndex(d)
        /\ idx'[d] = IF d \in dirs THEN Index(<<f>>) ELSE idx[d]
        /\ past'.begun = past.begun
        /\ past'.kept = past.kept \cup (IF d \in dirs THEN {f} ELSE {})
        /\ UNCHANGED <<files, app, queue>>
    BY <1>8, DoesStartIndex, Zenon
  <2>2. f \in 1 .. past.begun
    BY <2>1, Zenon DEF OwnInv, Writing
  <2> HIDE DEF d, f
  <2>3. f <= past.begun
    BY <2>2, <1>b
  <2>4. \A e \in Days : \A g \in Entries(idx'[e].list) : g \in Entries(idx[e].list) \/ g = f
    <3>1. Entries(Index(<<f>>).list) = {f}
      BY Singleton, Zenon
    <3> SUFFICES ASSUME NEW e \in Days
                 PROVE  \A g \in Entries(idx'[e].list) : g \in Entries(idx[e].list) \/ g = f
      OBVIOUS
    <3>2. CASE e = d
      BY <2>1, <3>1, <3>2, Zenon
    <3>3. CASE e # d
      BY <2>1, <3>3, Zenon DEF OnlyIndex
    <3> QED BY <3>2, <3>3
  <2>5. \A g \in past'.kept : g \in past.kept \/ g = f
    BY <2>1, Zenon
  <2> QED BY <2>1, <2>3, <2>4, <2>5, KnownFrame, Zenon DEF Asked
<1>9. ASSUME NEW r \in Recorders, WriteEntry(r) PROVE KnownInv'
  <2> DEFINE d == rec[r].dir   f == rec[r].name
  <2>1. /\ rec[r].at = "open" /\ d \in Days /\ OnlyIndex(d)
        /\ \A g \in Entries(idx'[d].list) : g \in Entries(idx[d].list) \cup {0, f}
        /\ UNCHANGED <<files, app, queue, past>>
    BY <1>9, DoesWriteEntry, Zenon
  <2>2. f \in 1 .. past.begun
    BY <2>1, Zenon DEF OwnInv, Writing
  <2> HIDE DEF d, f
  <2>3. f <= past.begun
    BY <2>2, <1>b
  <2>4. \A e \in Days : \A g \in Entries(idx'[e].list) :
          g \in Entries(idx[e].list) \/ g <= past.begun
    BY <2>1, <2>3, <1>b, Zenon DEF OnlyIndex
  <2> QED BY <2>1, <2>4, KnownFrame, Zenon DEF Asked
<1>10. ASSUME NEW r \in Recorders, WriteHead(r) PROVE KnownInv'
  <2> DEFINE d == rec[r].dir   f == rec[r].name
  <2>1. /\ rec[r].at = "entry" /\ d \in Days /\ OnlyIndex(d)
        /\ idx'[d].list = idx[d].list
        /\ past'.begun = past.begun
        /\ past'.kept = past.kept \cup (IF rec[r].gone THEN {} ELSE {f})
        /\ UNCHANGED <<files, app, queue>>
    BY <1>10, DoesWriteHead, Zenon
  <2>2. f \in 1 .. past.begun
    BY <2>1, Zenon DEF OwnInv, Writing
  <2> HIDE DEF d, f
  <2>3. f <= past.begun
    BY <2>2, <1>b
  <2>4. \A e \in Days : Entries(idx'[e].list) \subseteq Entries(idx[e].list)
    BY <2>1, Zenon DEF OnlyIndex
  <2>5. \A g \in past'.kept : g \in past.kept \/ g = f
    BY <2>1, Zenon
  <2> QED BY <2>1, <2>3, <2>4, <2>5, KnownFrame, Zenon DEF Asked
<1>11. ASSUME NEW d \in Days, DeleteDay(d) PROVE KnownInv'
  <2>1. /\ \A e \in Days : \A g \in 0 .. MaxFiles :
             Asked(e, g)' => Asked(e, g) \/ (e = d /\ g = 0)
        /\ UNCHANGED <<files, idx, app, past>>
    BY <1>11, DoesDeleteDay, Zenon
  <2> QED BY <2>1, <1>b, KnownFrame, Zenon
<1>12. ASSUME NEW d \in Days, ImportIndex(d) PROVE KnownInv'
  <2>1. app'.list = Counted(d) /\ UNCHANGED <<files, idx, queue, past>>
    BY <1>12, DoesImportIndex, Zenon
  <2>2. Entries(Counted(d)) \subseteq Entries(idx[d].list)
    BY TypeParts, CountedIs, Zenon DEF IndexType
  <2>3. \A f \in Entries(app'.list) : f <= past.begun
    BY <2>1, <2>2, Zenon DEF KnownInv
  <2> QED BY <2>1, <2>3, KnownFrame, Zenon DEF Asked
<1>13. ASSUME NEW f \in Files, DropEntry(f) PROVE KnownInv'
  <2>1. /\ app.at = "has" /\ Contains(app.list, f) /\ app.list \in Seq(Nat)
        /\ app'.list = RemoveFirst(app.list, f)
        /\ \A e \in Days : \A g \in 0 .. MaxFiles :
             Asked(e, g)' => Asked(e, g) \/ (e = app.dir /\ g = f)
        /\ past'.begun = past.begun /\ past'.kept = past.kept \ {f}
        /\ UNCHANGED <<files, idx>>
    BY <1>13, DoesDropEntry, Zenon
  <2>2. Entries(app'.list) \subseteq Entries(app.list)
    BY <2>1, RemoveFirstEntries, Zenon
  <2>3. f <= past.begun
    BY <2>1, Zenon DEF KnownInv, Contains, Entries
  <2> QED BY <2>1, <2>2, <2>3, KnownFrame, Zenon
<1>14. ASSUME ReleaseEmpty PROVE KnownInv'
  <2>1. /\ app.dir \in Days /\ DirRemoved(app.dir) /\ app' = IdleApp /\ UNCHANGED queue
    BY <1>14, DoesReleaseEmpty, Zenon
  <2>2. past'.begun = past.begun /\ past'.kept = past.kept
    BY <2>1, Zenon DEF DirRemoved
  <2> QED BY <2>1, <2>2, RemovedDays, Nothing, KnownFrame, Zenon DEF Asked
<1>15. ASSUME CutOff PROVE KnownInv'
  <2> DEFINE d == app.dir
  <2>1. /\ d \in Days /\ app'.list = app.list /\ OnlyIndex(d)
        /\ idx'[d] = IF d \in dirs THEN CutIndex ELSE idx[d]
        /\ UNCHANGED <<files, queue, past>>
    BY <1>15, DoesCutOff, Zenon
  <2> HIDE DEF d
  <2>2. \A e \in Days : Entries(idx'[e].list) \subseteq Entries(idx[e].list)
    BY <2>1, Nothing, Zenon DEF OnlyIndex
  <2> QED BY <2>1, <2>2, KnownFrame, Zenon DEF Asked
<1>16. ASSUME WriteList PROVE KnownInv'
  <2> DEFINE d == app.dir
  <2>1. /\ d \in Days /\ app' = IdleApp /\ OnlyIndex(d)
        /\ idx'[d] = IF app.gone \/ d \notin dirs THEN idx[d] ELSE Index(app.list)
        /\ UNCHANGED <<files, queue, past>>
    BY <1>16, DoesWriteList, Zenon
  <2> HIDE DEF d
  <2>2. Index(app.list).list = app.list
    BY Zenon DEF Index
  <2>3. \A e \in Days : \A g \in Entries(idx'[e].list) :
          g \in Entries(idx[e].list) \/ g \in Entries(app.list)
    BY <2>1, <2>2, Zenon DEF OnlyIndex
  <2>4. \A e \in Days : \A g \in Entries(idx'[e].list) :
          g \in Entries(idx[e].list) \/ g <= past.begun
    BY <2>3, Zenon DEF KnownInv
  <2> QED BY <2>1, <2>4, Nothing, KnownFrame, Zenon DEF Asked
<1>17. ASSUME CarryOut PROVE KnownInv'
  <2> DEFINE d == Head(queue)[1]   f == Head(queue)[2]
  <2>1. /\ d \in Days /\ \A e, g : Asked(e, g)' => Asked(e, g)
        /\ f = 0 => DirRemoved(d)
        /\ f # 0 => /\ OnlyFiles(d) /\ files'[d] = files[d] \ {f}
                    /\ UNCHANGED <<idx, past>>
        /\ UNCHANGED app
    BY <1>17, DoesCarryOut, Zenon
  <2> HIDE DEF d, f
  <2>2. CASE f = 0
    <3>1. past'.begun = past.begun /\ past'.kept = past.kept
      BY <2>1, <2>2, Zenon DEF DirRemoved
    <3> QED BY <2>1, <2>2, <3>1, RemovedDays, KnownFrame, Zenon
  <2>3. CASE f # 0
    <3>1. \A e \in Days : files'[e] \subseteq files[e]
      BY <2>1, <2>3, Zenon DEF OnlyFiles
    <3> QED BY <2>1, <2>3, <3>1, KnownFrame, Zenon
  <2> QED BY <2>2, <2>3
<1>19. ASSUME CleanEnds PROVE KnownInv'
  <2>1. Head(dates) \in Days /\ DirRemoved(Head(dates)) /\ UNCHANGED <<app, queue>>
    BY <1>19, DoesCleanEnds, Zenon
  <2>2. past'.begun = past.begun /\ past'.kept = past.kept
    BY <2>1, Zenon DEF DirRemoved
  <2> QED BY <2>1, <2>2, RemovedDays, KnownFrame, Zenon DEF Asked
<1>20. ASSUME Restart PROVE KnownInv'
  <2>1. /\ \A d \in Days : idx'[d] = Found(d)
        /\ app' = IdleApp /\ \A d, f : ~Asked(d, f)'
        /\ past'.begun = past.begun /\ past'.kept = past.kept /\ UNCHANGED files
    BY <1>20, DoesRestart, Zenon
  <2>2. \A d \in Days : \A f \in Entries(Found(d).list) :
          f \in Entries(idx[d].list) \/ f \in files[d]
    BY FoundIs, Zenon
  <2>3. \A d \in Days : \A f \in Entries(idx'[d].list) :
          f \in Entries(idx[d].list) \/ f <= past.begun
    BY <2>1, <2>2, Zenon DEF KnownInv
  <2> QED BY <2>1, <2>3, Nothing, KnownFrame, Zenon
<1>21. ASSUME NEW r \in Recorders, NEW d \in Days, LookForDir(r, d) PROVE KnownInv'
  BY <1>21, <1>1, DoesLookForDir, Zenon
<1>22. ASSUME NEW r \in Recorders, MakeDir(r) PROVE KnownInv'
  BY <1>22, <1>1, DoesMakeDir, Zenon
<1>23. ASSUME NEW r \in Recorders, ListDay(r) PROVE KnownInv'
  BY <1>23, <1>1, DoesListDay, Zenon
<1>24. ASSUME NEW r \in Recorders, OpenFails(r) PROVE KnownInv'
  BY <1>24, <1>1, DoesOpenFails, Zenon
<1>25. ASSUME CleanBegins PROVE KnownInv'
  BY <1>25, <1>1, DoesCleanBegins, Zenon
<1> QED BY <1>4, <1>5, <1>7, <1>8, <1>9, <1>10, <1>11, <1>12, <1>13, <1>14, <1>15, <1>16,
           <1>17, <1>19, <1>20, <1>21, <1>22, <1>23, <1>24, <1>25, Zenon
        DEF RecIndexNext, Recorder, Deleter

(* No recording is begun; files and recordings under way may only end. *)
LEMMA OwnFrame ==
  ASSUME OwnInv, past'.begun = past.begun,
         \A d \in Days : files'[d] \subseteq files[d],
         \A r \in Recorders : Writing(r)' =>
           /\ Writing(r) /\ rec'[r].name = rec[r].name /\ rec'[r].dir = rec[r].dir
  PROVE  OwnInv'
<1>1. \A d, e \in Days : d # e => files'[d] \cap files'[e] = {}
  BY Zenon DEF OwnInv
<1>2. ASSUME NEW r \in Recorders, Writing(r)'
      PROVE  /\ rec'[r].name \in 1 .. past'.begun
             /\ \A q \in Recorders : Writing(q)' /\ q # r => rec'[q].name # rec'[r].name
             /\ \A e \in Days : e # rec'[r].dir => rec'[r].name \notin files'[e]
  BY <1>2, Zenon DEF OwnInv
<1> QED BY <1>1, <1>2, Zenon DEF OwnInv

(* One recorder comes to no writing, or writes on with what it had. *)
LEMMA WritesOn ==
  ASSUME NEW r \in Recorders, OnlyRecorder(r),
         Writing(r)' => /\ Writing(r) /\ rec'[r].name = rec[r].name
                        /\ rec'[r].dir = rec[r].dir
  PROVE  \A q \in Recorders : Writing(q)' =>
           /\ Writing(q) /\ rec'[q].name = rec[q].name /\ rec'[q].dir = rec[q].dir
<1> SUFFICES ASSUME NEW q \in Recorders, Writing(q)'
             PROVE  /\ Writing(q) /\ rec'[q].name = rec[q].name
                    /\ rec'[q].dir = rec[q].dir
  OBVIOUS
<1>1. CASE q = r
  BY <1>1, Zenon
<1>2. CASE q # r
  BY <1>2, Zenon DEF OnlyRecorder, Writing
<1> QED BY <1>1, <1>2

LEMMA AllWriteOn ==
  ASSUME \A r \in Recorders : /\ rec'[r].at = rec[r].at /\ rec'[r].dir = rec[r].dir
                              /\ rec'[r].name = rec[r].name
  PROVE  \A q \in Recorders : Writing(q)' =>
           /\ Writing(q) /\ rec'[q].name = rec[q].name /\ rec'[q].dir = rec[q].dir
BY Zenon DEF Writing

LEMMA IdleWrites == IdleRec.at \notin {"open", "entry"} /\ IdleRec.at # "entry"
BY DEF IdleRec

LEMMA StepOwn ==
  ASSUME IndexInv, RecIndexNext
  PROVE  OwnInv'
<1> USE DEF IndexInv
<1>1. ASSUME NEW r \in Recorders, NEW d \in Days, LookForDir(r, d) PROVE OwnInv'
  <2>1. OnlyRecorder(r) /\ rec'[r].at \in {"ready", "absent"} /\ UNCHANGED <<files, past>>
    BY <1>1, DoesLookForDir, Zenon
  <2>2. ~Writing(r)'
    BY <2>1 DEF Writing
  <2> QED BY <2>1, <2>2, WritesOn, OwnFrame, Zenon
<1>2. ASSUME NEW r \in Recorders, MakeDir(r) PROVE OwnInv'
  <2>1. OnlyRecorder(r) /\ rec'[r].at = "made" /\ UNCHANGED <<files, past>>
    BY <1>2, DoesMakeDir, Zenon
  <2>2. ~Writing(r)'
    BY <2>1 DEF Writing
  <2> QED BY <2>1, <2>2, WritesOn, OwnFrame, Zenon
<1>3. ASSUME NEW r \in Recorders, ListDay(r) PROVE OwnInv'
  <2>1. OnlyRecorder(r) /\ rec'[r].at = "listed" /\ UNCHANGED <<files, past>>
    BY <1>3, DoesListDay, Zenon
  <2>2. ~Writing(r)'
    BY <2>1 DEF Writing
  <2> QED BY <2>1, <2>2, WritesOn, OwnFrame, Zenon
<1>4. ASSUME NEW r \in Recorders, MakeIndex(r) PROVE OwnInv'
  <2>1. /\ OnlyRecorder(r) /\ rec'[r].at = "ready" /\ UNCHANGED files
        /\ past'.begun = past.begun
    BY <1>4, DoesMakeIndex, Zenon
  <2>2. ~Writing(r)'
    BY <2>1 DEF Writing
  <2> QED BY <2>1, <2>2, WritesOn, OwnFrame, Zenon
<1>5. ASSUME NEW r \in Recorders, OpenRecording(r) PROVE OwnInv'
  <2> DEFINE d == rec[r].dir   f == past.begun + 1
  <2>1. /\ OnlyRecorder(r) /\ rec'[r].at = "open" /\ rec'[r].dir = d /\ rec'[r].name = f
        /\ d \in Days /\ OnlyFiles(d) /\ files'[d] = files[d] \cup {f}
        /\ past'.begun = f
    BY <1>5, DoesOpenRecording, Zenon
  <2>2. past.begun \in Nat
    BY TypeParts, PastParts, RecIndexAssumption
  <2>3. /\ f \in 1 .. f /\ ~ (f <= past.begun)
        /\ \A n \in 1 .. past.begun : n \in 1 .. f /\ n # f
    BY <2>2
  <2> HIDE DEF d, f
  <2>4. \A e \in Days : f \notin files[e]
    BY <2>3, Zenon DEF KnownInv
  <2>5. \A e \in Days : e # d => files'[e] = files[e]
    BY <2>1, Zenon DEF OnlyFiles
  <2>6. ASSUME NEW e \in Days, NEW c \in Days, e # c
        PROVE  files'[e] \cap files'[c] = {}
    <3>1. files[e] \cap files[c] = {}
      BY <2>6, Zenon DEF OwnInv
    <3>2. CASE e = d
      BY <2>1, <2>4, <2>5, <2>6, <3>1, <3>2, Zenon
    <3>3. CASE c = d
      BY <2>1, <2>4, <2>5, <2>6, <3>1, <3>3, Zenon
    <3>4. CASE e # d /\ c # d
      BY <2>5, <3>1, <3>4, Zenon
    <3> QED BY <3>2, <3>3, <3>4
  <2>7. ASSUME NEW q \in Recorders, q # r, Writing(q)'
        PROVE  /\ rec'[q].name \in 1 .. f /\ rec'[q].name # f
               /\ rec'[q] = rec[q] /\ Writing(q)
               /\ \A e \in Days : e # rec'[q].dir => rec'[q].name \notin files'[e]
    <3>1. rec'[q] = rec[q] /\ Writing(q)
      BY <2>1, <2>7, Zenon DEF OnlyRecorder, Writing
    <3>2. rec[q].name \in 1 .. past.begun
      BY <3>1, Zenon DEF OwnInv
    <3>3. rec[q].name \in 1 .. f /\ rec[q].name # f
      BY <3>2, <2>3, Zenon
    <3>4. ASSUME NEW e \in Days, e # rec[q].dir PROVE rec[q].name \notin files'[e]
      <4>1. rec[q].name \notin files[e]
        BY <3>1, <3>4, Zenon DEF OwnInv
      <4>2. CASE e = d
        BY <2>1, <3>3, <4>1, <4>2, Zenon
      <4>3. CASE e # d
        BY <2>5, <4>1, <4>3, Zenon
      <4> QED BY <4>2, <4>3
    <3> QED BY <3>1, <3>3, <3>4, Zenon
  <2>8. /\ rec'[r].name \in 1 .. f
        /\ \A e \in Days : e # rec'[r].dir => rec'[r].name \notin files'[e]
    BY <2>1, <2>3, <2>4, <2>5, Zenon
  <2>9. ASSUME NEW q \in Recorders, Writing(q)'
        PROVE  /\ rec'[q].name \in 1 .. past'.begun
               /\ \A p \in Recorders : Writing(p)' /\ p # q => rec'[p].name # rec'[q].name
               /\ \A e \in Days : e # rec'[q].dir => rec'[q].name \notin files'[e]
    <3>1. CASE q = r
      BY <2>1, <2>7, <2>8, <3>1, Zenon
    <3>2. CASE q # r
      <4>1. ASSUME NEW p \in Recorders, Writing(p)', p # q
            PROVE  rec'[p].name # rec'[q].name
        <5>1. CASE p = r
          BY <2>1, <2>7, <2>9, <3>2, <5>1, Zenon
        <5>2. CASE p # r
          BY <2>7, <2>9, <3>2, <4>1, <5>2, Zenon DEF OwnInv
        <5> QED BY <5>1, <5>2
      <4> QED BY <2>1, <2>7, <2>9, <3>2, <4>1, Zenon
    <3> QED BY <3>1, <3>2
  <2> QED BY <2>6, <2>9, Zenon DEF OwnInv
<1>6. ASSUME NEW r \in Recorders, OpenFails(r) PROVE OwnInv'
  <2>1. OnlyRecorder(r) /\ rec'[r] = IdleRec /\ UNCHANGED <<files, past>>
    BY <1>6, DoesOpenFails, Zenon
  <2>2. ~Writing(r)'
    BY <2>1, IdleWrites, Zenon DEF Writing
  <2> QED BY <2>1, <2>2, WritesOn, OwnFrame, Zenon
<1>7. ASSUME NEW r \in Recorders, DropRecording(r) PROVE OwnInv'
  <2> DEFINE d == rec[r].dir
  <2>1. /\ OnlyRecorder(r) /\ rec'[r] = IdleRec
        /\ d \in Days /\ OnlyFiles(d) /\ files'[d] = files[d] \ {rec[r].name}
        /\ UNCHANGED past
    BY <1>7, DoesDropRecording, Zenon
  <2>2. ~Writing(r)'
    BY <2>1, IdleWrites, Zenon DEF Writing
  <2> HIDE DEF d
  <2>3. \A e \in Days : files'[e] \subseteq files[e]
    BY <2>1, Zenon DEF OnlyFiles
  <2> QED BY <2>1, <2>2, <2>3, WritesOn, OwnFrame, Zenon
<1>8. ASSUME NEW r \in Recorders, StartIndex(r) PROVE OwnInv'
  <2>1. /\ OnlyRecorder(r) /\ rec'[r] = IdleRec /\ past'.begun = past.begun
        /\ UNCHANGED files
    BY <1>8, DoesStartIndex, Zenon
  <2>2. ~Writing(r)'
    BY <2>1, IdleWrites, Zenon DEF Writing
  <2> QED BY <2>1, <2>2, WritesOn, OwnFrame, Zenon
<1>9. ASSUME NEW r \in Recorders, WriteEntry(r) PROVE OwnInv'
  <2>1. /\ OnlyRecorder(r) /\ rec[r].at = "open" /\ rec'[r].dir = rec[r].dir
        /\ rec'[r].name = rec[r].name /\ UNCHANGED <<files, past>>
    BY <1>9, DoesWriteEntry, Zenon
  <2>2. Writing(r)
    BY <2>1 DEF Writing
  <2> QED BY <2>1, <2>2, WritesOn, OwnFrame, Zenon
<1>10. ASSUME NEW r \in Recorders, WriteHead(r) PROVE OwnInv'
  <2>1. /\ OnlyRecorder(r) /\ rec'[r] = IdleRec /\ past'.begun = past.begun
        /\ UNCHANGED files
    BY <1>10, DoesWriteHead, Zenon
  <2>2. ~Writing(r)'
    BY <2>1, IdleWrites, Zenon DEF Writing
  <2> QED BY <2>1, <2>2, WritesOn, OwnFrame, Zenon
<1>11. ASSUME UNCHANGED <<files, rec>>, past'.begun = past.begun PROVE OwnInv'
  BY <1>11, OwnFrame, Zenon DEF Writing
<1>12. ASSUME NEW d \in Days, DirRemoved(d) PROVE OwnInv'
  <2>1. /\ past'.begun = past.begun
        /\ \A r \in Recorders : /\ rec'[r].at = rec[r].at /\ rec'[r].dir = rec[r].dir
                                /\ rec'[r].name = rec[r].name
    BY <1>12, Zenon DEF DirRemoved
  <2> QED BY <1>12, <2>1, RemovedDays, AllWriteOn, OwnFrame, Zenon
<1>13. ASSUME NEW d \in Days, DeleteDay(d) PROVE OwnInv'
  BY <1>11, <1>13, DoesDeleteDay, Zenon
<1>14. ASSUME NEW d \in Days, ImportIndex(d) PROVE OwnInv'
  BY <1>11, <1>14, DoesImportIndex, Zenon
<1>15. ASSUME NEW f \in Files, DropEntry(f) PROVE OwnInv'
  BY <1>11, <1>15, DoesDropEntry, Zenon
<1>16. ASSUME ReleaseEmpty PROVE OwnInv'
  BY <1>12, <1>16, DoesReleaseEmpty, Zenon
<1>17. ASSUME CutOff PROVE OwnInv'
  BY <1>11, <1>17, DoesCutOff, Zenon
<1>18. ASSUME WriteList PROVE OwnInv'
  BY <1>11, <1>18, DoesWriteList, Zenon
<1>19. ASSUME CarryOut PROVE OwnInv'
  <2> DEFINE d == Head(queue)[1]   f == Head(queue)[2]
  <2>1. /\ d \in Days
        /\ f = 0 => DirRemoved(d)
        /\ f # 0 => /\ OnlyFiles(d) /\ files'[d] = files[d] \ {f} /\ UNCHANGED <<rec, past>>
    BY <1>19, DoesCarryOut, Zenon
  <2> HIDE DEF d, f
  <2>2. ASSUME f # 0 PROVE OwnInv'
    <3>1. \A e \in Days : files'[e] \subseteq files[e]
      BY <2>1, <2>2, Zenon DEF OnlyFiles
    <3> QED BY <2>1, <2>2, <3>1, OwnFrame, Zenon DEF Writing
  <2> QED BY <1>12, <2>1, <2>2, Zenon
<1>20. ASSUME CleanBegins PROVE OwnInv'
  BY <1>11, <1>20, DoesCleanBegins, Zenon
<1>21. ASSUME CleanEnds PROVE OwnInv'
  BY <1>12, <1>21, DoesCleanEnds, Zenon
<1>22. ASSUME Restart PROVE OwnInv'
  <2>1. /\ \A r \in Recorders : rec'[r] = IdleRec
        /\ past'.begun = past.begun /\ UNCHANGED files
    BY <1>22, DoesRestart, Zenon
  <2>2. \A r \in Recorders : ~Writing(r)'
    BY <2>1, IdleWrites, Zenon DEF Writing
  <2> QED BY <2>1, <2>2, OwnFrame, Zenon
<1> QED BY <1>1, <1>2, <1>3, <1>4, <1>5, <1>6, <1>7, <1>8, <1>9, <1>10, <1>13, <1>14,
           <1>15, <1>16, <1>17, <1>18, <1>19, <1>20, <1>21, <1>22, Zenon
        DEF RecIndexNext, Recorder, Deleter

(* An index is replaced by a good one or by nothing; who has written an     *)
(* entry keeps directory and index.                                         *)
LEMMA FormFrame ==
  ASSUME FormInv,
         \A d \in Days : \/ idx'[d] = idx[d] \/ idx'[d].state = "good"
                         \/ idx'[d] = NoIndex \/ idx'[d] = CutIndex,
         \A r \in Recorders : rec'[r].at = "entry" /\ ~rec'[r].gone =>
           \/ /\ rec[r].at = "entry" /\ ~rec[r].gone /\ rec'[r].dir = rec[r].dir
              /\ rec[r].dir \in dirs => rec[r].dir \in dirs'
              /\ idx[rec[r].dir].state = "good" => idx'[rec[r].dir].state = "good"
           \/ rec'[r].dir \in dirs' /\ idx'[rec'[r].dir].state = "good"
  PROVE  FormInv'
<1>1. ASSUME NEW d \in Days
      PROVE  /\ idx'[d].state = "none" => idx'[d] = NoIndex
             /\ idx'[d].state = "cut" => idx'[d] = CutIndex
  <2>1. CASE idx'[d] = idx[d]
    BY <2>1, Zenon DEF FormInv
  <2>2. CASE idx'[d].state = "good"
    BY <2>2
  <2>3. CASE idx'[d] = NoIndex
    BY <2>3, Nothing
  <2>4. CASE idx'[d] = CutIndex
    BY <2>4, Nothing
  <2> QED BY <2>1, <2>2, <2>3, <2>4, Zenon
<1>2. ASSUME NEW r \in Recorders, rec'[r].at = "entry", ~rec'[r].gone
      PROVE  rec'[r].dir \in dirs' /\ idx'[rec'[r].dir].state = "good"
  BY <1>2, Zenon DEF FormInv
<1> QED BY <1>1, <1>2, Zenon DEF FormInv

LEMMA NobodyEnters ==
  ASSUME LockInv, idxlock \in Others
  PROVE  \A r \in Recorders : rec[r].at # "entry"
BY RecorderNames, Zenon DEF LockInv

LEMMA FreeOrOthers ==
  /\ idxlock = "free" => idxlock \in Others
  /\ idxlock = "app" => idxlock \in Others
  /\ idxlock = "cleaner" => idxlock \in Others
BY Zenon DEF Others

(* A recorder that comes to no entry leaves the others where they are. *)
LEMMA FormRecorder ==
  ASSUME FormInv, NEW r \in Recorders, OnlyRecorder(r), rec'[r].at # "entry",
         dirs \subseteq dirs', UNCHANGED idx
  PROVE  FormInv'
<1>1. ASSUME NEW q \in Recorders, rec'[q].at = "entry", ~rec'[q].gone
      PROVE  /\ rec[q].at = "entry" /\ ~rec[q].gone /\ rec'[q].dir = rec[q].dir
             /\ rec[q].dir \in dirs => rec[q].dir \in dirs'
             /\ idx[rec[q].dir].state = "good" => idx'[rec[q].dir].state = "good"
  <2>1. q # r
    BY <1>1, Zenon
  <2>2. rec'[q] = rec[q]
    BY <2>1, Zenon DEF OnlyRecorder
  <2> QED BY <1>1, <2>2, Zenon
<1> QED BY <1>1, FormFrame, Zenon

LEMMA FormRemoved ==
  ASSUME IndexInv, NEW d \in Days, DirRemoved(d)
  PROVE  FormInv'
<1> USE DEF IndexInv
<1>1. \A e \in Days : idx'[e] = idx[e] \/ idx'[e] = NoIndex
  BY RemovedDays, Zenon
<1>2. ASSUME NEW q \in Recorders, rec'[q].at = "entry", ~rec'[q].gone
      PROVE  /\ rec[q].at = "entry" /\ ~rec[q].gone /\ rec'[q].dir = rec[q].dir
             /\ rec[q].dir \in dirs => rec[q].dir \in dirs'
             /\ idx[rec[q].dir].state = "good" => idx'[rec[q].dir].state = "good"
  <2>1. /\ rec[q].at = "entry" /\ ~rec[q].gone /\ rec'[q].dir = rec[q].dir
        /\ rec[q].dir # d
    BY <1>2, Zenon DEF DirRemoved
  <2>2. rec[q].dir \in Days
    BY <2>1, Zenon DEF FormInv, LockInv
  <2>3. idx'[rec[q].dir] = idx[rec[q].dir]
    BY <2>1, <2>2, RemovedDays, Zenon
  <2>4. rec[q].dir \in dirs => rec[q].dir \in dirs'
    BY <2>1, Zenon DEF DirRemoved
  <2> QED BY <2>1, <2>3, <2>4, Zenon
<1> QED BY <1>1, <1>2, FormFrame, Zenon

(* Nobody is within an insertion, before and after. *)
LEMMA FormQuiet ==
  ASSUME FormInv, \A q \in Recorders : rec'[q].at # "entry",
         \A d \in Days : \/ idx'[d] = idx[d] \/ idx'[d].state = "good"
                         \/ idx'[d] = NoIndex \/ idx'[d] = CutIndex
  PROVE  FormInv'
BY FormFrame, Zenon

LEMMA StepForm ==
  ASSUME IndexInv, RecIndexNext
  PROVE  FormInv'
<1> USE DEF IndexInv
<1>1. ASSUME NEW r \in Recorders, NEW d \in Days, LookForDir(r, d) PROVE FormInv'
  <2>1. OnlyRecorder(r) /\ rec'[r].at \in {"ready", "absent"} /\ UNCHANGED <<dirs, idx>>
    BY <1>1, DoesLookForDir, Zenon
  <2>2. rec'[r].at # "entry"
    BY <2>1
  <2> QED BY <2>1, <2>2, FormRecorder, Zenon
<1>2. ASSUME NEW r \in Recorders, MakeDir(r) PROVE FormInv'
  <2>1. /\ OnlyRecorder(r) /\ rec'[r].at = "made"
        /\ dirs' = dirs \cup {rec[r].dir} /\ UNCHANGED idx
    BY <1>2, DoesMakeDir, Zenon
  <2>2. rec'[r].at # "entry" /\ dirs \subseteq dirs'
    BY <2>1
  <2> QED BY <2>1, <2>2, FormRecorder, Zenon
<1>3. ASSUME NEW r \in Recorders, ListDay(r) PROVE FormInv'
  <2>1. OnlyRecorder(r) /\ rec'[r].at = "listed" /\ UNCHANGED <<dirs, idx>>
    BY <1>3, DoesListDay, Zenon
  <2>2. rec'[r].at # "entry"
    BY <2>1
  <2> QED BY <2>1, <2>2, FormRecorder, Zenon
<1>4. ASSUME NEW r \in Recorders, MakeIndex(r) PROVE FormInv'
  <2> DEFINE d == rec[r].dir
  <2>1. /\ OnlyRecorder(r) /\ rec'[r].at = "ready" /\ d \in Days /\ OnlyIndex(d)
        /\ idx'[d] = IF d \in dirs THEN Index(<<>>) ELSE idx[d]
        /\ UNCHANGED dirs
    BY <1>4, DoesMakeIndex, Zenon
  <2>2. rec'[r].at # "entry"
    BY <2>1
  <2> HIDE DEF d
  <2>3. \A e \in Days : idx'[e] = idx[e] \/ idx'[e].state = "good"
    BY <2>1, Nothing, Zenon DEF OnlyIndex
  <2>4. ASSUME NEW q \in Recorders, rec'[q].at = "entry", ~rec'[q].gone
        PROVE  /\ rec[q].at = "entry" /\ ~rec[q].gone /\ rec'[q].dir = rec[q].dir
               /\ rec[q].dir \in dirs => rec[q].dir \in dirs'
               /\ idx[rec[q].dir].state = "good" => idx'[rec[q].dir].state = "good"
    <3>1. rec'[q] = rec[q]
      BY <2>1, <2>2, <2>4, Zenon DEF OnlyRecorder
    <3>2. rec[q].dir \in Days
      BY <2>4, <3>1, Zenon DEF FormInv, LockInv
    <3> QED BY <2>1, <2>3, <2>4, <3>1, <3>2, Zenon
  <2> QED BY <2>3, <2>4, FormFrame, Zenon
<1>5. ASSUME NEW r \in Recorders, OpenRecording(r) PROVE FormInv'
  <2>1. OnlyRecorder(r) /\ rec'[r].at = "open" /\ UNCHANGED <<dirs, idx>>
    BY <1>5, DoesOpenRecording, Zenon
  <2>2. rec'[r].at # "entry"
    BY <2>1
  <2> QED BY <2>1, <2>2, FormRecorder, Zenon
<1>6. ASSUME NEW r \in Recorders, OpenFails(r) PROVE FormInv'
  <2>1. OnlyRecorder(r) /\ rec'[r] = IdleRec /\ UNCHANGED <<dirs, idx>>
    BY <1>6, DoesOpenFails, Zenon
  <2> QED BY <2>1, IdleWrites, FormRecorder, Zenon
<1>7. ASSUME NEW r \in Recorders, DropRecording(r) PROVE FormInv'
  <2>1. OnlyRecorder(r) /\ rec'[r] = IdleRec /\ UNCHANGED <<dirs, idx>>
    BY <1>7, DoesDropRecording, Zenon
  <2> QED BY <2>1, IdleWrites, FormRecorder, Zenon
<1>8. ASSUME NEW r \in Recorders, StartIndex(r) PROVE FormInv'
  <2> DEFINE d == rec[r].dir   f == rec[r].name
  <2>1. /\ OnlyRecorder(r) /\ rec'[r] = IdleRec /\ idxlock = "free" /\ OnlyIndex(d)
        /\ idx'[d] = IF d \in dirs THEN Index(<<f>>) ELSE idx[d]
    BY <1>8, DoesStartIndex, Zenon
  <2> HIDE DEF d, f
  <2>2. \A q \in Recorders : rec[q].at # "entry"
    BY <2>1, FreeOrOthers, NobodyEnters, Zenon
  <2>3. \A q \in Recorders : rec'[q].at # "entry"
    BY <2>1, <2>2, IdleWrites, Zenon DEF OnlyRecorder
  <2>4. Index(<<f>>).state = "good"
    BY Singleton, Zenon
  <2>5. \A e \in Days : idx'[e] = idx[e] \/ idx'[e].state = "good"
    BY <2>1, <2>4, Zenon DEF OnlyIndex
  <2> QED BY <2>3, <2>5, FormQuiet, Zenon
<1>9. ASSUME NEW r \in Recorders, WriteEntry(r) PROVE FormInv'
  <2> DEFINE d == rec[r].dir
  <2>1. /\ OnlyRecorder(r) /\ rec'[r].dir = d /\ d \in Days /\ d \in dirs
        /\ idxlock = "free" /\ OnlyIndex(d) /\ idx'[d].state = "good"
        /\ UNCHANGED dirs
    BY <1>9, DoesWriteEntry, Zenon
  <2> HIDE DEF d
  <2>2. \A q \in Recorders : rec[q].at # "entry"
    BY <2>1, FreeOrOthers, NobodyEnters, Zenon
  <2>3. \A e \in Days : idx'[e] = idx[e] \/ idx'[e].state = "good"
    BY <2>1, Zenon DEF OnlyIndex
  <2>4. ASSUME NEW q \in Recorders, rec'[q].at = "entry"
        PROVE  rec'[q].dir \in dirs' /\ idx'[rec'[q].dir].state = "good"
    <3>1. q = r
      BY <2>1, <2>2, <2>4, Zenon DEF OnlyRecorder
    <3> QED BY <2>1, <3>1, Zenon
  <2> QED BY <2>3, <2>4, FormFrame, Zenon
<1>10. ASSUME NEW r \in Recorders, WriteHead(r) PROVE FormInv'
  <2> DEFINE d == rec[r].dir
  <2>1. /\ OnlyRecorder(r) /\ rec'[r] = IdleRec /\ idxlock = r /\ OnlyIndex(d)
        /\ rec[r].gone => idx'[d] = idx[d]
        /\ ~rec[r].gone => idx[d].state = "good"
        /\ idx'[d].state = idx[d].state
    BY <1>10, DoesWriteHead, Zenon
  <2> HIDE DEF d
  <2>2. \A q \in Recorders : rec'[q].at # "entry"
    BY <2>1, IdleWrites, Zenon DEF OnlyRecorder, LockInv
  <2>3. \A e \in Days : idx'[e] = idx[e] \/ idx'[e].state = "good"
    BY <2>1, Zenon DEF OnlyIndex
  <2> QED BY <2>2, <2>3, FormQuiet, Zenon
<1>11. ASSUME UNCHANGED <<dirs, idx, rec>> PROVE FormInv'
  BY <1>11, Zenon DEF FormInv
<1>12. ASSUME NEW d \in Days, DeleteDay(d) PROVE FormInv'
  BY <1>11, <1>12, DoesDeleteDay, Zenon
<1>13. ASSUME NEW d \in Days, ImportIndex(d) PROVE FormInv'
  BY <1>11, <1>13, DoesImportIndex, Zenon
<1>14. ASSUME NEW f \in Files, DropEntry(f) PROVE FormInv'
  BY <1>11, <1>14, DoesDropEntry, Zenon
<1>15. ASSUME ReleaseEmpty PROVE FormInv'
  BY <1>15, DoesReleaseEmpty, FormRemoved, Zenon
<1>16. ASSUME CutOff PROVE FormInv'
  <2> DEFINE d == app.dir
  <2>1. /\ idxlock = "app" /\ OnlyIndex(d) /\ UNCHANGED rec
        /\ idx'[d] = IF d \in dirs THEN CutIndex ELSE idx[d]
    BY <1>16, DoesCutOff, Zenon
  <2> HIDE DEF d
  <2>2. \A q \in Recorders : rec'[q].at # "entry"
    BY <2>1, FreeOrOthers, NobodyEnters, Zenon
  <2>3. \A e \in Days : idx'[e] = idx[e] \/ idx'[e] = CutIndex
    BY <2>1, Zenon DEF OnlyIndex
  <2> QED BY <2>2, <2>3, FormQuiet, Zenon
<1>17. ASSUME WriteList PROVE FormInv'
  <2> DEFINE d == app.dir
  <2>1. /\ idxlock = "app" /\ OnlyIndex(d) /\ UNCHANGED rec
        /\ idx'[d] = IF app.gone \/ d \notin dirs THEN idx[d] ELSE Index(app.list)
    BY <1>17, DoesWriteList, Zenon
  <2> HIDE DEF d
  <2>2. \A q \in Recorders : rec'[q].at # "entry"
    BY <2>1, FreeOrOthers, NobodyEnters, Zenon
  <2>3. Index(app.list).state = "good"
    BY Zenon DEF Index
  <2>4. \A e \in Days : idx'[e] = idx[e] \/ idx'[e].state = "good"
    BY <2>1, <2>3, Zenon DEF OnlyIndex
  <2> QED BY <2>2, <2>4, FormQuiet, Zenon
<1>18. ASSUME CarryOut PROVE FormInv'
  <2> DEFINE d == Head(queue)[1]   f == Head(queue)[2]
  <2>1. /\ d \in Days
        /\ f = 0 => DirRemoved(d)
        /\ f # 0 => UNCHANGED <<dirs, idx, rec>>
    BY <1>18, DoesCarryOut, Zenon
  <2> HIDE DEF d, f
  <2> QED BY <1>11, <2>1, FormRemoved, Zenon
<1>19. ASSUME CleanBegins PROVE FormInv'
  BY <1>11, <1>19, DoesCleanBegins, Zenon
<1>20. ASSUME CleanEnds PROVE FormInv'
  BY <1>20, DoesCleanEnds, FormRemoved, Zenon
<1>21. ASSUME Restart PROVE FormInv'
  <2>1. /\ \A r \in Recorders : rec'[r] = IdleRec
        /\ \A d \in Days : idx'[d] = Found(d)
    BY <1>21, DoesRestart, Zenon
  <2>2. \A d \in Days : idx'[d] = idx[d] \/ idx'[d].state = "good"
    BY <2>1, FoundIs, Zenon
  <2> QED BY <2>1, <2>2, IdleWrites, FormQuiet, Zenon
<1> QED BY <1>1, <1>2, <1>3, <1>4, <1>5, <1>6, <1>7, <1>8, <1>9, <1>10, <1>12, <1>13,
           <1>14, <1>15, <1>16, <1>17, <1>18, <1>19, <1>20, <1>21, Zenon
        DEF RecIndexNext, Recorder, Deleter

(* The days, one at a time. *)

LEMMA SoundGrows ==
  ASSUME past.spoilt \subseteq past'.spoilt, NEW d, Sound(d)'
  PROVE  Sound(d)
BY Zenon DEF Sound

LEMMA HeadsAre ==
  ASSUME RecIndexType, NEW d \in Days
  PROVE  /\ idx[d].totol \in Nat /\ idx[d].list \in Seq(Nat) /\ Len(idx[d].list) \in Nat
         /\ idx[d].totol <= Len(idx[d].list) => Heads(d) \subseteq Entries(idx[d].list)
<1>1. idx[d] \in IndexRecord
  BY TypeParts, Zenon DEF IndexType
<1>2. idx[d].totol \in Nat /\ idx[d].list \in Seq(Nat) /\ Len(idx[d].list) \in Nat
  BY <1>1 DEF IndexRecord
<1>3. ASSUME idx[d].totol <= Len(idx[d].list)
      PROVE  \A i \in 1 .. idx[d].totol : i \in 1 .. Len(idx[d].list)
  BY <1>2, <1>3
<1> QED BY <1>2, <1>3, Zenon DEF Heads, Entries

LEMMA HeadsOfNew ==
  ASSUME NEW d \in Days, NEW s \in Seq(Nat), idx'[d] = Index(s)
  PROVE  /\ idx'[d].totol <= Len(idx'[d].list) /\ idx'[d].state = "good"
         /\ Heads(d)' = Entries(s)
         /\ Distinct(s) => HeadsDistinct(d)'
<1>1. /\ idx'[d].totol = Len(s) /\ idx'[d].list = s /\ idx'[d].state = "good"
  <2>1. Index(s).totol = Len(s) /\ Index(s).list = s /\ Index(s).state = "good"
    BY Zenon DEF Index
  <2> QED BY <2>1, Zenon
<1>2. Len(s) \in Nat /\ Len(s) <= Len(s)
  BY LenProperties
<1> QED BY <1>1, <1>2, Zenon DEF Heads, Entries, HeadsDistinct, Distinct

LEMMA HeadsOfNone ==
  ASSUME NEW d \in Days, idx'[d] \in {NoIndex, CutIndex}
  PROVE  /\ idx'[d].totol <= Len(idx'[d].list)
         /\ Heads(d)' = {} /\ HeadsDistinct(d)'
<1>1. idx'[d].totol = 0 /\ idx'[d].list = <<>> /\ Len(<<>>) = 0 /\ 1 .. 0 = {}
  BY Nothing, Zenon
<1>2. idx'[d].totol <= Len(idx'[d].list)
  BY <1>1
<1> QED BY <1>1, <1>2, Zenon DEF Heads, HeadsDistinct

LEMMA HeadsStay ==
  ASSUME NEW d \in Days, idx'[d].totol = idx[d].totol,
         \A i \in 1 .. idx[d].totol : idx'[d].list[i] = idx[d].list[i]
  PROVE  Heads(d)' = Heads(d) /\ (HeadsDistinct(d) => HeadsDistinct(d)')
<1>1. Heads(d)' = Heads(d)
  BY Zenon DEF Heads
<1>2. HeadsDistinct(d) => HeadsDistinct(d)'
  BY Zenon DEF HeadsDistinct
<1> QED BY <1>1, <1>2

(* What stands for a day's list: the index, or what the app has of it. *)
Listed(d) == IF Deleting(d) THEN Entries(app.list) ELSE Heads(d)

LEMMA DayIs ==
  ASSUME NEW d \in Days
  PROVE  DayRight(d) <=>
           /\ idx[d].totol <= Len(idx[d].list)
           /\ Right(d, Listed(d))
           /\ ~Deleting(d) => HeadsDistinct(d) /\ idx[d].state # "cut"
           /\ Deleting(d) => d \in dirs /\ ~app.gone /\ Distinct(app.list)
<1>1. CASE Deleting(d)
  BY <1>1, Zenon DEF DayRight, Listed
<1>2. CASE ~Deleting(d)
  BY <1>2, Zenon DEF DayRight, Listed
<1> QED BY <1>1, <1>2

LEMMA RightNext ==
  ASSUME NEW d \in Days, NEW L, L \subseteq files'[d],
         past'.kept \cap files'[d] \subseteq L, \A f \in L : ~Asked(d, f)'
  PROVE  /\ Listed(d)' = L => Right(d, Listed(d))'
         /\ Heads(d)' = L => Right(d, Heads(d))'
         /\ Entries(app.list)' = L => Right(d, Entries(app.list))'
BY Zenon DEF Right

LEMMA DayFrame ==
  ASSUME RecIndexType, DaysInv, NEW d \in Days, Sound(d),
         idx'[d].totol = idx[d].totol, idx'[d].state = idx[d].state,
         \A i \in 1 .. idx[d].totol : idx'[d].list[i] = idx[d].list[i],
         Len(idx[d].list) <= Len(idx'[d].list), Len(idx'[d].list) \in Nat,
         \A f \in files[d] \ files'[d] : f \notin Listed(d),
         past'.kept \cap files'[d] \subseteq past.kept \cap files[d],
         \A f \in Files : Asked(d, f)' => Asked(d, f),
         Deleting(d)' <=> Deleting(d),
         Deleting(d) => /\ app'.list = app.list /\ app'.gone = app.gone
                        /\ d \in dirs => d \in dirs'
  PROVE  DayRight(d)'
<1>1. DayRight(d)
  BY Zenon DEF DaysInv
<1>2. /\ idx[d].totol <= Len(idx[d].list) /\ Right(d, Listed(d))
      /\ ~Deleting(d) => HeadsDistinct(d) /\ idx[d].state # "cut"
      /\ Deleting(d) => d \in dirs /\ ~app.gone /\ Distinct(app.list)
  BY <1>1, DayIs, Zenon
<1>3. idx'[d].totol <= Len(idx'[d].list)
  BY <1>2, HeadsAre
<1>4. Heads(d)' = Heads(d) /\ (HeadsDistinct(d) => HeadsDistinct(d)')
  BY HeadsStay, Zenon
<1>5. /\ Deleting(d)  => Entries(app.list)' = Entries(app.list) /\ Listed(d) = Entries(app.list)
      /\ ~Deleting(d) => Listed(d) = Heads(d)
  BY Zenon DEF Entries, Listed
<1>6. /\ Listed(d) \subseteq files'[d]
      /\ past'.kept \cap files'[d] \subseteq Listed(d)
      /\ \A f \in Listed(d) : ~Asked(d, f)'
  <2>1. Listed(d) \subseteq files[d] /\ files[d] \subseteq Files
    BY <1>2, TypeParts, Zenon DEF Right, DiskType
  <2> QED BY <1>2, <2>1, Zenon DEF Right
<1>7. CASE Deleting(d)
  <2>1. Right(d, Entries(app.list))'
    BY <1>5, <1>6, <1>7, RightNext, Zenon
  <2>2. Distinct(app.list)' /\ ~app'.gone /\ d \in dirs'
    BY <1>2, <1>7, Zenon DEF Distinct
  <2> QED BY <1>3, <1>7, <2>1, <2>2, Zenon DEF DayRight
<1>8. CASE ~Deleting(d)
  <2>1. Right(d, Heads(d))'
    BY <1>4, <1>5, <1>6, <1>8, RightNext, Zenon
  <2> QED BY <1>2, <1>3, <1>4, <1>8, <2>1, Zenon DEF DayRight
<1> QED BY <1>7, <1>8

(* A day nothing is done to. *)
LEMMA DayUntouched ==
  ASSUME RecIndexType, DaysInv, NEW d \in Days, Sound(d),
         idx'[d] = idx[d], files'[d] = files[d],
         past'.kept \cap files[d] \subseteq past.kept,
         \A f \in Files : Asked(d, f)' => Asked(d, f),
         Deleting(d)' <=> Deleting(d),
         Deleting(d) => /\ app'.list = app.list /\ app'.gone = app.gone
                        /\ d \in dirs => d \in dirs'
  PROVE  DayRight(d)'
<1>1. Len(idx[d].list) \in Nat /\ Len(idx[d].list) <= Len(idx[d].list)
  BY HeadsAre
<1> QED BY <1>1, DayFrame, Zenon

LEMMA DayGone ==
  ASSUME NEW d \in Days, DirRemoved(d), ~Deleting(d)'
  PROVE  DayRight(d)'
<1>1. files'[d] = {} /\ idx'[d] = NoIndex
  BY Zenon DEF DirRemoved
<1>2. Heads(d)' = {} /\ HeadsDistinct(d)' /\ idx'[d].totol <= Len(idx'[d].list)
  BY <1>1, HeadsOfNone, Zenon
<1>3. Right(d, Heads(d))'
  BY <1>1, <1>2, RightNext, Zenon
<1>4. idx'[d].state # "cut"
  BY <1>1, Nothing
<1> QED BY <1>2, <1>3, <1>4, Zenon DEF DayRight

(* The other days when one day's directory goes. *)
LEMMA DayLeft ==
  ASSUME RecIndexType, DaysInv, NEW d \in Days, DirRemoved(d), NEW e \in Days, e # d,
         Sound(e), \A f \in Files : Asked(e, f)' => Asked(e, f),
         Deleting(e)' <=> Deleting(e),
         Deleting(e) => app'.list = app.list /\ app'.gone = app.gone
  PROVE  DayRight(e)'
<1>1. /\ idx'[e] = idx[e] /\ files'[e] = files[e] /\ past'.kept = past.kept
      /\ e \in dirs => e \in dirs'
  BY RemovedDays, Zenon DEF DirRemoved
<1> QED BY <1>1, DayUntouched, Zenon

LEMMA RecordingRightNow ==
  ASSUME RecordingsInv, NEW r \in Recorders, Writing(r), Sound(rec[r].dir)
  PROVE  RecordingRight(r)
BY Zenon DEF RecordingsInv

LEMMA StepDays ==
  ASSUME IndexInv, RecIndexNext
  PROVE  DaysInv'
<1> USE DEF IndexInv
<1>s. ASSUME past.spoilt \subseteq past'.spoilt,
             \A e \in Days : Sound(e) /\ Sound(e)' => DayRight(e)'
      PROVE  DaysInv'
  BY <1>s, SoundGrows, Zenon DEF DaysInv
<1>f. \A f \in Files : f # 0 /\ f \in 0 .. MaxFiles
  BY RecIndexAssumption DEF Files
<1>1. ASSUME UNCHANGED <<files, idx, app, past>>, dirs \subseteq dirs',
             \A e \in Days : \A f \in Files : Asked(e, f)' => Asked(e, f)
      PROVE  DaysInv'
  <2>1. ASSUME NEW e \in Days, Sound(e) PROVE DayRight(e)'
    BY <1>1, <2>1, DayUntouched, Zenon DEF Deleting
  <2> QED BY <1>1, <2>1, <1>s, Zenon
<1>2. ASSUME NEW r \in Recorders, NEW d \in Days, LookForDir(r, d) PROVE DaysInv'
  BY <1>1, <1>2, DoesLookForDir, Zenon DEF Asked
<1>3. ASSUME NEW r \in Recorders, MakeDir(r) PROVE DaysInv'
  <2>1. dirs' = dirs \cup {rec[r].dir} /\ UNCHANGED <<files, idx, app, queue, past>>
    BY <1>3, DoesMakeDir, Zenon
  <2> QED BY <1>1, <2>1, Zenon DEF Asked
<1>4. ASSUME NEW r \in Recorders, ListDay(r) PROVE DaysInv'
  BY <1>1, <1>4, DoesListDay, Zenon DEF Asked
<1>5. ASSUME NEW r \in Recorders, MakeIndex(r) PROVE DaysInv'
  <2>d. PICK d : d = rec[r].dir
    OBVIOUS
  <2>1. /\ d \in Days /\ OnlyIndex(d)
        /\ idx'[d] = IF d \in dirs THEN Index(<<>>) ELSE idx[d]
        /\ past'.kept = past.kept
        /\ past'.spoilt = past.spoilt \cup
             (IF InUse(d) \/ idx[d].totol > 0 THEN {d} ELSE {})
        /\ UNCHANGED <<dirs, files, app, queue>>
    BY <1>5, <2>d, DoesMakeIndex, Zenon
  <2>2. ASSUME NEW e \in Days, Sound(e), idx'[e] = idx[e] PROVE DayRight(e)'
    BY <2>1, <2>2, DayUntouched, Zenon DEF Deleting, Asked
  <2>3. ASSUME d \in dirs, Sound(d), Sound(d)' PROVE DayRight(d)'
    <3>1. ~InUse(d) /\ ~ (idx[d].totol > 0)
      BY <2>1, <2>3, Zenon DEF Sound
    <3>2. ~Deleting(d) /\ ~Deleting(d)'
      BY <2>1, <3>1, Zenon DEF InUse, Deleting
    <3>3. idx[d].totol = 0
      BY <2>1, <3>1, HeadsAre
    <3>4. Heads(d) = {}
      BY <3>3, Nothing, Zenon DEF Heads
    <3>5. Right(d, Heads(d))
      BY <2>1, <2>3, <3>2, Zenon DEF DaysInv, DayRight
    <3>6. past'.kept \cap files'[d] \subseteq {}
      BY <2>1, <3>4, <3>5, Zenon DEF Right
    <3>7. /\ idx'[d].totol <= Len(idx'[d].list) /\ idx'[d].state = "good"
          /\ Heads(d)' = Entries(<<>>) /\ HeadsDistinct(d)'
      <4>1. <<>> \in Seq(Nat) /\ idx'[d] = Index(<<>>)
        BY <2>1, <2>3, EmptySeq, Zenon
      <4> QED BY <2>1, <4>1, HeadsOfNew, Nothing, Zenon
    <3>8. Right(d, Heads(d))'
      BY <2>1, <3>6, <3>7, Nothing, RightNext, Zenon
    <3>9. idx'[d].state # "cut"
      BY <3>7
    <3> QED BY <3>2, <3>7, <3>8, <3>9, Zenon DEF DayRight
  <2>4. ASSUME NEW e \in Days, Sound(e), Sound(e)' PROVE DayRight(e)'
    <3>1. CASE e = d /\ d \in dirs
      BY <2>3, <2>4, <3>1, Zenon
    <3>2. CASE ~ (e = d /\ d \in dirs)
      <4>1. idx'[e] = idx[e]
        BY <2>1, <3>2, Zenon DEF OnlyIndex
      <4> QED BY <2>2, <2>4, <4>1, Zenon
    <3> QED BY <3>1, <3>2
  <2> QED BY <2>1, <2>4, <1>s, Zenon
<1>6. ASSUME NEW r \in Recorders, OpenRecording(r) PROVE DaysInv'
  <2> DEFINE d == rec[r].dir   f == past.begun + 1
  <2>1. /\ d \in Days /\ OnlyFiles(d) /\ files'[d] = files[d] \cup {f}
        /\ past'.kept = past.kept /\ past'.spoilt = past.spoilt
        /\ UNCHANGED <<dirs, idx, app, queue>>
    BY <1>6, DoesOpenRecording, Zenon
  <2>2. past.begun \in Nat
    BY TypeParts, PastParts, RecIndexAssumption
  <2>3. ~ (f <= past.begun)
    BY <2>2
  <2> HIDE DEF d, f
  <2>4. f \notin past.kept
    BY <2>3, Zenon DEF KnownInv
  <2>5. ASSUME NEW e \in Days, Sound(e) PROVE DayRight(e)'
    <3>1. files[e] \subseteq files'[e] /\ past'.kept \cap files'[e] \subseteq past.kept \cap files[e]
      <4>1. CASE e = d
        BY <2>1, <2>4, <4>1, Zenon
      <4>2. CASE e # d
        BY <2>1, <4>2, Zenon DEF OnlyFiles
      <4> QED BY <4>1, <4>2
    <3>2. Len(idx[e].list) \in Nat /\ Len(idx[e].list) <= Len(idx[e].list)
      BY HeadsAre
    <3>3. \A g \in files[e] \ files'[e] : g \notin Listed(e)
      BY <3>1, Zenon
    <3> QED BY <2>1, <2>5, <3>1, <3>2, <3>3, DayFrame, Zenon DEF Deleting, Asked
  <2> QED BY <2>1, <2>5, <1>s, Zenon
<1>7. ASSUME NEW r \in Recorders, OpenFails(r) PROVE DaysInv'
  BY <1>1, <1>7, DoesOpenFails, Zenon DEF Asked
<1>8. ASSUME NEW r \in Recorders, DropRecording(r) PROVE DaysInv'
  <2> DEFINE d == rec[r].dir   f == rec[r].name
  <2>1. /\ rec[r].at = "open" /\ d \in Days /\ OnlyFiles(d) /\ files'[d] = files[d] \ {f}
        /\ UNCHANGED <<dirs, idx, app, queue, past>>
    BY <1>8, DoesDropRecording, Zenon
  <2>2. Sound(d) => f \notin Listed(d)
    <3>1. Writing(r)
      BY <2>1 DEF Writing
    <3> QED BY <3>1, RecordingRightNow, Zenon DEF RecordingRight, RecordingFits, Listed
  <2> HIDE DEF d, f
  <2>3. ASSUME NEW e \in Days, Sound(e) PROVE DayRight(e)'
    <3>1. /\ files'[e] \subseteq files[e]
          /\ \A g \in files[e] \ files'[e] : g \notin Listed(e)
      <4>1. CASE e = d
        BY <2>1, <2>2, <2>3, <4>1, Zenon
      <4>2. CASE e # d
        BY <2>1, <4>2, Zenon DEF OnlyFiles
      <4> QED BY <4>1, <4>2
    <3>2. Len(idx[e].list) \in Nat /\ Len(idx[e].list) <= Len(idx[e].list)
      BY HeadsAre
    <3>3. past'.kept \cap files'[e] \subseteq past.kept \cap files[e]
      BY <2>1, <3>1, Zenon
    <3> QED BY <2>1, <2>3, <3>1, <3>2, <3>3, DayFrame, Zenon DEF Deleting, Asked
  <2> QED BY <2>1, <2>3, <1>s, Zenon
<1>9. ASSUME NEW r \in Recorders, StartIndex(r) PROVE DaysInv'
  <2>d. PICK d, f : d = rec[r].dir /\ f = rec[r].name
    OBVIOUS
  <2>1. /\ rec[r].at = "open" /\ d \in Days /\ f \in Files /\ idxlock = "free"
        /\ idx[d].state # "good" /\ OnlyIndex(d)
        /\ idx'[d] = IF d \in dirs THEN Index(<<f>>) ELSE idx[d]
        /\ past'.spoilt = past.spoilt
        /\ past'.kept = past.kept \cup (IF d \in dirs THEN {f} ELSE {})
        /\ UNCHANGED <<dirs, files, app, queue>>
    BY <1>9, <2>d, DoesStartIndex, Zenon
  <2>2. Writing(r) /\ app.at = "idle"
    <3>1. Writing(r)
      BY <2>1, Zenon DEF Writing
    <3>2. idxlock # "app"
      BY <2>1
    <3> QED BY <3>1, <3>2, Zenon DEF LockInv
  <2>3. \A e \in Days : e # d => f \notin files[e]
    BY <2>d, <2>2, Zenon DEF OwnInv
  <2>4. Sound(d) => /\ f \in files[d] /\ ~Asked(d, f)
    BY <2>d, <2>2, RecordingRightNow, Zenon
      DEF RecordingRight, RecordingFits, EntryFits
  <2>5. \A e : ~Deleting(e) /\ ~Deleting(e)'
    BY <2>1, <2>2, Zenon DEF Deleting
  <2>6. ASSUME d \in dirs, Sound(d) PROVE DayRight(d)'
    <3>1. idx[d].state = "none"
      <4>1. idx[d].state # "cut"
        BY <2>1, <2>5, <2>6, Zenon DEF DaysInv, DayRight
      <4>2. idx[d] \in IndexRecord
        BY <2>1, TypeParts, Zenon DEF IndexType
      <4> QED BY <2>1, <4>1, <4>2 DEF IndexRecord
    <3>2. Heads(d) = {}
      <4>1. idx[d].totol = 0
        BY <2>1, <3>1, Nothing, Zenon DEF FormInv
      <4> QED BY <4>1, Nothing, Zenon DEF Heads
    <3>3. past.kept \cap files[d] \subseteq {}
      BY <2>1, <2>5, <2>6, <3>2, Zenon DEF DaysInv, DayRight, Right
    <3>4. <<f>> \in Seq(Nat)
      <4>1. f \in Nat
        BY <2>1, RecIndexAssumption DEF Files
      <4> QED BY <4>1
    <3>5. Entries(<<f>>) = {f} /\ Distinct(<<f>>) /\ idx'[d] = Index(<<f>>)
      BY <2>1, <2>6, Singleton, Zenon
    <3>6. /\ idx'[d].totol <= Len(idx'[d].list) /\ idx'[d].state = "good"
          /\ Heads(d)' = {f} /\ HeadsDistinct(d)'
      BY <2>1, <3>4, <3>5, HeadsOfNew, Zenon
    <3>7. /\ {f} \subseteq files'[d] /\ past'.kept \cap files'[d] \subseteq {f}
          /\ \A g \in {f} : ~Asked(d, g)'
      BY <2>1, <2>4, <2>6, <3>3, Zenon DEF Asked
    <3>8. Right(d, Heads(d))'
      BY <2>1, <3>6, <3>7, RightNext, Zenon
    <3>9. idx'[d].state # "cut"
      BY <3>6
    <3> QED BY <2>5, <3>6, <3>8, <3>9, Zenon DEF DayRight
  <2>7. ASSUME NEW e \in Days, Sound(e), e # d \/ d \notin dirs PROVE DayRight(e)'
    <3>1. idx'[e] = idx[e] /\ past'.kept \cap files[e] \subseteq past.kept
      <4>1. CASE e = d
        BY <2>1, <2>7, <4>1, Zenon
      <4>2. CASE e # d
        BY <2>1, <2>3, <4>2, Zenon DEF OnlyIndex
      <4> QED BY <4>1, <4>2
    <3> QED BY <2>1, <2>5, <2>7, <3>1, DayUntouched, Zenon DEF Asked
  <2> QED BY <2>1, <2>6, <2>7, <1>s, Zenon
<1>10. ASSUME NEW r \in Recorders, WriteEntry(r) PROVE DaysInv'
  <2>d. PICK d : d = rec[r].dir
    OBVIOUS
  <2> DEFINE i == idx[d].totol + 1
  <2>1. /\ d \in Days /\ idx[d].state = "good" /\ OnlyIndex(d)
        /\ idx'[d].state = "good" /\ idx'[d].totol = idx[d].totol
        /\ \A j \in 1 .. Len(idx[d].list) : j # i => idx'[d].list[j] = idx[d].list[j]
        /\ Len(idx[d].list) <= Len(idx'[d].list)
        /\ RecIndexType'
        /\ UNCHANGED <<dirs, files, app, queue, past>>
    BY <1>10, <2>d, DoesWriteEntry, Zenon
  <2>2. ASSUME Sound(d)
        PROVE  \A j \in 1 .. idx[d].totol : idx'[d].list[j] = idx[d].list[j]
    <3>1. idx[d].totol <= Len(idx[d].list)
      BY <2>1, <2>2, Zenon DEF DaysInv, DayRight
    <3>2. \A j \in 1 .. idx[d].totol : j \in 1 .. Len(idx[d].list) /\ j # i
      BY <2>1, <3>1, HeadsAre
    <3> QED BY <2>1, <3>2, Zenon
  <2>3. Len(idx'[d].list) \in Nat
    <3>1. idx'[d] \in IndexRecord
      BY <2>1, TypePartsNext, Zenon DEF IndexType
    <3> QED BY <3>1 DEF IndexRecord
  <2>4. ASSUME NEW e \in Days, Sound(e) PROVE DayRight(e)'
    <3>1. CASE e = d
      BY <2>1, <2>2, <2>3, <2>4, <3>1, DayFrame, Zenon DEF Deleting, Asked
    <3>2. CASE e # d
      BY <2>1, <2>4, <3>2, DayUntouched, Zenon DEF Deleting, Asked, OnlyIndex
    <3> QED BY <3>1, <3>2
  <2> QED BY <2>1, <2>4, <1>s, Zenon
<1>11. ASSUME NEW r \in Recorders, WriteHead(r) PROVE DaysInv'
  <2>d. PICK d, f : d = rec[r].dir /\ f = rec[r].name
    OBVIOUS
  <2>t. PICK t : t = idx[d].totol
    OBVIOUS
  <2>1. /\ rec[r].at = "entry" /\ d \in Days /\ f \in Files /\ idxlock = r /\ OnlyIndex(d)
        /\ idx'[d].list = idx[d].list /\ idx'[d].state = idx[d].state
        /\ idx'[d].totol = IF rec[r].gone THEN t ELSE t + 1
        /\ past'.spoilt = past.spoilt
        /\ past'.kept = past.kept \cup (IF rec[r].gone THEN {} ELSE {f})
        /\ rec[r].gone => idx'[d] = idx[d]
        /\ ~rec[r].gone => idx[d].state = "good"
        /\ UNCHANGED <<dirs, files, app, queue>>
    BY <1>11, <2>d, <2>t, DoesWriteHead, Zenon
  <2>2. Writing(r) /\ app.at = "idle"
    <3>1. Writing(r)
      BY <2>1, Zenon DEF Writing
    <3>2. idxlock # "app"
      BY <2>1, RecorderNames, Zenon DEF Others
    <3> QED BY <3>1, <3>2, Zenon DEF LockInv
  <2>3. \A e \in Days : e # d => f \notin files[e]
    BY <2>d, <2>2, Zenon DEF OwnInv
  <2>4. Sound(d) => /\ f \in files[d] /\ ~Asked(d, f) /\ f \notin Heads(d)
                    /\ t < Len(idx[d].list) /\ idx[d].list[t + 1] = f
    BY <2>d, <2>t, <2>1, <2>2, RecordingRightNow, Zenon
      DEF RecordingRight, RecordingFits, EntryFits
  <2>5. \A e : ~Deleting(e) /\ ~Deleting(e)'
    BY <2>1, <2>2, Zenon DEF Deleting
  <2>6. ASSUME ~rec[r].gone, Sound(d) PROVE DayRight(d)'
    <3>1. /\ t \in Nat /\ Len(idx[d].list) \in Nat
          /\ HeadsDistinct(d) /\ Right(d, Heads(d))
      BY <2>t, <2>1, <2>5, <2>6, HeadsAre, Zenon DEF DaysInv, DayRight
    <3>2. t + 1 <= Len(idx[d].list)
      BY <2>4, <2>6, <3>1
    <3>3. 1 .. (t + 1) = 1 .. t \cup {t + 1} /\ \A j \in 1 .. t : j # t + 1
      BY <3>1
    <3>4. idx'[d].totol = t + 1 /\ idx'[d].list = idx[d].list
      BY <2>1, <2>6, Zenon
    <3>t. PICK u : u = t + 1
      OBVIOUS
    <3>5. /\ idx'[d].totol = u /\ idx'[d].list = idx[d].list /\ idx[d].list[u] = f
          /\ 1 .. u = 1 .. t \cup {u} /\ \A j \in 1 .. t : j # u
      BY <2>4, <2>6, <3>3, <3>4, <3>t
    <3>6. Heads(d) = {idx[d].list[j] : j \in 1 .. t}
      BY <2>t, Zenon DEF Heads
    <3>7. Heads(d)' = Heads(d) \cup {f}
      <4>1. Heads(d)' = {idx'[d].list[j] : j \in 1 .. idx'[d].totol}
        BY Zenon DEF Heads
      <4>2. Heads(d)' = {idx[d].list[j] : j \in 1 .. u}
        BY <3>5, <4>1, Zenon
      <4>3. 1 .. t \subseteq 1 .. u /\ u \in 1 .. u
        BY <3>5, Zenon
      <4>4. Heads(d)' \subseteq Heads(d) \cup {f}
        BY <3>5, <3>6, <4>2, Zenon
      <4>5. Heads(d) \cup {f} \subseteq Heads(d)'
        BY <3>5, <3>6, <4>2, <4>3, Zenon
      <4> QED BY <4>4, <4>5, Zenon
    <3>8. HeadsDistinct(d)'
      <4>1. \A j \in 1 .. t : idx[d].list[j] # f
        BY <2>4, <2>6, <3>6, Zenon
      <4>2. \A i, j \in 1 .. t : idx[d].list[i] = idx[d].list[j] => i = j
        BY <2>t, <3>1, Zenon DEF HeadsDistinct
      <4>3. ASSUME NEW i \in 1 .. u, NEW j \in 1 .. u, idx[d].list[i] = idx[d].list[j]
            PROVE  i = j
        <5>1. CASE i = u
          BY <3>5, <4>1, <4>3, <5>1, Zenon
        <5>2. CASE j = u
          BY <3>5, <4>1, <4>3, <5>2, Zenon
        <5>3. CASE i # u /\ j # u
          BY <3>5, <4>2, <4>3, <5>3, Zenon
        <5> QED BY <5>1, <5>2, <5>3
      <4>4. \A i, j \in 1 .. idx'[d].totol : idx'[d].list[i] = idx'[d].list[j] => i = j
        BY <3>5, <4>3, Zenon
      <4> QED BY <4>4, Zenon DEF HeadsDistinct
    <3>9. Right(d, Heads(d))'
      <4>1. /\ Heads(d) \cup {f} \subseteq files'[d]
            /\ past'.kept \cap files'[d] \subseteq Heads(d) \cup {f}
            /\ \A g \in Heads(d) \cup {f} : ~Asked(d, g)'
        BY <2>1, <2>4, <2>6, <3>1, Zenon DEF Right, Asked
      <4> QED BY <2>1, <3>7, <4>1, RightNext, Zenon
    <3>10. idx'[d].totol <= Len(idx'[d].list)
      BY <3>2, <3>5, <3>t, Zenon
    <3>11. idx'[d].state # "cut"
      BY <2>1, <2>6
    <3> QED BY <2>5, <3>8, <3>9, <3>10, <3>11, Zenon DEF DayRight
  <2>7. ASSUME NEW e \in Days, Sound(e), e # d \/ rec[r].gone PROVE DayRight(e)'
    <3>1. idx'[e] = idx[e] /\ past'.kept \cap files[e] \subseteq past.kept
      <4>1. CASE e = d
        BY <2>1, <2>7, <4>1, Zenon
      <4>2. CASE e # d
        BY <2>1, <2>3, <4>2, Zenon DEF OnlyIndex
      <4> QED BY <4>1, <4>2
    <3> QED BY <2>1, <2>5, <2>7, <3>1, DayUntouched, Zenon DEF Asked
  <2> QED BY <2>1, <2>6, <2>7, <1>s, Zenon
<1>12. ASSUME NEW d \in Days, DeleteDay(d) PROVE DaysInv'
  <2>1. /\ \A e \in Days : \A g \in 0 .. MaxFiles :
             Asked(e, g)' => Asked(e, g) \/ (e = d /\ g = 0)
        /\ UNCHANGED <<dirs, files, idx, app, past>>
    BY <1>12, DoesDeleteDay, Zenon
  <2>2. \A e \in Days : \A g \in Files : Asked(e, g)' => Asked(e, g)
    BY <1>f, <2>1, Zenon
  <2> QED BY <1>1, <2>1, <2>2, Zenon
<1>13. ASSUME NEW d \in Days, ImportIndex(d) PROVE DaysInv'
  <2>1. /\ d \in dirs /\ app.at = "idle" /\ app'.at = "has" /\ app'.dir = d
        /\ app'.gone = FALSE /\ app'.list = Counted(d)
        /\ UNCHANGED <<dirs, files, idx, queue, past>>
    BY <1>13, DoesImportIndex, Zenon
  <2>2. \A e \in Days : ~Deleting(e) /\ (Deleting(e)' <=> e = d)
    <3>1. app'.at # "idle"
      BY <2>1
    <3> QED BY <2>1, <3>1, Zenon DEF Deleting
  <2>3. ASSUME Sound(d) PROVE DayRight(d)'
    <3>1. /\ idx[d].totol <= Len(idx[d].list) /\ HeadsDistinct(d) /\ Right(d, Heads(d))
      BY <2>2, <2>3, Zenon DEF DaysInv, DayRight
    <3>2. /\ Len(app'.list) = idx[d].totol
          /\ \A i \in 1 .. idx[d].totol : app'.list[i] = idx[d].list[i]
      <4>1. idx[d] \in IndexRecord
        BY TypeParts, Zenon DEF IndexType
      <4> QED BY <2>1, <3>1, <4>1, CountedIs, Zenon
    <3>3. Entries(app.list)' = Heads(d)
      BY <3>2, Zenon DEF Entries, Heads
    <3>4. Distinct(app.list)'
      BY <3>1, <3>2, Zenon DEF Distinct, HeadsDistinct
    <3>5. Right(d, Entries(app.list))'
      BY <2>1, <3>1, <3>3, RightNext, Zenon DEF Right, Asked
    <3> QED BY <2>1, <2>2, <3>1, <3>4, <3>5, Zenon DEF DayRight
  <2>4. ASSUME NEW e \in Days, Sound(e), e # d PROVE DayRight(e)'
    <3>1. ~Deleting(e) /\ ~Deleting(e)'
      BY <2>2, <2>4, Zenon
    <3> QED BY <2>1, <2>4, <3>1, DayUntouched, Zenon DEF Asked
  <2> QED BY <2>1, <2>3, <2>4, <1>s, Zenon
<1>14. ASSUME NEW f \in Files, DropEntry(f) PROVE DaysInv'
  <2>d. PICK d : d = app.dir
    OBVIOUS
  <2>1. /\ app.at = "has" /\ Contains(app.list, f) /\ app.list \in Seq(Nat)
        /\ app'.at = "has" /\ app'.dir = d /\ app'.gone = app.gone
        /\ app'.list = RemoveFirst(app.list, f)
        /\ \A e \in Days : \A g \in 0 .. MaxFiles :
             Asked(e, g)' => Asked(e, g) \/ (e = d /\ g = f)
        /\ past'.spoilt = past.spoilt /\ past'.kept = past.kept \ {f}
        /\ UNCHANGED <<dirs, files, idx>>
    BY <1>14, <2>d, DoesDropEntry, Zenon
  <2>2. /\ d \in Days /\ Deleting(d) /\ Deleting(d)'
        /\ \A e : e # d => ~Deleting(e) /\ ~Deleting(e)'
    <3>1. app.at # "idle" /\ app'.at # "idle"
      BY <2>1
    <3> QED BY <2>d, <2>1, <3>1, Zenon DEF Deleting, LockInv
  <2>3. ASSUME Sound(d) PROVE DayRight(d)'
    <3>1. /\ idx[d].totol <= Len(idx[d].list) /\ d \in dirs /\ ~app.gone
          /\ Distinct(app.list) /\ Right(d, Entries(app.list))
      BY <2>2, <2>3, Zenon DEF DaysInv, DayRight
    <3>2. /\ Entries(app.list)' \subseteq Entries(app.list)
          /\ Entries(app.list) \ {f} \subseteq Entries(app.list)'
          /\ Distinct(app.list)' /\ f \notin Entries(app.list)'
      <4>1. /\ Entries(app'.list) \subseteq Entries(app.list)
            /\ Entries(app.list) \ {f} \subseteq Entries(app'.list)
            /\ Distinct(app'.list) /\ f \notin Entries(app'.list)
        BY <2>1, <3>1, RemoveFirstEntries
      <4> QED BY <4>1, Zenon DEF Entries, Distinct
    <3>3. \A g \in Entries(app.list)' : ~Asked(d, g)'
      <4>1. Entries(app.list)' \subseteq 0 .. MaxFiles
        BY <3>1, <3>2, <1>f, TypeParts, Zenon DEF Right, DiskType
      <4> QED BY <2>1, <2>2, <3>1, <3>2, <4>1, Zenon DEF Right
    <3>4. /\ Entries(app.list)' \subseteq files'[d]
          /\ past'.kept \cap files'[d] \subseteq Entries(app.list)'
      BY <2>1, <3>1, <3>2, Zenon DEF Right
    <3>5. Right(d, Entries(app.list))'
      BY <2>2, <3>3, <3>4, RightNext, Zenon
    <3> QED BY <2>1, <2>2, <3>1, <3>2, <3>5, Zenon DEF DayRight
  <2>4. ASSUME NEW e \in Days, Sound(e), e # d PROVE DayRight(e)'
    <3>1. ~Deleting(e) /\ ~Deleting(e)'
      BY <2>2, <2>4, Zenon
    <3>2. \A g \in Files : Asked(e, g)' => Asked(e, g)
      BY <1>f, <2>1, <2>4, Zenon
    <3> QED BY <2>1, <2>4, <3>1, <3>2, DayUntouched, Zenon
  <2> QED BY <2>1, <2>3, <2>4, <1>s, Zenon
<1>d. ASSUME NEW d \in Days, DirRemoved(d), past.spoilt \subseteq past'.spoilt,
             Sound(d) /\ Sound(d)' => ~Deleting(d)',
             \A e \in Days : e # d => (Deleting(e)' <=> Deleting(e)),
             \A e \in Days : e # d /\ Deleting(e) =>
               app'.list = app.list /\ app'.gone = app.gone,
             \A e \in Days : \A g \in Files : Asked(e, g)' => Asked(e, g)
      PROVE  DaysInv'
  <2>1. Sound(d) /\ Sound(d)' => DayRight(d)'
    BY <1>d, DayGone, Zenon
  <2>2. ASSUME NEW e \in Days, Sound(e), e # d PROVE DayRight(e)'
    BY <1>d, <2>2, DayLeft, Zenon
  <2> QED BY <1>d, <2>1, <2>2, <1>s, Zenon
<1>e. ASSUME NEW d \in Days, DirRemoved(d), UNCHANGED app,
             past'.spoilt = past.spoilt \cup (IF d \in dirs /\ InUse(d) THEN {d} ELSE {}),
             \A e \in Days : \A g \in Files : Asked(e, g)' => Asked(e, g)
      PROVE  DaysInv'
  <2>1. \A e : Deleting(e)' <=> Deleting(e)
    BY <1>e, Zenon DEF Deleting
  <2>2. ASSUME Sound(d), Sound(d)', Deleting(d) PROVE FALSE
    <3>1. d \in dirs /\ InUse(d)
      BY <2>2, Zenon DEF DaysInv, DayRight, InUse
    <3> QED BY <1>e, <2>2, <3>1, Zenon DEF Sound
  <2>3. past.spoilt \subseteq past'.spoilt
    BY <1>e, Zenon
  <2> QED BY <1>d, <1>e, <2>1, <2>2, <2>3, Zenon
<1>15. ASSUME ReleaseEmpty PROVE DaysInv'
  <2>d. PICK d : d = app.dir
    OBVIOUS
  <2>1. /\ d \in Days /\ app.at = "has" /\ DirRemoved(d) /\ app' = IdleApp
        /\ past'.spoilt = past.spoilt \cup
             (IF d \in dirs /\ Recording(d) THEN {d} ELSE {})
        /\ UNCHANGED queue
    BY <1>15, <2>d, DoesReleaseEmpty, Zenon
  <2>2. /\ Deleting(d) /\ ~Deleting(d)'
        /\ \A e : e # d => ~Deleting(e) /\ ~Deleting(e)'
    <3>1. app.at # "idle" /\ app'.at = "idle"
      BY <2>1, Nothing
    <3> QED BY <2>d, <3>1, Zenon DEF Deleting
  <2>3. past.spoilt \subseteq past'.spoilt
    BY <2>1, Zenon
  <2> QED BY <1>d, <2>1, <2>2, <2>3, Zenon DEF Asked
<1>16. ASSUME CutOff PROVE DaysInv'
  <2>d. PICK d : d = app.dir
    OBVIOUS
  <2>1. /\ d \in Days /\ app.at = "has" /\ app'.at = "cut" /\ app'.dir = d
        /\ app'.list = app.list /\ app'.gone = (d \notin dirs)
        /\ OnlyIndex(d) /\ idx'[d] = IF d \in dirs THEN CutIndex ELSE idx[d]
        /\ UNCHANGED <<dirs, files, queue, past>>
    BY <1>16, <2>d, DoesCutOff, Zenon
  <2>2. /\ Deleting(d) /\ Deleting(d)'
        /\ \A e : e # d => ~Deleting(e) /\ ~Deleting(e)'
    <3>1. app.at # "idle" /\ app'.at # "idle"
      BY <2>1
    <3> QED BY <2>d, <2>1, <3>1, Zenon DEF Deleting
  <2>3. ASSUME Sound(d) PROVE DayRight(d)'
    <3>1. d \in dirs /\ Distinct(app.list) /\ Right(d, Entries(app.list))
      BY <2>1, <2>2, <2>3, Zenon DEF DaysInv, DayRight
    <3>2. idx'[d].totol <= Len(idx'[d].list)
      BY <2>1, <3>1, HeadsOfNone, Zenon
    <3>3. Entries(app.list)' = Entries(app.list) /\ Distinct(app.list)'
      BY <2>1, <3>1, Zenon DEF Entries, Distinct
    <3>4. Right(d, Entries(app.list))'
      BY <2>1, <3>1, <3>3, RightNext, Zenon DEF Right, Asked
    <3> QED BY <2>1, <2>2, <3>1, <3>2, <3>3, <3>4, Zenon DEF DayRight
  <2>4. ASSUME NEW e \in Days, Sound(e), e # d PROVE DayRight(e)'
    <3>1. ~Deleting(e) /\ ~Deleting(e)'
      BY <2>2, <2>4, Zenon
    <3> QED BY <2>1, <2>4, <3>1, DayUntouched, Zenon DEF Asked, OnlyIndex
  <2> QED BY <2>1, <2>3, <2>4, <1>s, Zenon
<1>17. ASSUME WriteList PROVE DaysInv'
  <2>d. PICK d : d = app.dir
    OBVIOUS
  <2>1. /\ d \in Days /\ app.at = "cut" /\ app' = IdleApp /\ OnlyIndex(d)
        /\ idx'[d] = IF app.gone \/ d \notin dirs THEN idx[d] ELSE Index(app.list)
        /\ UNCHANGED <<dirs, files, queue, past>>
    BY <1>17, <2>d, DoesWriteList, Zenon
  <2>2. /\ Deleting(d) /\ ~Deleting(d)'
        /\ \A e : e # d => ~Deleting(e) /\ ~Deleting(e)'
    <3>1. app.at # "idle" /\ app'.at = "idle"
      BY <2>1, Nothing
    <3> QED BY <2>d, <3>1, Zenon DEF Deleting
  <2>3. ASSUME Sound(d) PROVE DayRight(d)'
    <3>1. d \in dirs /\ ~app.gone /\ Distinct(app.list) /\ Right(d, Entries(app.list))
      BY <2>1, <2>2, <2>3, Zenon DEF DaysInv, DayRight
    <3>2. app.list \in Seq(Nat)
      <4>1. app \in AppRecord
        BY TypeParts, Zenon DEF AppType
      <4> QED BY <4>1 DEF AppRecord
    <3>l. PICK s : s = app.list
      OBVIOUS
    <3>3. /\ idx'[d].totol <= Len(idx'[d].list) /\ idx'[d].state = "good"
          /\ Heads(d)' = Entries(s) /\ HeadsDistinct(d)'
      <4>1. s \in Seq(Nat) /\ idx'[d] = Index(s) /\ Distinct(s)
        BY <2>1, <3>1, <3>2, <3>l, Zenon
      <4> QED BY <2>1, <4>1, HeadsOfNew, Zenon
    <3>4. Right(d, Heads(d))'
      BY <2>1, <3>1, <3>3, <3>l, RightNext, Zenon DEF Right, Asked
    <3>5. idx'[d].state # "cut"
      BY <3>3
    <3> QED BY <2>2, <3>3, <3>4, <3>5, Zenon DEF DayRight
  <2>4. ASSUME NEW e \in Days, Sound(e), e # d PROVE DayRight(e)'
    <3>1. ~Deleting(e) /\ ~Deleting(e)'
      BY <2>2, <2>4, Zenon
    <3> QED BY <2>1, <2>4, <3>1, DayUntouched, Zenon DEF Asked, OnlyIndex
  <2> QED BY <2>1, <2>3, <2>4, <1>s, Zenon
<1>18. ASSUME CarryOut PROVE DaysInv'
  <2>d. PICK d, f : d = Head(queue)[1] /\ f = Head(queue)[2]
    OBVIOUS
  <2>1. /\ d \in Days /\ f \in 0 .. MaxFiles /\ Asked(d, f)
        /\ \A e, g : Asked(e, g)' => Asked(e, g)
        /\ f = 0 => /\ DirRemoved(d)
                    /\ past'.spoilt = past.spoilt \cup
                         (IF d \in dirs /\ InUse(d) THEN {d} ELSE {})
        /\ f # 0 => /\ OnlyFiles(d) /\ files'[d] = files[d] \ {f}
                    /\ UNCHANGED <<dirs, idx, past>>
        /\ UNCHANGED app
    BY <1>18, <2>d, DoesCarryOut, Zenon
  <2>2. CASE f = 0
    BY <1>e, <2>1, <2>2, Zenon
  <2>3. CASE f # 0
    <3>1. \A e : Deleting(e)' <=> Deleting(e)
      BY <2>1, Zenon DEF Deleting
    <3>2. ASSUME NEW e \in Days, Sound(e) PROVE DayRight(e)'
      <4>1. /\ files'[e] \subseteq files[e]
            /\ \A g \in files[e] \ files'[e] : g \notin Listed(e)
        <5>1. CASE e = d
          <6>1. Right(d, Listed(d))
            BY <2>1, <3>2, <5>1, DayIs, Zenon DEF DaysInv
          <6> QED BY <2>1, <2>3, <5>1, <6>1, Zenon DEF Right
        <5>2. CASE e # d
          BY <2>1, <2>3, <5>2, Zenon DEF OnlyFiles
        <5> QED BY <5>1, <5>2
      <4>2. Len(idx[e].list) \in Nat /\ Len(idx[e].list) <= Len(idx[e].list)
        BY HeadsAre
      <4>3. past'.kept \cap files'[e] \subseteq past.kept \cap files[e]
        BY <2>1, <2>3, <4>1, Zenon
      <4> QED BY <2>1, <2>3, <3>1, <3>2, <4>1, <4>2, <4>3, DayFrame, Zenon
    <3> QED BY <2>1, <2>3, <3>2, <1>s, Zenon
  <2> QED BY <2>2, <2>3
<1>19. ASSUME CleanBegins PROVE DaysInv'
  BY <1>1, <1>19, DoesCleanBegins, Zenon DEF Asked
<1>20. ASSUME CleanEnds PROVE DaysInv'
  <2>d. PICK d : d = Head(dates)
    OBVIOUS
  <2>1. /\ d \in Days /\ DirRemoved(d) /\ UNCHANGED <<app, queue>>
        /\ past'.spoilt = past.spoilt \cup (IF d \in dirs /\ InUse(d) THEN {d} ELSE {})
    BY <1>20, <2>d, DoesCleanEnds, Zenon
  <2> QED BY <1>e, <2>1, Zenon DEF Asked
<1>21. ASSUME Restart PROVE DaysInv'
  <2>1. /\ \A e \in Days : idx'[e] = Found(e)
        /\ app' = IdleApp /\ \A e, g : ~Asked(e, g)'
        /\ past'.kept = past.kept
        /\ past'.spoilt = past.spoilt \cup (IF app.at # "idle" THEN {app.dir} ELSE {})
        /\ UNCHANGED <<dirs, files>>
    BY <1>21, DoesRestart, Zenon
  <2>2. \A e : ~Deleting(e)'
    BY <2>1, Nothing, Zenon DEF Deleting
  <2>3. ASSUME NEW e \in Days, Sound(e), Sound(e)' PROVE DayRight(e)'
    <3>1. ~Deleting(e)
      BY <2>1, <2>3, Zenon DEF Deleting, Sound
    <3>2. /\ idx[e].totol <= Len(idx[e].list) /\ HeadsDistinct(e) /\ Right(e, Heads(e))
          /\ idx[e].state # "cut"
      BY <2>3, <3>1, Zenon DEF DaysInv, DayRight
    <3>3. CASE idx[e].state = "none" /\ files[e] # {}
      <4>1. /\ idx'[e].state = "good" /\ idx'[e].totol = Len(idx'[e].list)
            /\ Entries(idx'[e].list) = files[e] /\ Distinct(idx'[e].list)
        BY <2>1, <3>3, FoundIs, Zenon
      <4>2. idx'[e].totol <= Len(idx'[e].list)
        <5>1. RecIndexType'
          BY <1>21, DoesRestart, Zenon
        <5>2. idx'[e] \in IndexRecord
          BY <5>1, TypePartsNext, Zenon DEF IndexType
        <5> QED BY <4>1, <5>2 DEF IndexRecord
      <4>3. Heads(e)' = files[e] /\ HeadsDistinct(e)'
        BY <4>1, Zenon DEF Heads, Entries, HeadsDistinct, Distinct
      <4>4. Right(e, Heads(e))'
        BY <2>1, <4>3, RightNext, Zenon
      <4>5. idx'[e].state # "cut"
        BY <4>1
      <4> QED BY <2>2, <4>2, <4>3, <4>4, <4>5, Zenon DEF DayRight
    <3>4. CASE ~ (idx[e].state = "none" /\ files[e] # {})
      <4>1. idx'[e] = idx[e]
        BY <2>1, <3>4, FoundIs, Zenon
      <4> QED BY <2>1, <2>2, <2>3, <3>1, <4>1, DayUntouched, Zenon
    <3> QED BY <3>3, <3>4
  <2>4. past.spoilt \subseteq past'.spoilt
    BY <2>1, Zenon
  <2> QED BY <2>3, <2>4, <1>s, Zenon
<1> QED BY Zenon, RecIndexNext, <1>2, <1>3, <1>4, <1>5, <1>6, <1>7, <1>8, <1>9, <1>10, <1>11, <1>12, <1>13,
           <1>14, <1>15, <1>16, <1>17, <1>18, <1>19, <1>20, <1>21
        DEF RecIndexNext, Recorder, Deleter

(* The recordings under way. *)

LEMMA FitsStill ==
  ASSUME NEW d \in Days, NEW f, RecordingFits(d, f),
         d \in dirs => d \in dirs', f \in files[d] => f \in files'[d],
         f \in past'.kept => f \in past.kept, Asked(d, f)' => Asked(d, f),
         f \in Heads(d)' => f \in Heads(d),
         Deleting(d)' => f \notin Entries(app.list)'
  PROVE  RecordingFits(d, f)'
BY Zenon DEF RecordingFits

LEMMA IndexStays ==
  ASSUME NEW d, NEW f, idx'[d] = idx[d]
  PROVE  Heads(d)' = Heads(d) /\ (EntryFits(d, f) => EntryFits(d, f)')
BY Zenon DEF Heads, EntryFits

LEMMA DeletingStays ==
  ASSUME UNCHANGED app
  PROVE  \A d, f : /\ Deleting(d)' <=> Deleting(d)
                   /\ f \notin Entries(app.list) => f \notin Entries(app.list)'
BY Zenon DEF Deleting, Entries

LEMMA HeadsGrow ==
  ASSUME RecIndexType, NEW d \in Days, idx'[d].list = idx[d].list,
         idx'[d].totol = idx[d].totol + 1
  PROVE  Heads(d)' \subseteq Heads(d) \cup {idx[d].list[idx[d].totol + 1]}
<1>1. PICK t, u : t = idx[d].totol /\ u = idx[d].totol + 1
  OBVIOUS
<1>2. t \in Nat /\ u = t + 1
  BY <1>1, HeadsAre
<1>3. \A j \in 1 .. u : j \in 1 .. t \/ j = u
  BY <1>2
<1>4. Heads(d)' = {idx[d].list[j] : j \in 1 .. u}
  BY <1>1, Zenon DEF Heads
<1> QED BY <1>1, <1>3, <1>4, Zenon DEF Heads

LEMMA CountedHeads ==
  ASSUME NEW d \in Days, idx[d] \in IndexRecord, idx[d].totol <= Len(idx[d].list)
  PROVE  Entries(Counted(d)) = Heads(d)
<1>1. PICK s : s = Counted(d)
  OBVIOUS
<1>2. Len(s) = idx[d].totol /\ \A i \in 1 .. idx[d].totol : s[i] = idx[d].list[i]
  BY <1>1, CountedIs, Zenon
<1>3. Entries(s) = Heads(d)
  BY <1>2, Zenon DEF Entries, Heads
<1> QED BY <1>1, <1>3, Zenon

(* Each recorder either records on, to a day it still fits, or has begun a  *)
(* recording that does.                                                     *)
LEMMA RecordingsFrame ==
  ASSUME IndexInv, past.spoilt \subseteq past'.spoilt,
         \A q \in Recorders : Writing(q)' =>
           \/ Writing(q) /\ rec'[q].name = rec[q].name /\ rec'[q].dir = rec[q].dir
           \/ /\ rec'[q].at # "entry"
              /\ \A d \in Days : \A f :
                   d = rec'[q].dir /\ f = rec'[q].name /\ Sound(d) => RecordingFits(d, f)'
              /\ rec'[q].dir \in Days,
         \A q \in Recorders : \A d \in Days : \A f \in Files :
           /\ Writing(q) /\ d = rec[q].dir /\ f = rec[q].name
           /\ rec'[q].name = rec[q].name /\ rec'[q].dir = rec[q].dir
           /\ Sound(d) /\ Sound(d)' /\ Writing(q)' /\ RecordingFits(d, f)
           /\ rec[q].at = "entry" => ~rec[q].gone /\ EntryFits(d, f)
           => /\ RecordingFits(d, f)'
              /\ rec'[q].at = "entry" => ~rec'[q].gone /\ EntryFits(d, f)'
  PROVE  RecordingsInv'
<1> USE DEF IndexInv
<1> SUFFICES ASSUME NEW q \in Recorders, Writing(q)', Sound(rec[q].dir)'
             PROVE  RecordingRight(q)'
  BY Zenon DEF RecordingsInv
<1>1. PICK d, f : d = rec'[q].dir /\ f = rec'[q].name
  OBVIOUS
<1>2. Sound(d)' /\ Sound(d)
  <2>1. Sound(d)'
    BY <1>1, Zenon DEF Sound
  <2> QED BY <2>1, SoundGrows, Zenon
<1>3. CASE Writing(q) /\ rec'[q].name = rec[q].name /\ rec'[q].dir = rec[q].dir
  <2>1. d \in Days
    <3>1. rec[q].at # "idle"
      BY <1>3 DEF Writing
    <3> QED BY <1>1, <1>3, <3>1, Zenon DEF LockInv
  <2>2. f \in Files
    <3>1. f \in 1 .. past.begun
      BY <1>1, <1>3, Zenon DEF OwnInv
    <3>2. past.begun \in 0 .. MaxFiles
      BY TypeParts, PastParts, Zenon
    <3> QED BY <3>1, <3>2, RecIndexAssumption DEF Files
  <2>3. /\ RecordingFits(d, f)
        /\ rec[q].at = "entry" => ~rec[q].gone /\ EntryFits(d, f)
    BY <1>1, <1>2, <1>3, RecordingRightNow, Zenon DEF RecordingRight
  <2>4. /\ RecordingFits(d, f)'
        /\ rec'[q].at = "entry" => ~rec'[q].gone /\ EntryFits(d, f)'
    BY <1>1, <1>2, <1>3, <2>1, <2>2, <2>3, Zenon
  <2> QED BY <1>1, <2>4, Zenon DEF RecordingRight
<1>4. CASE ~ (Writing(q) /\ rec'[q].name = rec[q].name /\ rec'[q].dir = rec[q].dir)
  <2>1. RecordingFits(d, f)' /\ rec'[q].at # "entry"
    BY <1>1, <1>2, <1>4, Zenon
  <2> QED BY <1>1, <2>1, Zenon DEF RecordingRight
<1> QED BY <1>3, <1>4

(* Of two recorders each has a recording of its own. *)
LEMMA OwnName ==
  ASSUME OwnInv, NEW r \in Recorders, NEW q \in Recorders, Writing(r), Writing(q), q # r
  PROVE  rec[q].name # rec[r].name
BY Zenon DEF OwnInv

LEMMA StepRecordings ==
  ASSUME IndexInv, RecIndexNext
  PROVE  RecordingsInv'
<1> USE DEF IndexInv
<1>f. \A f \in Files : f # 0 /\ f \in 0 .. MaxFiles
  BY RecIndexAssumption DEF Files
<1>1. ASSUME UNCHANGED <<files, idx, app, past>>, dirs \subseteq dirs',
             \A d \in Days : \A f \in Files : Asked(d, f)' => Asked(d, f),
             \A q \in Recorders : Writing(q)' => rec'[q] = rec[q]
      PROVE  RecordingsInv'
  <2>1. ASSUME NEW q \in Recorders, Writing(q)'
        PROVE  Writing(q) /\ rec'[q].name = rec[q].name /\ rec'[q].dir = rec[q].dir
    BY <1>1, <2>1, Zenon DEF Writing
  <2>2. ASSUME NEW q \in Recorders, NEW d \in Days, NEW f \in Files, Writing(q)',
               RecordingFits(d, f),
               rec[q].at = "entry" => ~rec[q].gone /\ EntryFits(d, f)
        PROVE  /\ RecordingFits(d, f)'
               /\ rec'[q].at = "entry" => ~rec'[q].gone /\ EntryFits(d, f)'
    <3>1. RecordingFits(d, f)'
      BY <1>1, <2>2, IndexStays, DeletingStays, FitsStill, Zenon DEF RecordingFits
    <3> QED BY <1>1, <2>2, <3>1, IndexStays, Zenon
  <2> QED BY <1>1, <2>1, <2>2, RecordingsFrame, Zenon
<1>2. ASSUME NEW r \in Recorders, OnlyRecorder(r), ~Writing(r)'
      PROVE  \A q \in Recorders : Writing(q)' => rec'[q] = rec[q] /\ q # r /\ Writing(q)
  BY <1>2, Zenon DEF OnlyRecorder, Writing
<1>3. ASSUME NEW r \in Recorders, NEW d \in Days, LookForDir(r, d) PROVE RecordingsInv'
  <2>1. /\ OnlyRecorder(r) /\ rec'[r].at \in {"ready", "absent"}
        /\ UNCHANGED <<dirs, files, idx, app, queue, past>>
    BY <1>3, DoesLookForDir, Zenon
  <2>2. ~Writing(r)'
    BY <2>1 DEF Writing
  <2> QED BY <1>1, <1>2, <2>1, <2>2, Zenon DEF Asked
<1>4. ASSUME NEW r \in Recorders, MakeDir(r) PROVE RecordingsInv'
  <2>1. /\ OnlyRecorder(r) /\ rec'[r].at = "made" /\ dirs' = dirs \cup {rec[r].dir}
        /\ UNCHANGED <<files, idx, app, queue, past>>
    BY <1>4, DoesMakeDir, Zenon
  <2>2. ~Writing(r)' /\ dirs \subseteq dirs'
    BY <2>1 DEF Writing
  <2> QED BY <1>1, <1>2, <2>1, <2>2, Zenon DEF Asked
<1>5. ASSUME NEW r \in Recorders, ListDay(r) PROVE RecordingsInv'
  <2>1. /\ OnlyRecorder(r) /\ rec'[r].at = "listed"
        /\ UNCHANGED <<dirs, files, idx, app, queue, past>>
    BY <1>5, DoesListDay, Zenon
  <2>2. ~Writing(r)'
    BY <2>1 DEF Writing
  <2> QED BY <1>1, <1>2, <2>1, <2>2, Zenon DEF Asked
<1>6. ASSUME NEW r \in Recorders, MakeIndex(r) PROVE RecordingsInv'
  <2>d. PICK d : d = rec[r].dir
    OBVIOUS
  <2>1. /\ OnlyRecorder(r) /\ rec'[r].at = "ready" /\ d \in Days /\ OnlyIndex(d)
        /\ past'.kept = past.kept
        /\ past'.spoilt = past.spoilt \cup
             (IF InUse(d) \/ idx[d].totol > 0 THEN {d} ELSE {})
        /\ UNCHANGED <<dirs, files, app, queue>>
    BY <1>6, <2>d, DoesMakeIndex, Zenon
  <2>2. ~Writing(r)' /\ past.spoilt \subseteq past'.spoilt
    BY <2>1 DEF Writing
  <2>3. \A q \in Recorders : Writing(q)' => rec'[q] = rec[q] /\ Writing(q)
    BY <1>2, <2>1, <2>2, Zenon
  <2>4. ASSUME NEW q \in Recorders, NEW e \in Days, NEW f \in Files, Writing(q),
               e = rec[q].dir, Sound(e)', RecordingFits(e, f)
        PROVE  RecordingFits(e, f)' /\ (EntryFits(e, f) => EntryFits(e, f)')
    <3>1. e # d
      <4>1. InUse(e)
        BY <2>4, Zenon DEF InUse, Recording, Writing
      <4> QED BY <2>1, <2>4, <4>1, Zenon DEF Sound
    <3>2. idx'[e] = idx[e]
      BY <2>1, <3>1, Zenon DEF OnlyIndex
    <3> QED BY <2>1, <2>4, <3>2, IndexStays, DeletingStays, FitsStill, Zenon
          DEF RecordingFits, Asked
  <2> QED BY <2>2, <2>3, <2>4, RecordingsFrame, Zenon
<1>7. ASSUME NEW r \in Recorders, OpenRecording(r) PROVE RecordingsInv'
  <2>d. PICK d, f : d = rec[r].dir /\ f = past.begun + 1
    OBVIOUS
  <2>1. /\ OnlyRecorder(r) /\ rec'[r].at = "open" /\ rec'[r].dir = d /\ rec'[r].name = f
        /\ d \in Days /\ d \in dirs /\ f \in Files
        /\ OnlyFiles(d) /\ files'[d] = files[d] \cup {f}
        /\ past'.kept = past.kept /\ past'.spoilt = past.spoilt
        /\ UNCHANGED <<dirs, idx, app, queue>>
    BY <1>7, <2>d, DoesOpenRecording, Zenon
  <2>2. ~ (f <= past.begun)
    <3>1. past.begun \in Nat
      BY TypeParts, PastParts, RecIndexAssumption
    <3> QED BY <2>d, <3>1
  <2>3. ASSUME Sound(d) PROVE RecordingFits(d, f)'
    <3>1. f \notin past.kept /\ ~Asked(d, f) /\ f \notin Entries(app.list)
      BY <1>f, <2>1, <2>2, Zenon DEF KnownInv
    <3>2. f \notin Heads(d)
      <4>1. Heads(d) \subseteq Entries(idx[d].list)
        BY <2>1, <2>3, HeadsAre, Zenon DEF DaysInv, DayRight
      <4> QED BY <2>1, <2>2, <4>1, Zenon DEF KnownInv
    <3>3. Heads(d)' = Heads(d)
      BY <2>1, IndexStays, Zenon
    <3>4. f \in files'[d] /\ d \in dirs' /\ f \notin past'.kept
      BY <2>1, <3>1, Zenon
    <3> QED BY <2>1, <3>1, <3>2, <3>3, <3>4, DeletingStays, Zenon DEF RecordingFits, Asked
  <2>4. ASSUME NEW e \in Days, NEW g \in Files, RecordingFits(e, g)
        PROVE  RecordingFits(e, g)' /\ (EntryFits(e, g) => EntryFits(e, g)')
    <3>1. g \in files[e] => g \in files'[e]
      <4>1. CASE e = d
        BY <2>1, <4>1, Zenon
      <4>2. CASE e # d
        BY <2>1, <4>2, Zenon DEF OnlyFiles
      <4> QED BY <4>1, <4>2
    <3> QED BY <2>1, <2>4, <3>1, IndexStays, DeletingStays, FitsStill, Zenon
          DEF RecordingFits, Asked
  <2>5. ASSUME NEW q \in Recorders, Writing(q)', q # r
        PROVE  Writing(q) /\ rec'[q] = rec[q]
    BY <2>1, <2>5, Zenon DEF OnlyRecorder, Writing
  <2>6. rec'[r].at # "entry" /\ ~Writing(r)
    <3>1. rec[r].at = "ready"
      BY <1>7, DoesOpenRecording, Zenon
    <3> QED BY <2>1, <3>1 DEF Writing
  <2>7. ASSUME NEW q \in Recorders, Writing(q)'
        PROVE \/ Writing(q) /\ rec'[q].name = rec[q].name /\ rec'[q].dir = rec[q].dir
              \/ /\ rec'[q].at # "entry"
                 /\ \A e \in Days : \A g :
                      e = rec'[q].dir /\ g = rec'[q].name /\ Sound(e) => RecordingFits(e, g)'
                 /\ rec'[q].dir \in Days
    <3>1. CASE q = r
      <4>1. ASSUME NEW e \in Days, NEW g, e = rec'[q].dir, g = rec'[q].name, Sound(e)
            PROVE  RecordingFits(e, g)'
        <5>1. e = d /\ g = f
          BY <2>1, <3>1, <4>1, Zenon
        <5> QED BY <2>3, <4>1, <5>1, Zenon
      <4> QED BY <2>1, <2>6, <3>1, <4>1, Zenon
    <3>2. CASE q # r
      BY <2>5, <2>7, <3>2, Zenon
    <3> QED BY <3>1, <3>2
  <2>8. ASSUME NEW q \in Recorders, Writing(q), Writing(q)' PROVE rec'[q] = rec[q]
    BY <2>5, <2>6, <2>8, Zenon
  <2> QED BY <2>1, <2>4, <2>7, <2>8, RecordingsFrame, Zenon
<1>8. ASSUME NEW r \in Recorders, OpenFails(r) PROVE RecordingsInv'
  <2>1. /\ OnlyRecorder(r) /\ rec'[r] = IdleRec
        /\ UNCHANGED <<dirs, files, idx, app, queue, past>>
    BY <1>8, DoesOpenFails, Zenon
  <2>2. ~Writing(r)'
    BY <2>1, IdleWrites, Zenon DEF Writing
  <2> QED BY <1>1, <1>2, <2>1, <2>2, Zenon DEF Asked
<1>9. ASSUME NEW r \in Recorders, DropRecording(r) PROVE RecordingsInv'
  <2>d. PICK d, f : d = rec[r].dir /\ f = rec[r].name
    OBVIOUS
  <2>1. /\ rec[r].at = "open" /\ OnlyRecorder(r) /\ rec'[r] = IdleRec
        /\ OnlyFiles(d) /\ files'[d] = files[d] \ {f}
        /\ UNCHANGED <<dirs, idx, app, queue, past>>
    BY <1>9, <2>d, DoesDropRecording, Zenon
  <2>2. ~Writing(r)' /\ Writing(r)
    BY <2>1, IdleWrites DEF Writing
  <2>3. \A q \in Recorders : Writing(q)' => rec'[q] = rec[q] /\ q # r /\ Writing(q)
    BY <1>2, <2>1, <2>2, Zenon
  <2>4. ASSUME NEW q \in Recorders, NEW e \in Days, NEW g \in Files, Writing(q), q # r,
               g = rec[q].name, RecordingFits(e, g)
        PROVE  RecordingFits(e, g)' /\ (EntryFits(e, g) => EntryFits(e, g)')
    <3>1. g # f
      BY <2>d, <2>2, <2>4, OwnName, Zenon
    <3>2. g \in files[e] => g \in files'[e]
      <4>1. CASE e = d
        BY <2>1, <3>1, <4>1, Zenon
      <4>2. CASE e # d
        BY <2>1, <4>2, Zenon DEF OnlyFiles
      <4> QED BY <4>1, <4>2
    <3> QED BY <2>1, <2>4, <3>2, IndexStays, DeletingStays, FitsStill, Zenon
          DEF RecordingFits, Asked
  <2> QED BY <2>1, <2>3, <2>4, RecordingsFrame, Zenon
<1>10. ASSUME NEW r \in Recorders, StartIndex(r) PROVE RecordingsInv'
  <2>d. PICK d, f : d = rec[r].dir /\ f = rec[r].name
    OBVIOUS
  <2>1. /\ rec[r].at = "open" /\ OnlyRecorder(r) /\ rec'[r] = IdleRec
        /\ d \in Days /\ f \in Files /\ idxlock = "free" /\ OnlyIndex(d)
        /\ idx'[d] = IF d \in dirs THEN Index(<<f>>) ELSE idx[d]
        /\ past'.spoilt = past.spoilt
        /\ past'.kept = past.kept \cup (IF d \in dirs THEN {f} ELSE {})
        /\ UNCHANGED <<dirs, files, app, queue>>
    BY <1>10, <2>d, DoesStartIndex, Zenon
  <2>2. ~Writing(r)' /\ Writing(r)
    BY <2>1, IdleWrites DEF Writing
  <2>3. \A q \in Recorders : Writing(q)' => rec'[q] = rec[q] /\ q # r /\ Writing(q)
    BY <1>2, <2>1, <2>2, Zenon
  <2>4. \A q \in Recorders : rec[q].at # "entry"
    BY <2>1, NobodyEnters, FreeOrOthers, Zenon
  <2>5. ASSUME NEW q \in Recorders, NEW e \in Days, NEW g \in Files, Writing(q), q # r,
               g = rec[q].name, RecordingFits(e, g)
        PROVE  RecordingFits(e, g)'
    <3>1. g # f
      BY <2>d, <2>2, <2>5, OwnName, Zenon
    <3>2. g \in past'.kept => g \in past.kept
      BY <2>1, <3>1, Zenon
    <3>3. g \in Heads(e)' => g \in Heads(e)
      <4>1. CASE e = d /\ d \in dirs
        <5>1. <<f>> \in Seq(Nat)
          <6>1. f \in Nat
            BY <2>1, RecIndexAssumption DEF Files
          <6> QED BY <6>1
        <5>2. Heads(d)' = {f}
          BY <2>1, <4>1, <5>1, HeadsOfNew, Singleton, Zenon
        <5> QED BY <3>1, <4>1, <5>2, Zenon
      <4>2. CASE ~ (e = d /\ d \in dirs)
        <5>1. idx'[e] = idx[e]
          BY <2>1, <4>2, Zenon DEF OnlyIndex
        <5> QED BY <5>1, IndexStays, Zenon
      <4> QED BY <4>1, <4>2
    <3> QED BY <2>1, <2>5, <3>2, <3>3, DeletingStays, FitsStill, Zenon
          DEF RecordingFits, Asked
  <2> QED BY <2>1, <2>3, <2>4, <2>5, RecordingsFrame, Zenon
<1>11. ASSUME NEW r \in Recorders, WriteEntry(r) PROVE RecordingsInv'
  <2>d. PICK d, f, i : d = rec[r].dir /\ f = rec[r].name /\ i = idx[d].totol + 1
    OBVIOUS
  <2>1. /\ OnlyRecorder(r) /\ rec'[r].at = "entry" /\ rec'[r].dir = d /\ rec'[r].name = f
        /\ rec'[r].gone = FALSE /\ rec[r].at = "open"
        /\ d \in Days /\ idxlock = "free" /\ OnlyIndex(d) /\ idx'[d].totol = idx[d].totol
        /\ i <= Len(idx'[d].list) /\ idx'[d].list[i] = f
        /\ \A j \in 1 .. Len(idx[d].list) : j # i => idx'[d].list[j] = idx[d].list[j]
        /\ RecIndexType'
        /\ UNCHANGED <<dirs, files, app, queue, past>>
    BY <1>11, <2>d, DoesWriteEntry, Zenon
  <2>2. Writing(r)
    BY <2>1 DEF Writing
  <2>3. ASSUME NEW q \in Recorders, Writing(q)'
        PROVE  /\ Writing(q) /\ rec'[q].name = rec[q].name /\ rec'[q].dir = rec[q].dir
               /\ q # r => rec'[q].at # "entry"
    <3>1. CASE q = r
      BY <2>d, <2>1, <2>2, <3>1, Zenon
    <3>2. CASE q # r
      <4>1. rec'[q] = rec[q] /\ rec[q].at # "entry"
        BY <2>1, <3>2, NobodyEnters, FreeOrOthers, Zenon DEF OnlyRecorder
      <4> QED BY <2>3, <4>1, Zenon DEF Writing
    <3> QED BY <3>1, <3>2
  <2>4. Sound(d) => Heads(d)' = Heads(d)
    <3> SUFFICES ASSUME Sound(d) PROVE Heads(d)' = Heads(d)
      OBVIOUS
    <3>1. idx[d].totol <= Len(idx[d].list)
      BY <2>1, Zenon DEF DaysInv, DayRight
    <3>2. \A j \in 1 .. idx[d].totol : j \in 1 .. Len(idx[d].list) /\ j # i
      <4>1. PICK t, n : t = idx[d].totol /\ n = Len(idx[d].list)
        OBVIOUS
      <4>2. t \in Nat /\ n \in Nat /\ t <= n /\ i = t + 1
        BY <2>d, <2>1, <3>1, <4>1, HeadsAre, Zenon
      <4>3. \A j \in 1 .. t : j \in 1 .. n /\ j # i
        BY <4>2
      <4> QED BY <4>1, <4>3, Zenon
    <3>3. \A j \in 1 .. idx[d].totol : idx'[d].list[j] = idx[d].list[j]
      BY <2>1, <3>2, Zenon
    <3> QED BY <2>1, <3>3, HeadsStay, Zenon
  <2>5. ASSUME NEW e \in Days, NEW g \in Files, Sound(e), RecordingFits(e, g)
        PROVE  RecordingFits(e, g)'
    <3>1. Heads(e)' = Heads(e)
      <4>1. CASE e = d
        BY <2>4, <2>5, <4>1, Zenon
      <4>2. CASE e # d
        BY <2>1, <4>2, IndexStays, Zenon DEF OnlyIndex
      <4> QED BY <4>1, <4>2
    <3> QED BY <2>1, <2>5, <3>1, DeletingStays, FitsStill, Zenon DEF RecordingFits, Asked
  <2>6. EntryFits(d, f)'
    <3>1. idx'[d].totol + 1 = i
      BY <2>d, <2>1
    <3>2. idx'[d].totol < Len(idx'[d].list)
      <4>1. idx'[d] \in IndexRecord
        BY <2>1, TypePartsNext, Zenon DEF IndexType
      <4>2. idx'[d].totol \in Nat /\ Len(idx'[d].list) \in Nat
        BY <4>1 DEF IndexRecord
      <4> QED BY <2>1, <3>1, <4>2
    <3> QED BY <2>1, <3>1, <3>2, Zenon DEF EntryFits
  <2>7. ASSUME NEW q \in Recorders, NEW e \in Days, NEW g \in Files, Writing(q)',
               e = rec[q].dir, g = rec[q].name
        PROVE  rec'[q].at = "entry" => ~rec'[q].gone /\ EntryFits(e, g)'
    <3>1. CASE q = r
      <4>1. e = d /\ g = f
        BY <2>d, <2>7, <3>1, Zenon
      <4> QED BY <2>1, <2>6, <3>1, <4>1, Zenon
    <3>2. CASE q # r
      BY <2>3, <2>7, <3>2, Zenon
    <3> QED BY <3>1, <3>2
  <2> QED BY <2>1, <2>3, <2>5, <2>7, RecordingsFrame, Zenon
<1>12. ASSUME NEW r \in Recorders, WriteHead(r) PROVE RecordingsInv'
  <2>d. PICK d, f : d = rec[r].dir /\ f = rec[r].name
    OBVIOUS
  <2>1. /\ rec[r].at = "entry" /\ OnlyRecorder(r) /\ rec'[r] = IdleRec
        /\ d \in Days /\ idxlock = r /\ OnlyIndex(d)
        /\ idx'[d].list = idx[d].list
        /\ idx'[d].totol = IF rec[r].gone THEN idx[d].totol ELSE idx[d].totol + 1
        /\ past'.spoilt = past.spoilt
        /\ past'.kept = past.kept \cup (IF rec[r].gone THEN {} ELSE {f})
        /\ rec[r].gone => idx'[d] = idx[d]
        /\ UNCHANGED <<dirs, files, app, queue>>
    BY <1>12, <2>d, DoesWriteHead, Zenon
  <2>2. ~Writing(r)' /\ Writing(r)
    BY <2>1, IdleWrites DEF Writing
  <2>3. \A q \in Recorders : Writing(q)' => rec'[q] = rec[q] /\ q # r /\ Writing(q)
    BY <1>2, <2>1, <2>2, Zenon
  <2>4. \A q \in Recorders : q # r => rec[q].at # "entry"
    BY <2>1, Zenon DEF LockInv
  <2>5. ASSUME NEW q \in Recorders, NEW e \in Days, NEW g \in Files, Writing(q), q # r,
               g = rec[q].name, Sound(e), RecordingFits(e, g)
        PROVE  RecordingFits(e, g)'
    <3>1. g # f
      BY <2>d, <2>2, <2>5, OwnName, Zenon
    <3>2. g \in past'.kept => g \in past.kept
      BY <2>1, <3>1, Zenon
    <3>3. g \in Heads(e)' => g \in Heads(e)
      <4>1. CASE e = d /\ ~rec[r].gone
        <5>1. idx[d].list[idx[d].totol + 1] = f
          BY <2>d, <2>1, <2>2, <2>5, <4>1, RecordingRightNow, Zenon
            DEF RecordingRight, EntryFits
        <5>2. Heads(d)' \subseteq Heads(d) \cup {f}
          BY <2>1, <4>1, <5>1, HeadsGrow, Zenon
        <5> QED BY <3>1, <4>1, <5>2, Zenon
      <4>2. CASE ~ (e = d /\ ~rec[r].gone)
        <5>1. idx'[e] = idx[e]
          BY <2>1, <4>2, Zenon DEF OnlyIndex
        <5> QED BY <5>1, IndexStays, Zenon
      <4> QED BY <4>1, <4>2
    <3> QED BY <2>1, <2>5, <3>2, <3>3, DeletingStays, FitsStill, Zenon
          DEF RecordingFits, Asked
  <2> QED BY <2>1, <2>3, <2>4, <2>5, RecordingsFrame, Zenon
<1>13. ASSUME NEW d \in Days, DeleteDay(d) PROVE RecordingsInv'
  <2>1. /\ \A e \in Days : \A g \in 0 .. MaxFiles :
             Asked(e, g)' => Asked(e, g) \/ (e = d /\ g = 0)
        /\ UNCHANGED <<dirs, files, idx, rec, app, past>>
    BY <1>13, DoesDeleteDay, Zenon
  <2>2. \A e \in Days : \A g \in Files : Asked(e, g)' => Asked(e, g)
    BY <1>f, <2>1, Zenon
  <2> QED BY <1>1, <2>1, <2>2, Zenon
<1>14. ASSUME NEW d \in Days, ImportIndex(d) PROVE RecordingsInv'
  <2>1. /\ app.at = "idle" /\ app'.dir = d /\ app'.list = Counted(d) /\ idxlock = "free"
        /\ UNCHANGED <<dirs, files, idx, rec, queue, past>>
    BY <1>14, DoesImportIndex, Zenon
  <2>2. \A q \in Recorders : rec[q].at # "entry"
    BY <2>1, NobodyEnters, FreeOrOthers, Zenon
  <2>3. ASSUME NEW e \in Days, NEW g \in Files, Sound(e), RecordingFits(e, g)
        PROVE  RecordingFits(e, g)'
    <3>1. Deleting(e)' => g \notin Entries(app.list)'
      <4> SUFFICES ASSUME Deleting(e)' PROVE g \notin Entries(app'.list)
        BY Zenon DEF Entries
      <4>1. e = d /\ ~Deleting(d)
        BY <2>1, Zenon DEF Deleting
      <4>2. idx[d].totol <= Len(idx[d].list)
        BY <2>3, <4>1, Zenon DEF DaysInv, DayRight
      <4>3. idx[d] \in IndexRecord
        BY TypeParts, Zenon DEF IndexType
      <4>4. Entries(Counted(d)) = Heads(d)
        BY <4>2, <4>3, CountedHeads, Zenon
      <4> QED BY <2>1, <2>3, <4>1, <4>4, Zenon DEF RecordingFits
    <3> QED BY <2>1, <2>3, <3>1, IndexStays, FitsStill, Zenon DEF RecordingFits, Asked
  <2>4. ASSUME NEW q \in Recorders, Writing(q)'
        PROVE  Writing(q) /\ rec'[q].name = rec[q].name /\ rec'[q].dir = rec[q].dir
    BY <2>1, <2>4, Zenon DEF Writing
  <2> QED BY <2>1, <2>2, <2>3, <2>4, RecordingsFrame, Zenon
<1>15. ASSUME NEW f \in Files, DropEntry(f) PROVE RecordingsInv'
  <2>d. PICK d : d = app.dir
    OBVIOUS
  <2>1. /\ app.at = "has" /\ Contains(app.list, f) /\ app.list \in Seq(Nat)
        /\ app'.dir = d /\ app'.list = RemoveFirst(app.list, f)
        /\ \A e \in Days : \A g \in 0 .. MaxFiles :
             Asked(e, g)' => Asked(e, g) \/ (e = d /\ g = f)
        /\ past'.spoilt = past.spoilt /\ past'.kept = past.kept \ {f}
        /\ UNCHANGED <<dirs, files, idx, rec, idxlock>>
    BY <1>15, <2>d, DoesDropEntry, Zenon
  <2>2. Deleting(d) /\ \A e : e # d => ~Deleting(e)'
    <3>1. app.at # "idle"
      BY <2>1
    <3> QED BY <2>d, <2>1, <3>1, Zenon DEF Deleting
  <2>3. /\ Entries(app'.list) \subseteq Entries(app.list) /\ f \in Entries(app.list)
    <3>1. Entries(app'.list) \subseteq Entries(app.list)
      BY <2>1, RemoveFirstEntries
    <3> QED BY <2>1, <3>1, Zenon DEF Contains, Entries
  <2>4. ASSUME NEW e \in Days, NEW g \in Files, RecordingFits(e, g)
        PROVE  RecordingFits(e, g)' /\ (EntryFits(e, g) => EntryFits(e, g)')
    <3>1. e = d => g \notin Entries(app.list) /\ g # f
      BY <2>2, <2>3, <2>4, Zenon DEF RecordingFits
    <3>2. Asked(e, g)' => Asked(e, g)
      BY <1>f, <2>1, <3>1, Zenon
    <3>3. Deleting(e)' => g \notin Entries(app.list)'
      <4> SUFFICES ASSUME Deleting(e)' PROVE g \notin Entries(app'.list)
        BY Zenon DEF Entries
      <4> QED BY <2>2, <2>3, <3>1, Zenon
    <3>4. g \in past'.kept => g \in past.kept
      BY <2>1, Zenon
    <3> QED BY <2>1, <2>4, <3>2, <3>3, <3>4, IndexStays, FitsStill, Zenon DEF RecordingFits
  <2>5. ASSUME NEW q \in Recorders, Writing(q)'
        PROVE  Writing(q) /\ rec'[q] = rec[q]
    BY <2>1, <2>5, Zenon DEF Writing
  <2> QED BY <2>1, <2>4, <2>5, RecordingsFrame, Zenon
<1>d. ASSUME NEW d \in Days, DirRemoved(d),
             past.spoilt \cup (IF d \in dirs /\ Recording(d) THEN {d} ELSE {})
               \subseteq past'.spoilt,
             \A e \in Days : \A g : Deleting(e)' /\ g \in Entries(app'.list) =>
               Deleting(e) /\ g \in Entries(app.list),
             \A e \in Days : \A g \in Files : Asked(e, g)' => Asked(e, g)
      PROVE  RecordingsInv'
  <2>1. past.spoilt \subseteq past'.spoilt
    BY <1>d, Zenon
  <2>2. ASSUME NEW q \in Recorders, Writing(q)'
        PROVE  /\ Writing(q) /\ rec'[q].name = rec[q].name /\ rec'[q].dir = rec[q].dir
               /\ rec'[q].at = rec[q].at
               /\ rec'[q].gone = (rec[q].dir = d \/ rec[q].gone)
    BY <1>d, <2>2, Zenon DEF DirRemoved, Writing
  <2>3. ASSUME NEW q \in Recorders, NEW e \in Days, NEW g \in Files, Writing(q),
               e = rec[q].dir, Sound(e)', RecordingFits(e, g)
        PROVE  e # d /\ RecordingFits(e, g)' /\ (EntryFits(e, g) => EntryFits(e, g)')
    <3>1. e # d
      <4>1. e \in dirs /\ Recording(e)
        BY <2>3, Zenon DEF RecordingFits, Recording, Writing
      <4> QED BY <1>d, <2>3, <4>1, Zenon DEF Sound
    <3>2. idx'[e] = idx[e] /\ files'[e] = files[e] /\ past'.kept = past.kept
      BY <1>d, <3>1, RemovedDays, Zenon DEF DirRemoved
    <3>3. e \in dirs => e \in dirs'
      BY <1>d, <3>1, Zenon DEF DirRemoved
    <3>4. Deleting(e)' => g \notin Entries(app.list)'
      <4> SUFFICES ASSUME Deleting(e)' PROVE g \notin Entries(app'.list)
        BY Zenon DEF Entries
      <4> QED BY <1>d, <2>3, Zenon DEF RecordingFits
    <3> QED BY <1>d, <2>3, <3>1, <3>2, <3>3, <3>4, IndexStays, FitsStill, Zenon
          DEF RecordingFits
  <2>4. ASSUME NEW q \in Recorders, NEW e \in Days, NEW g \in Files, Writing(q)',
               e = rec[q].dir, e # d, EntryFits(e, g) => EntryFits(e, g)',
               rec[q].at = "entry" => ~rec[q].gone /\ EntryFits(e, g)
        PROVE  rec'[q].at = "entry" => ~rec'[q].gone /\ EntryFits(e, g)'
    BY <2>2, <2>4, Zenon
  <2>5. ASSUME NEW q \in Recorders, NEW e \in Days, NEW g \in Files,
               Writing(q), e = rec[q].dir, Sound(e)', Writing(q)', RecordingFits(e, g),
               rec[q].at = "entry" => ~rec[q].gone /\ EntryFits(e, g)
        PROVE  /\ RecordingFits(e, g)'
               /\ rec'[q].at = "entry" => ~rec'[q].gone /\ EntryFits(e, g)'
    <3>1. e # d /\ RecordingFits(e, g)' /\ (EntryFits(e, g) => EntryFits(e, g)')
      BY <2>3, <2>5, Zenon
    <3> QED BY <2>4, <2>5, <3>1, Zenon
  <2>6. ASSUME NEW q \in Recorders, Writing(q)'
        PROVE  Writing(q) /\ rec'[q].name = rec[q].name /\ rec'[q].dir = rec[q].dir
    BY <2>2, <2>6, Zenon
  <2> QED BY <2>1, <2>5, <2>6, RecordingsFrame, Zenon
<1>16. ASSUME ReleaseEmpty PROVE RecordingsInv'
  <2>d. PICK d : d = app.dir
    OBVIOUS
  <2>1. /\ d \in Days /\ DirRemoved(d) /\ app' = IdleApp
        /\ past'.spoilt = past.spoilt \cup
             (IF d \in dirs /\ Recording(d) THEN {d} ELSE {})
        /\ UNCHANGED queue
    BY <1>16, <2>d, DoesReleaseEmpty, Zenon
  <2>2. \A e : ~Deleting(e)'
    BY <2>1, Nothing, Zenon DEF Deleting
  <2> QED BY <1>d, <2>1, <2>2, Zenon DEF Asked
<1>e. ASSUME NEW d \in Days, DirRemoved(d), UNCHANGED app,
             past'.spoilt = past.spoilt \cup (IF d \in dirs /\ InUse(d) THEN {d} ELSE {}),
             \A e \in Days : \A g \in Files : Asked(e, g)' => Asked(e, g)
      PROVE  RecordingsInv'
  <2>1. past.spoilt \cup (IF d \in dirs /\ Recording(d) THEN {d} ELSE {})
          \subseteq past'.spoilt
    <3>1. Recording(d) => InUse(d)
      BY Zenon DEF InUse
    <3> QED BY <1>e, <3>1
  <2>2. \A e \in Days : Deleting(e)' => Deleting(e)
    BY <1>e, Zenon DEF Deleting
  <2> QED BY <1>d, <1>e, <2>1, <2>2, Zenon
<1>17. ASSUME CutOff PROVE RecordingsInv'
  <2>d. PICK d : d = app.dir
    OBVIOUS
  <2>1. /\ d \in Days /\ idxlock = "app" /\ app.at = "has" /\ app'.dir = d
        /\ app'.list = app.list
        /\ OnlyIndex(d) /\ idx'[d] = IF d \in dirs THEN CutIndex ELSE idx[d]
        /\ UNCHANGED <<dirs, files, rec, queue, past>>
    BY <1>17, <2>d, DoesCutOff, Zenon
  <2>2. \A q \in Recorders : rec[q].at # "entry"
    BY <2>1, NobodyEnters, FreeOrOthers, Zenon
  <2>3. \A e : Deleting(e)' => Deleting(e)
    <3>1. app.at # "idle"
      BY <2>1
    <3> QED BY <2>d, <2>1, <3>1, Zenon DEF Deleting
  <2>4. ASSUME NEW e \in Days, NEW g \in Files, RecordingFits(e, g)
        PROVE  RecordingFits(e, g)'
    <3>1. g \in Heads(e)' => g \in Heads(e)
      <4>1. CASE e = d /\ d \in dirs
        <5>1. Heads(e)' = {}
          BY <2>1, <4>1, HeadsOfNone, Zenon
        <5> QED BY <5>1, Zenon
      <4>2. CASE ~ (e = d /\ d \in dirs)
        <5>1. idx'[e] = idx[e]
          BY <2>1, <4>2, Zenon DEF OnlyIndex
        <5> QED BY <5>1, IndexStays, Zenon
      <4> QED BY <4>1, <4>2
    <3>2. Deleting(e)' => g \notin Entries(app.list)'
      <4>1. Entries(app.list)' = Entries(app.list)
        BY <2>1, Zenon DEF Entries
      <4> QED BY <2>3, <2>4, <4>1, Zenon DEF RecordingFits
    <3> QED BY <2>1, <2>4, <3>1, <3>2, FitsStill, Zenon DEF RecordingFits, Asked
  <2>5. ASSUME NEW q \in Recorders, Writing(q)'
        PROVE  Writing(q) /\ rec'[q] = rec[q]
    BY <2>1, <2>5, Zenon DEF Writing
  <2> QED BY <2>1, <2>2, <2>4, <2>5, RecordingsFrame, Zenon
<1>18. ASSUME WriteList PROVE RecordingsInv'
  <2>d. PICK d, s : d = app.dir /\ s = app.list
    OBVIOUS
  <2>1. /\ d \in Days /\ idxlock = "app" /\ app.at = "cut" /\ app' = IdleApp
        /\ OnlyIndex(d)
        /\ idx'[d] = IF app.gone \/ d \notin dirs THEN idx[d] ELSE Index(s)
        /\ UNCHANGED <<dirs, files, rec, queue, past>>
    BY <1>18, <2>d, DoesWriteList, Zenon
  <2>2. \A q \in Recorders : rec[q].at # "entry"
    BY <2>1, NobodyEnters, FreeOrOthers, Zenon
  <2>3. Deleting(d) /\ \A e : ~Deleting(e)'
    <3>1. app.at # "idle" /\ app'.at = "idle"
      BY <2>1, Nothing
    <3> QED BY <2>d, <3>1, Zenon DEF Deleting
  <2>4. ASSUME NEW e \in Days, NEW g \in Files, RecordingFits(e, g)
        PROVE  RecordingFits(e, g)'
    <3>1. g \in Heads(e)' => g \in Heads(e)
      <4>1. CASE e = d /\ ~ (app.gone \/ d \notin dirs)
        <5>1. s \in Seq(Nat)
          <6>1. app \in AppRecord
            BY TypeParts, Zenon DEF AppType
          <6> QED BY <2>d, <6>1 DEF AppRecord
        <5>2. Heads(d)' = Entries(s)
          BY <2>1, <4>1, <5>1, HeadsOfNew, Zenon
        <5>3. g \notin Entries(s)
          BY <2>d, <2>3, <2>4, <4>1, Zenon DEF RecordingFits
        <5> QED BY <4>1, <5>2, <5>3, Zenon
      <4>2. CASE ~ (e = d /\ ~ (app.gone \/ d \notin dirs))
        <5>1. idx'[e] = idx[e]
          BY <2>1, <4>2, Zenon DEF OnlyIndex
        <5> QED BY <5>1, IndexStays, Zenon
      <4> QED BY <4>1, <4>2
    <3> QED BY <2>1, <2>3, <2>4, <3>1, FitsStill, Zenon DEF RecordingFits, Asked
  <2>5. ASSUME NEW q \in Recorders, Writing(q)'
        PROVE  Writing(q) /\ rec'[q] = rec[q]
    BY <2>1, <2>5, Zenon DEF Writing
  <2> QED BY <2>1, <2>2, <2>4, <2>5, RecordingsFrame, Zenon
<1>19. ASSUME CarryOut PROVE RecordingsInv'
  <2>d. PICK d, f : d = Head(queue)[1] /\ f = Head(queue)[2]
    OBVIOUS
  <2>1. /\ d \in Days /\ Asked(d, f) /\ \A e, g : Asked(e, g)' => Asked(e, g)
        /\ f = 0 => /\ DirRemoved(d)
                    /\ past'.spoilt = past.spoilt \cup
                         (IF d \in dirs /\ InUse(d) THEN {d} ELSE {})
        /\ f # 0 => /\ OnlyFiles(d) /\ files'[d] = files[d] \ {f}
                    /\ UNCHANGED <<dirs, idx, rec, past>>
        /\ UNCHANGED app
    BY <1>19, <2>d, DoesCarryOut, Zenon
  <2>2. CASE f = 0
    BY <1>e, <2>1, <2>2, Zenon
  <2>3. CASE f # 0
    <3>1. ASSUME NEW e \in Days, NEW g \in Files, RecordingFits(e, g)
          PROVE  RecordingFits(e, g)' /\ (EntryFits(e, g) => EntryFits(e, g)')
      <4>1. g \in files[e] => g \in files'[e]
        <5>1. CASE e = d
          <6>1. g # f
            BY <2>1, <3>1, <5>1, Zenon DEF RecordingFits
          <6> QED BY <2>1, <2>3, <5>1, <6>1, Zenon
        <5>2. CASE e # d
          BY <2>1, <2>3, <5>2, Zenon DEF OnlyFiles
        <5> QED BY <5>1, <5>2
      <4> QED BY <2>1, <2>3, <3>1, <4>1, IndexStays, DeletingStays, FitsStill, Zenon
            DEF RecordingFits
    <3>2. ASSUME NEW q \in Recorders, Writing(q)'
          PROVE  Writing(q) /\ rec'[q] = rec[q]
      BY <2>1, <2>3, <3>2, Zenon DEF Writing
    <3> QED BY <2>1, <2>3, <3>1, <3>2, RecordingsFrame, Zenon
  <2> QED BY <2>2, <2>3
<1>20. ASSUME CleanBegins PROVE RecordingsInv'
  BY <1>1, <1>20, DoesCleanBegins, Zenon DEF Asked
<1>21. ASSUME CleanEnds PROVE RecordingsInv'
  <2>d. PICK d : d = Head(dates)
    OBVIOUS
  <2>1. /\ d \in Days /\ DirRemoved(d) /\ UNCHANGED <<app, queue>>
        /\ past'.spoilt = past.spoilt \cup (IF d \in dirs /\ InUse(d) THEN {d} ELSE {})
    BY <1>21, <2>d, DoesCleanEnds, Zenon
  <2> QED BY <1>e, <2>1, Zenon DEF Asked
<1>22. ASSUME Restart PROVE RecordingsInv'
  <2>1. \A q \in Recorders : rec'[q] = IdleRec
    BY <1>22, DoesRestart, Zenon
  <2> QED BY <2>1, IdleWrites, Zenon DEF RecordingsInv, Writing
<1> QED BY Zenon, RecIndexNext, <1>3, <1>4, <1>5, <1>6, <1>7, <1>8, <1>9, <1>10, <1>11, <1>12, <1>13,
           <1>14, <1>15, <1>16, <1>17, <1>18, <1>19, <1>20, <1>21, <1>22
        DEF RecIndexNext, Recorder, Deleter

LEMMA StepType ==
  ASSUME IndexInv, RecIndexNext
  PROVE  RecIndexType'
<1> USE DEF IndexInv
<1>1. ASSUME NEW r \in Recorders, Recorder(r) PROVE RecIndexType'
  BY <1>1, DoesLookForDir, DoesMakeDir, DoesListDay, DoesMakeIndex, DoesOpenRecording,
     DoesOpenFails, DoesDropRecording, DoesStartIndex, DoesWriteEntry, DoesWriteHead, Zenon
  DEF Recorder
<1>2. ASSUME Deleter PROVE RecIndexType'
  BY <1>2, DoesDeleteDay, DoesImportIndex, DoesDropEntry, DoesReleaseEmpty, DoesCutOff,
     DoesWriteList, DoesCarryOut, DoesCleanBegins, DoesCleanEnds, Zenon
  DEF Deleter
<1>3. ASSUME Restart PROVE RecIndexType'
  BY <1>3, DoesRestart, Zenon
<1> QED BY <1>1, <1>2, <1>3, Zenon DEF RecIndexNext

LEMMA RecIndexInvariant == RecIndexSpec => []IndexInv
<1>1. RecIndexInit => IndexInv
  BY StartRight
<1>2. IndexInv /\ [RecIndexNext]_recIndexVars => IndexInv'
  <2> SUFFICES ASSUME IndexInv, [RecIndexNext]_recIndexVars PROVE IndexInv'
    OBVIOUS
  <2>1. CASE RecIndexNext
    <3>1. RecIndexType' /\ LockInv' /\ KnownInv'
      BY <2>1, StepType, StepLock, StepKnown, Zenon
    <3>2. OwnInv' /\ FormInv' /\ DaysInv' /\ RecordingsInv'
      BY <2>1, StepOwn, StepForm, StepDays, StepRecordings, Zenon
    <3> QED BY <3>1, <3>2, Zenon DEF IndexInv
  <2>2. CASE UNCHANGED recIndexVars
    <3>1. UNCHANGED <<dates, dirs, files, idx, rec, app, queue, idxlock, past>>
      BY <2>2, Zenon DEF recIndexVars
    <3> USE DEF IndexInv
    <3>2. RecIndexType'
      BY <3>1, NoChange, TypePartsNext, Zenon
    <3>5. LockInv' /\ FormInv'
      <4>1. LockInv'
        BY <3>1, Zenon DEF LockInv
      <4>2. FormInv'
        BY <3>1, Zenon DEF FormInv
      <4> QED BY <4>1, <4>2
    <3>6. KnownInv' /\ OwnInv'
      <4>1. KnownInv'
        BY <3>1, KnownFrame, Zenon DEF Asked
      <4>2. OwnInv'
        BY <3>1, OwnFrame, Zenon DEF Writing
      <4> QED BY <4>1, <4>2
    <3>3. DaysInv'
      <4>1. ASSUME NEW d \in Days, Sound(d)' PROVE DayRight(d)'
        <5>1. Sound(d)
          BY <3>1, <4>1, Zenon DEF Sound
        <5> QED BY <3>1, <5>1, DayUntouched, DeletingStays, Zenon DEF Asked
      <4> QED BY <4>1, Zenon DEF DaysInv
    <3>4. RecordingsInv'
      <4>1. ASSUME NEW r \in Recorders, Writing(r)', Sound(rec[r].dir)'
            PROVE  RecordingRight(r)'
        <5>1. Writing(r) /\ Sound(rec[r].dir)
          BY <3>1, <4>1, Zenon DEF Sound, Writing
        <5>2. RecordingRight(r)
          BY <5>1, Zenon DEF IndexInv, RecordingsInv
        <5> QED BY <3>1, <5>2, Zenon DEF RecordingRight, RecordingFits, EntryFits, Heads,
                 Deleting, Entries, Asked
      <4> QED BY <4>1, Zenon DEF RecordingsInv
    <3> QED BY <3>2, <3>3, <3>4, <3>5, <3>6, Zenon
  <2> QED BY <2>1, <2>2
<1> QED BY <1>1, <1>2, PTL DEF RecIndexSpec

(* Every variable of the recording index keeps to its type; a day without a *)
(* directory has neither recordings nor an index.                           *)
THEOREM RecIndexTypeCorrect == RecIndexSpec => []RecIndexType
<1>1. IndexInv => RecIndexType
  BY Zenon DEF IndexInv
<1> QED BY <1>1, RecIndexInvariant, PTL

(* The two writes of an insertion, and the cut and the write of a deletion, *)
(* leave no moment at which the head of a sound day's index counts an entry *)
(* that was never written, for any number of recorders, days, recordings    *)
(* and restarts of the program, each of which keeps what was written.       *)
THEOREM IndexStaysReadable == RecIndexSpec => []IndexReadable
<1>1. IndexInv => IndexReadable
  BY Zenon DEF IndexInv, DaysInv, DayRight, IndexReadable
<1> QED BY <1>1, RecIndexInvariant, PTL

(* The entries of a sound day's index are of recordings on the card whenever *)
(* the app is not in the middle of a delete request: no request still queued *)
(* names a listed recording, so carrying them out without the lock is safe.  *)
THEOREM EntriesKeepTheirFiles == RecIndexSpec => []EntriesHaveFiles
<1>1. IndexInv => EntriesHaveFiles
  <2> SUFFICES ASSUME IndexInv, NEW d \in Days, Sound(d), idxlock # "app",
                      NEW i \in 1 .. idx[d].totol
               PROVE  idx[d].list[i] \in files[d]
    BY Zenon DEF EntriesHaveFiles
  <2>1. ~Deleting(d)
    BY Zenon DEF IndexInv, LockInv, Deleting
  <2>2. Right(d, Heads(d))
    BY <2>1, Zenon DEF IndexInv, DaysInv, DayRight
  <2> QED BY <2>2, Zenon DEF Right, Heads
<1> QED BY <1>1, RecIndexInvariant, PTL

(* A recording that was listed stays in the index of its sound day as long  *)
(* as it is on the card and no app asks to delete it, restarts of the       *)
(* program included.                                                        *)
THEOREM NothingIsForgotten == RecIndexSpec => []NothingForgotten
<1>1. IndexInv => NothingForgotten
  <2> SUFFICES ASSUME IndexInv, NEW d \in Days, Sound(d),
                      ~ (idxlock = "app" /\ app.dir = d),
                      NEW f \in past.kept \cap files[d]
               PROVE  Contains(Counted(d), f)
    BY Zenon DEF NothingForgotten
  <2>1. ~Deleting(d)
    BY Zenon DEF IndexInv, LockInv, Deleting
  <2>2. idx[d].totol <= Len(idx[d].list) /\ Right(d, Heads(d))
    BY <2>1, Zenon DEF IndexInv, DaysInv, DayRight
  <2>3. idx[d] \in IndexRecord
    BY TypeParts, Zenon DEF IndexInv, IndexType
  <2>4. f \in Entries(Counted(d))
    BY <2>2, <2>3, CountedHeads, Zenon DEF Right
  <2>5. PICK s : s = Counted(d)
    OBVIOUS
  <2>6. Contains(s, f)
    BY <2>4, <2>5, Zenon DEF Contains, Entries
  <2> QED BY <2>5, <2>6, Zenon
<1> QED BY <1>1, RecIndexInvariant, PTL
-----------------------------------------------------------------------------
(* The catalogue. *)

(* A day of which nothing was ever listed, or all was removed, holds only    *)
(* recordings under way: what a restart finds when it makes a missing index. *)
Held(d) ==
  \A f \in files[d] :
    \E r \in Recorders : Writing(r) /\ rec[r].dir = d /\ rec[r].name = f

LooseInv == \A d \in Days : Sound(d) /\ idx[d].state = "none" => Held(d)

LEMMA HeldFrame ==
  ASSUME NEW d \in Days, Held(d), files'[d] \subseteq files[d],
         \A r \in Recorders :
           Writing(r) /\ rec[r].dir = d /\ rec[r].name \in files'[d] =>
             /\ Writing(r)' /\ rec'[r].dir = rec[r].dir
             /\ rec'[r].name = rec[r].name
  PROVE  Held(d)'
<1> SUFFICES ASSUME NEW f \in files'[d]
             PROVE  \E r \in Recorders : Writing(r)' /\ rec'[r].dir = d /\ rec'[r].name = f
  BY Zenon DEF Held
<1>1. PICK r \in Recorders : Writing(r) /\ rec[r].dir = d /\ rec[r].name = f
  BY Zenon DEF Held
<1> QED BY <1>1, Zenon

(* What a step may do that makes no recording and takes no recorder from a   *)
(* recording it has left on the card.                                        *)
LEMMA LooseFrame ==
  ASSUME LooseInv, past.spoilt \subseteq past'.spoilt,
         \A d \in Days : Sound(d) /\ Sound(d)' /\ idx'[d].state = "none" =>
           \/ files'[d] = {}
           \/ /\ idx[d].state = "none" /\ files'[d] \subseteq files[d]
              /\ \A r \in Recorders :
                   Writing(r) /\ rec[r].dir = d /\ rec[r].name \in files'[d] =>
                     /\ Writing(r)' /\ rec'[r].dir = rec[r].dir
                     /\ rec'[r].name = rec[r].name
  PROVE  LooseInv'
<1> SUFFICES ASSUME NEW d \in Days, Sound(d)', idx'[d].state = "none" PROVE Held(d)'
  BY Zenon DEF LooseInv
<1>1. Sound(d)
  BY SoundGrows, Zenon
<1>2. CASE files'[d] = {}
  BY <1>2, Zenon DEF Held
<1>3. CASE files'[d] # {}
  <2>1. Held(d)
    BY <1>1, <1>3, Zenon DEF LooseInv
  <2> QED BY <1>1, <1>3, <2>1, HeldFrame, Zenon
<1> QED BY <1>2, <1>3

(* Recorders that are not recording come and go.                             *)
LEMMA LooseQuiet ==
  ASSUME LooseInv, UNCHANGED <<files, idx, past>>,
         \A q \in Recorders : Writing(q) =>
           Writing(q)' /\ rec'[q].dir = rec[q].dir /\ rec'[q].name = rec[q].name
  PROVE  LooseInv'
BY LooseFrame, Zenon

LEMMA LooseRemoved ==
  ASSUME LooseInv, NEW d \in Days, DirRemoved(d), past.spoilt \subseteq past'.spoilt
  PROVE  LooseInv'
<1>1. ASSUME NEW e \in Days, idx'[e].state = "none"
      PROVE  \/ files'[e] = {}
             \/ /\ idx[e].state = "none" /\ files'[e] \subseteq files[e]
                /\ \A r \in Recorders : Writing(r) =>
                     /\ Writing(r)' /\ rec'[r].dir = rec[r].dir
                     /\ rec'[r].name = rec[r].name
  <2>1. CASE e = d
    BY <2>1, Zenon DEF DirRemoved
  <2>2. CASE e # d
    <3>1. idx'[e] = idx[e] /\ files'[e] = files[e]
      BY <2>2, Zenon DEF DirRemoved, OnlyFiles, OnlyIndex
    <3>2. \A r \in Recorders : Writing(r) =>
            /\ Writing(r)' /\ rec'[r].dir = rec[r].dir /\ rec'[r].name = rec[r].name
      BY Zenon DEF DirRemoved, Writing
    <3> QED BY <1>1, <3>1, <3>2, Zenon
  <2> QED BY <2>1, <2>2
<1> QED BY <1>1, LooseFrame, Zenon

LEMMA OthersWriteOn ==
  ASSUME NEW r \in Recorders, OnlyRecorder(r)
  PROVE  \A q \in Recorders : Writing(q) /\ q # r =>
           Writing(q)' /\ rec'[q].dir = rec[q].dir /\ rec'[q].name = rec[q].name
BY Zenon DEF OnlyRecorder, Writing

LEMMA StepLoose ==
  ASSUME IndexInv, LooseInv, RecIndexNext
  PROVE  LooseInv'
<1> USE DEF IndexInv
<1>1. ASSUME NEW r \in Recorders, OnlyRecorder(r), ~Writing(r),
             UNCHANGED <<files, idx, past>>
      PROVE  LooseInv'
  BY <1>1, OthersWriteOn, LooseQuiet, Zenon
<1>2. ASSUME NEW r \in Recorders, NEW d \in Days, LookForDir(r, d) PROVE LooseInv'
  <2>1. OnlyRecorder(r) /\ rec[r].at = "idle" /\ UNCHANGED <<files, idx, past>>
    BY <1>2, DoesLookForDir, Zenon
  <2>2. ~Writing(r)
    BY <2>1 DEF Writing
  <2> QED BY <1>1, <2>1, <2>2, Zenon
<1>3. ASSUME NEW r \in Recorders, MakeDir(r) PROVE LooseInv'
  <2>1. OnlyRecorder(r) /\ rec[r].at = "absent" /\ UNCHANGED <<files, idx, past>>
    BY <1>3, DoesMakeDir, Zenon
  <2>2. ~Writing(r)
    BY <2>1 DEF Writing
  <2> QED BY <1>1, <2>1, <2>2, Zenon
<1>4. ASSUME NEW r \in Recorders, ListDay(r) PROVE LooseInv'
  <2>1. OnlyRecorder(r) /\ rec[r].at = "made" /\ UNCHANGED <<files, idx, past>>
    BY <1>4, DoesListDay, Zenon
  <2>2. ~Writing(r)
    BY <2>1 DEF Writing
  <2> QED BY <1>1, <2>1, <2>2, Zenon
<1>5. ASSUME NEW r \in Recorders, OpenFails(r) PROVE LooseInv'
  <2>1. OnlyRecorder(r) /\ rec[r].at = "ready" /\ UNCHANGED <<files, idx, past>>
    BY <1>5, DoesOpenFails, Zenon
  <2>2. ~Writing(r)
    BY <2>1 DEF Writing
  <2> QED BY <1>1, <2>1, <2>2, Zenon
<1>6. ASSUME NEW r \in Recorders, MakeIndex(r) PROVE LooseInv'
  <2>d. PICK d : d = rec[r].dir
    OBVIOUS
  <2>1. /\ rec[r].at = "listed" /\ OnlyRecorder(r) /\ d \in Days /\ OnlyIndex(d)
        /\ idx'[d] = IF d \in dirs THEN Index(<<>>) ELSE idx[d]
        /\ past.spoilt \subseteq past'.spoilt /\ UNCHANGED files
    BY <1>6, <2>d, DoesMakeIndex, Zenon
  <2>2. ~Writing(r)
    BY <2>1 DEF Writing
  <2>3. ASSUME NEW e \in Days, idx'[e].state = "none" PROVE idx[e].state = "none"
    <3>1. CASE e = d /\ d \in dirs
      <4>1. idx'[e].state = "good"
        BY <2>1, <3>1, Nothing, Zenon
      <4> QED BY <2>3, <4>1
    <3>2. CASE ~ (e = d /\ d \in dirs)
      BY <2>1, <2>3, <3>2, Zenon DEF OnlyIndex
    <3> QED BY <3>1, <3>2
  <2> QED BY <2>1, <2>2, <2>3, OthersWriteOn, LooseFrame, Zenon
<1>7. ASSUME NEW r \in Recorders, OpenRecording(r) PROVE LooseInv'
  <2>d. PICK d, f : d = rec[r].dir /\ f = past.begun + 1
    OBVIOUS
  <2>1. /\ rec[r].at = "ready" /\ OnlyRecorder(r)
        /\ rec'[r].at = "open" /\ rec'[r].dir = d /\ rec'[r].name = f
        /\ d \in Days /\ OnlyFiles(d) /\ files'[d] = files[d] \cup {f}
        /\ past'.spoilt = past.spoilt /\ UNCHANGED idx
    BY <1>7, <2>d, DoesOpenRecording, Zenon
  <2>2. ~Writing(r) /\ Writing(r)'
    BY <2>1 DEF Writing
  <2>3. ASSUME NEW e \in Days, Sound(e)', idx'[e].state = "none" PROVE Held(e)'
    <3>1. Held(e)
      BY <2>1, <2>3, Zenon DEF LooseInv, Sound
    <3>2. ASSUME NEW g \in files[e]
          PROVE  \E q \in Recorders : Writing(q)' /\ rec'[q].dir = e /\ rec'[q].name = g
      <4>1. PICK q \in Recorders : Writing(q) /\ rec[q].dir = e /\ rec[q].name = g
        BY <3>1, Zenon DEF Held
      <4> QED BY <2>1, <2>2, <4>1, OthersWriteOn, Zenon
    <3>3. ASSUME NEW g \in files'[e], g \notin files[e]
          PROVE  e = d /\ g = f
      BY <2>1, <3>3, Zenon DEF OnlyFiles
    <3> QED BY <2>1, <2>2, <3>2, <3>3, Zenon DEF Held
  <2> QED BY <2>3, Zenon DEF LooseInv
<1>8. ASSUME NEW r \in Recorders, DropRecording(r) PROVE LooseInv'
  <2>d. PICK d, f : d = rec[r].dir /\ f = rec[r].name
    OBVIOUS
  <2>1. /\ rec[r].at = "open" /\ OnlyRecorder(r)
        /\ d \in Days /\ OnlyFiles(d) /\ files'[d] = files[d] \ {f}
        /\ UNCHANGED <<idx, past>>
    BY <1>8, <2>d, DoesDropRecording, Zenon
  <2>2. ASSUME NEW e \in Days
        PROVE  /\ files'[e] \subseteq files[e]
               /\ \A q \in Recorders :
                    Writing(q) /\ rec[q].dir = e /\ rec[q].name \in files'[e] => q # r
    <3>1. CASE e = d
      BY <2>1, <2>d, <3>1, Zenon
    <3>2. CASE e # d
      BY <2>1, <2>d, <3>2, Zenon DEF OnlyFiles
    <3> QED BY <3>1, <3>2
  <2> QED BY <2>1, <2>2, OthersWriteOn, LooseFrame, Zenon
<1>9. ASSUME NEW r \in Recorders, StartIndex(r) PROVE LooseInv'
  <2>d. PICK d, f : d = rec[r].dir /\ f = rec[r].name
    OBVIOUS
  <2>1. /\ OnlyRecorder(r) /\ d \in Days /\ OnlyIndex(d)
        /\ idx'[d] = IF d \in dirs THEN Index(<<f>>) ELSE idx[d]
        /\ past'.spoilt = past.spoilt /\ UNCHANGED <<dirs, files>>
    BY <1>9, <2>d, DoesStartIndex, Zenon
  <2>2. d \notin dirs => files[d] = {}
    BY <2>1, TypeParts, Zenon DEF IndexType
  <2>3. d \in dirs => idx'[d].state # "none"
    <3>1. d \in dirs => idx'[d].state = "good"
      BY <2>1, Singleton, Zenon
    <3> QED BY <3>1
  <2>4. ASSUME NEW e \in Days, idx'[e].state = "none"
        PROVE  \/ files'[e] = {}
               \/ /\ idx[e].state = "none" /\ files'[e] \subseteq files[e]
                  /\ \A q \in Recorders : Writing(q) /\ rec[q].dir = e => q # r
    <3>1. CASE e = d
      BY <2>1, <2>2, <2>3, <2>4, <3>1, Zenon
    <3>2. CASE e # d
      BY <2>1, <2>d, <2>4, <3>2, Zenon DEF OnlyIndex
    <3> QED BY <3>1, <3>2
  <2> QED BY <2>1, <2>4, OthersWriteOn, LooseFrame, Zenon
<1>10. ASSUME NEW r \in Recorders, WriteEntry(r) PROVE LooseInv'
  <2>d. PICK d : d = rec[r].dir
    OBVIOUS
  <2>1. /\ OnlyRecorder(r) /\ rec'[r].at = "entry" /\ rec'[r].dir = rec[r].dir
        /\ rec'[r].name = rec[r].name
        /\ d \in Days /\ OnlyIndex(d) /\ idx[d].state = "good" /\ idx'[d].state = "good"
        /\ UNCHANGED <<files, past>>
    BY <1>10, <2>d, DoesWriteEntry, Zenon
  <2>2. Writing(r)' /\ idx'[d].state # "none"
    BY <2>1 DEF Writing
  <2>3. \A e \in Days : idx'[e].state = "none" => idx[e].state = "none"
    BY <2>1, <2>2, Zenon DEF OnlyIndex
  <2> QED BY <2>1, <2>2, <2>3, OthersWriteOn, LooseFrame, Zenon
<1>11. ASSUME NEW r \in Recorders, WriteHead(r) PROVE LooseInv'
  <2>d. PICK d : d = rec[r].dir
    OBVIOUS
  <2>1. /\ rec[r].at = "entry" /\ OnlyRecorder(r) /\ d \in Days
        /\ OnlyIndex(d) /\ idx'[d].state = idx[d].state
        /\ ~rec[r].gone => idx[d].state = "good"
        /\ past'.spoilt = past.spoilt /\ UNCHANGED files
    BY <1>11, <2>d, DoesWriteHead, Zenon
  <2>2. Sound(d) => idx[d].state # "none"
    <3>1. Sound(d) => ~rec[r].gone
      <4>1. Writing(r)
        BY <2>1 DEF Writing
      <4> QED BY <2>1, <2>d, <4>1, RecordingRightNow, Zenon DEF RecordingRight
    <3> QED BY <2>1, <3>1
  <2>3. ASSUME NEW e \in Days, Sound(e), idx'[e].state = "none"
        PROVE  idx[e].state = "none" /\ \A q \in Recorders : rec[q].dir = e => q # r
    <3>1. e # d
      BY <2>1, <2>2, <2>3, Zenon
    <3> QED BY <2>1, <2>d, <2>3, <3>1, Zenon DEF OnlyIndex
  <2> QED BY <2>1, <2>3, OthersWriteOn, LooseFrame, Zenon
<1>12. ASSUME UNCHANGED <<files, idx, rec, past>> PROVE LooseInv'
  BY <1>12, LooseQuiet, Zenon DEF Writing
<1>13. ASSUME NEW d \in Days, DeleteDay(d) PROVE LooseInv'
  BY <1>12, <1>13, DoesDeleteDay, Zenon
<1>14. ASSUME NEW d \in Days, ImportIndex(d) PROVE LooseInv'
  BY <1>12, <1>14, DoesImportIndex, Zenon
<1>15. ASSUME NEW f \in Files, DropEntry(f) PROVE LooseInv'
  <2>1. past'.spoilt = past.spoilt /\ UNCHANGED <<files, idx, rec>>
    BY <1>15, DoesDropEntry, Zenon
  <2> QED BY <2>1, LooseFrame, Zenon DEF Writing
<1>16. ASSUME ReleaseEmpty PROVE LooseInv'
  <2>1. app.dir \in Days /\ DirRemoved(app.dir) /\ past.spoilt \subseteq past'.spoilt
    BY <1>16, DoesReleaseEmpty, Zenon
  <2> QED BY <2>1, LooseRemoved, Zenon
<1>17. ASSUME CutOff PROVE LooseInv'
  <2>1. /\ app.dir \in Days /\ OnlyIndex(app.dir)
        /\ idx'[app.dir] = IF app.dir \in dirs THEN CutIndex ELSE idx[app.dir]
        /\ UNCHANGED <<files, rec, past>>
    BY <1>17, DoesCutOff, Zenon
  <2>2. CutIndex.state # "none"
    BY Nothing
  <2>3. \A e \in Days : idx'[e].state = "none" => idx[e].state = "none"
    BY <2>1, <2>2, Zenon DEF OnlyIndex
  <2> QED BY <2>1, <2>3, LooseFrame, Zenon DEF Writing
<1>18. ASSUME WriteList PROVE LooseInv'
  <2>l. PICK s : s = app.list
    OBVIOUS
  <2>1. /\ app.dir \in Days /\ OnlyIndex(app.dir)
        /\ idx'[app.dir] = IF app.gone \/ app.dir \notin dirs THEN idx[app.dir]
                           ELSE Index(s)
        /\ UNCHANGED <<files, rec, past>>
    BY <1>18, <2>l, DoesWriteList, Zenon
  <2>2. Index(s).state # "none"
    BY DEF Index
  <2>3. \A e \in Days : idx'[e].state = "none" => idx[e].state = "none"
    BY <2>1, <2>2, Zenon DEF OnlyIndex
  <2> QED BY <2>1, <2>3, LooseFrame, Zenon DEF Writing
<1>19. ASSUME CarryOut PROVE LooseInv'
  <2>d. PICK d, f : d = Head(queue)[1] /\ f = Head(queue)[2]
    OBVIOUS
  <2>1. /\ d \in Days
        /\ f = 0 => DirRemoved(d) /\ past.spoilt \subseteq past'.spoilt
        /\ f # 0 => /\ OnlyFiles(d) /\ files'[d] = files[d] \ {f}
                    /\ UNCHANGED <<idx, rec, past>>
    BY <1>19, <2>d, DoesCarryOut, Zenon
  <2>2. CASE f = 0
    BY <2>1, <2>2, LooseRemoved, Zenon
  <2>3. CASE f # 0
    <3>1. \A e \in Days : files'[e] \subseteq files[e]
      BY <2>1, <2>3, Zenon DEF OnlyFiles
    <3> QED BY <2>1, <2>3, <3>1, LooseFrame, Zenon DEF Writing
  <2> QED BY <2>2, <2>3
<1>20. ASSUME CleanBegins PROVE LooseInv'
  BY <1>12, <1>20, DoesCleanBegins, Zenon
<1>21. ASSUME CleanEnds PROVE LooseInv'
  <2>d. PICK d : d = Head(dates)
    OBVIOUS
  <2>1. d \in Days /\ DirRemoved(d) /\ past.spoilt \subseteq past'.spoilt
    BY <1>21, <2>d, DoesCleanEnds, Zenon
  <2> QED BY <2>1, LooseRemoved, Zenon
<1>22. ASSUME Restart PROVE LooseInv'
  <2>1. /\ \A d \in Days : idx'[d] = Found(d)
        /\ past.spoilt \subseteq past'.spoilt /\ UNCHANGED files
    BY <1>22, DoesRestart, Zenon
  <2>2. ASSUME NEW d \in Days, idx'[d].state = "none" PROVE files'[d] = {}
    <3>1. CASE idx[d].state = "none" /\ files[d] # {}
      <4>1. idx'[d].state = "good"
        BY <2>1, <3>1, FoundIs, Zenon
      <4> QED BY <2>2, <4>1
    <3>2. CASE ~ (idx[d].state = "none" /\ files[d] # {})
      BY <2>1, <2>2, <3>2, FoundIs, Zenon
    <3> QED BY <3>1, <3>2
  <2> QED BY <2>1, <2>2, LooseFrame, Zenon
<1> QED BY <1>2, <1>3, <1>4, <1>5, <1>6, <1>7, <1>8, <1>9, <1>10, <1>11, <1>13, <1>14,
           <1>15, <1>16, <1>17, <1>18, <1>19, <1>20, <1>21, <1>22, Zenon
        DEF RecIndexNext, Recorder, Deleter

LEMMA LooseHolds == RecIndexSpec => []LooseInv
<1>1. RecIndexInit => LooseInv
  <2> SUFFICES ASSUME RecIndexInit PROVE LooseInv
    OBVIOUS
  <2>1. \A d \in Days : files[d] = {}
    BY Zenon DEF RecIndexInit
  <2> QED BY <2>1, Zenon DEF LooseInv, Held
<1>2. IndexInv /\ LooseInv /\ [RecIndexNext]_recIndexVars => LooseInv'
  <2> SUFFICES ASSUME IndexInv, LooseInv, [RecIndexNext]_recIndexVars PROVE LooseInv'
    OBVIOUS
  <2>1. CASE UNCHANGED recIndexVars
    <3>1. UNCHANGED <<files, idx, rec, past>>
      BY <2>1, Zenon DEF recIndexVars
    <3> QED BY <3>1, LooseQuiet, Zenon DEF Writing
  <2> QED BY <2>1, StepLoose, Zenon
<1> QED BY <1>1, <1>2, RecIndexInvariant, PTL DEF RecIndexSpec

(* The lists as a reader sees them.  What the invariant says of a sound day  *)
(* is what the catalogue has of it.                                          *)
ViewInv ==
  \A d \in Days :
    /\ Sound(d) => /\ InList(d) = Listed(d)
                   /\ \A f : f \in UnderWay(d) <=>
                        \E r \in Recorders : Writing(r) /\ rec[r].dir = d /\ rec[r].name = f
    /\ ~Sound(d) => InList(d) = {} /\ UnderWay(d) = {}

LEMMA EntriesAre ==
  ASSUME NEW S, NEW s \in Seq(S)
  PROVE  ToSet(s) = Entries(s)
<1>1. DOMAIN s = 1 .. Len(s)
  OBVIOUS
<1> QED BY <1>1, Zenon DEF ToSet, Entries

LEMMA ViewHolds == IndexInv => ViewInv
<1> SUFFICES ASSUME IndexInv, NEW d \in Days
             PROVE  /\ Sound(d) => /\ InList(d) = Listed(d)
                                   /\ \A f : f \in UnderWay(d) <=>
                                        \E r \in Recorders :
                                          Writing(r) /\ rec[r].dir = d /\ rec[r].name = f
                    /\ ~Sound(d) => InList(d) = {} /\ UnderWay(d) = {}
  BY Zenon DEF ViewInv
<1> USE DEF IndexInv
<1>1. ASSUME Sound(d) PROVE InList(d) = Listed(d)
  <2>1. DayRight(d)
    BY <1>1, Zenon DEF DaysInv
  <2>2. CASE Deleting(d)
    <3>1. app.list \in Seq(Nat)
      <4>1. app \in AppRecord
        BY TypeParts, Zenon DEF AppType
      <4> QED BY <4>1 DEF AppRecord
    <3>2. ToSet(app.list) = Entries(app.list)
      BY <3>1, EntriesAre, Zenon
    <3> QED BY <1>1, <2>2, <3>2, Zenon DEF InList, Listed
  <2>3. CASE ~Deleting(d)
    <3>1. idx[d] \in IndexRecord
      BY TypeParts, Zenon DEF IndexType
    <3>2. idx[d].totol <= Len(idx[d].list)
      BY <2>1, Zenon DEF DayRight
    <3>3. Counted(d) \in Seq(Nat) /\ Entries(Counted(d)) = Heads(d)
      BY <3>1, <3>2, CountedIs, CountedHeads, Zenon
    <3>4. ToSet(Counted(d)) = Heads(d)
      BY <3>3, EntriesAre, Zenon
    <3> QED BY <1>1, <2>3, <3>4, Zenon DEF InList, Listed
  <2> QED BY <2>2, <2>3
<1>2. ASSUME Sound(d), NEW f
      PROVE  f \in UnderWay(d) <=>
               \E r \in Recorders : Writing(r) /\ rec[r].dir = d /\ rec[r].name = f
  BY <1>2, Zenon DEF UnderWay, Writing
<1>3. ~Sound(d) => InList(d) = {} /\ UnderWay(d) = {}
  BY Zenon DEF InList, UnderWay
<1> QED BY <1>1, <1>2, <1>3, Zenon

(* A day the catalogue has as it was, and the days but one.                  *)
Same(d) == UnderWay(d)' = UnderWay(d) /\ InList(d)' = InList(d)
OthersSame(d) == \A e \in Days : e # d => Same(e)

LEMMA SpoiltSame ==
  ASSUME ViewInv, ViewInv', NEW d \in Days, ~Sound(d), ~Sound(d)'
  PROVE  Same(d)
BY Zenon DEF ViewInv, Same

LEMMA CatBecomes ==
  ASSUME NEW d \in Days, NEW u, NEW l, UnderWay(d)' = u, InList(d)' = l, OthersSame(d)
  PROVE  Cat!Becomes(d, u, l)
<1>1. \A e \in Days : /\ UnderWay(e)' = IF e = d THEN u ELSE UnderWay(e)
                      /\ InList(e)' = IF e = d THEN l ELSE InList(e)
  BY Zenon DEF OthersSame, Same
<1> HIDE DEF UnderWay, InList
<1> QED BY <1>1 DEF Cat!Becomes

LEMMA CatStutters ==
  ASSUME past'.begun = past.begun, past'.spoilt = past.spoilt, \A e \in Days : Same(e)
  PROVE  UNCHANGED Cat!vars
BY Zenon DEF Same, Cat!vars

LEMMA CatLoses ==
  ASSUME ViewInv', NEW d \in Days, OthersSame(d), past'.begun = past.begun,
         past'.spoilt = past.spoilt \cup {d}
  PROVE  Cat!Next
<1>1. ~Sound(d)'
  BY Zenon DEF Sound
<1>2. UnderWay(d)' = {} /\ InList(d)' = {}
  BY <1>1, Zenon DEF ViewInv
<1>3. Cat!Lose(d)
  BY <1>2, CatBecomes, Zenon DEF Cat!Lose
<1> QED BY <1>3, Zenon DEF Cat!Next

(* What a day's list depends on.                                             *)
LEMMA ListedStays ==
  ASSUME NEW e \in Days, idx'[e] = idx[e], Deleting(e)' <=> Deleting(e),
         Deleting(e) => app'.list = app.list
  PROVE  Listed(e)' = Listed(e)
BY Zenon DEF Listed, Heads, Entries

LEMMA SameWhen ==
  ASSUME ViewInv, ViewInv', NEW e \in Days, Sound(e)' <=> Sound(e),
         Sound(e) => Listed(e)' = Listed(e),
         Sound(e) => \A q \in Recorders :
           /\ Writing(q)' /\ rec'[q].dir = e <=> Writing(q) /\ rec[q].dir = e
           /\ Writing(q) /\ rec[q].dir = e => rec'[q].name = rec[q].name
  PROVE  Same(e)
<1>1. CASE Sound(e)
  <2>1. InList(e)' = InList(e)
    BY <1>1, Zenon DEF ViewInv
  <2>2. \A f : f \in UnderWay(e)' <=> f \in UnderWay(e)
    <3> SUFFICES ASSUME NEW f PROVE f \in UnderWay(e)' <=> f \in UnderWay(e)
      OBVIOUS
    <3>1. /\ f \in UnderWay(e)' <=> \E r \in Recorders : Writing(r)' /\ rec'[r].dir = e
                                                        /\ rec'[r].name = f
          /\ f \in UnderWay(e) <=> \E r \in Recorders : Writing(r) /\ rec[r].dir = e
                                                       /\ rec[r].name = f
      BY <1>1, Zenon DEF ViewInv
    <3> QED BY <1>1, <3>1, Zenon
  <2> HIDE DEF UnderWay
  <2> QED BY <2>1, <2>2, Zenon DEF Same
<1>2. CASE ~Sound(e)
  BY <1>2, SpoiltSame, Zenon
<1> QED BY <1>1, <1>2

(* A recorder that is not recording before or after changes no list by its   *)
(* step; one that records on, or begins or ends, leaves the other days.      *)
LEMMA IdleSame ==
  ASSUME NEW r \in Recorders, OnlyRecorder(r), ~Writing(r), ~Writing(r)', NEW e
  PROVE  \A q \in Recorders :
           /\ Writing(q)' /\ rec'[q].dir = e <=> Writing(q) /\ rec[q].dir = e
           /\ Writing(q) /\ rec[q].dir = e => rec'[q].name = rec[q].name
BY Zenon DEF OnlyRecorder, Writing

LEMMA OtherDaySame ==
  ASSUME NEW r \in Recorders, OnlyRecorder(r), NEW e,
         Writing(r) => rec[r].dir # e, Writing(r)' => rec'[r].dir # e
  PROVE  \A q \in Recorders :
           /\ Writing(q)' /\ rec'[q].dir = e <=> Writing(q) /\ rec[q].dir = e
           /\ Writing(q) /\ rec[q].dir = e => rec'[q].name = rec[q].name
BY Zenon DEF OnlyRecorder, Writing

(* The recording of a recorder that ends is one of those under way, and the  *)
(* others go on.                                                             *)
LEMMA MakingEnds ==
  ASSUME OwnInv, ViewInv, ViewInv', NEW r \in Recorders, OnlyRecorder(r),
         Writing(r), ~Writing(r)', NEW d \in Days, NEW f, d = rec[r].dir, f = rec[r].name,
         Sound(d), Sound(d)'
  PROVE  f \in UnderWay(d) /\ UnderWay(d)' = UnderWay(d) \ {f}
<1>1. f \in UnderWay(d)
  BY Zenon DEF ViewInv
<1>2. ASSUME NEW g PROVE g \in UnderWay(d)' <=> g \in UnderWay(d) /\ g # f
  <2>1. /\ g \in UnderWay(d)' <=> \E q \in Recorders : Writing(q)' /\ rec'[q].dir = d
                                                      /\ rec'[q].name = g
        /\ g \in UnderWay(d) <=> \E q \in Recorders : Writing(q) /\ rec[q].dir = d
                                                     /\ rec[q].name = g
    BY Zenon DEF ViewInv
  <2>2. \A q \in Recorders : q # r => rec'[q] = rec[q] /\ (Writing(q)' <=> Writing(q))
    BY Zenon DEF OnlyRecorder, Writing
  <2>3. \A q \in Recorders : Writing(q) /\ q # r => rec[q].name # f
    BY OwnName, Zenon
  <2> QED BY <2>1, <2>2, <2>3, Zenon
<1> HIDE DEF UnderWay
<1> QED BY <1>1, <1>2, Zenon

(* A day's directory goes: the day is lost, or was, or nobody was recording. *)
LEMMA CatRemoved ==
  ASSUME ViewInv, ViewInv', NEW d \in Days, NEW so \in BOOLEAN, DirRemoved(d),
         past'.spoilt = past.spoilt \cup (IF so THEN {d} ELSE {}),
         Sound(d) /\ ~so => /\ ~Deleting(d)'
                            /\ \A r \in Recorders : Writing(r) => rec[r].dir # d,
         \A e \in Days : e # d => /\ Deleting(e)' <=> Deleting(e)
                                  /\ Deleting(e) => app'.list = app.list
  PROVE  Cat!Next \/ UNCHANGED Cat!vars
<1>1. past'.begun = past.begun
  BY Zenon DEF DirRemoved
<1>w. \A q \in Recorders : /\ Writing(q)' <=> Writing(q)
                           /\ rec'[q].dir = rec[q].dir /\ rec'[q].name = rec[q].name
  BY Zenon DEF DirRemoved, Writing
<1>2. OthersSame(d)
  <2> SUFFICES ASSUME NEW e \in Days, e # d PROVE Same(e)
    BY Zenon DEF OthersSame
  <2>1. Sound(e)' <=> Sound(e)
    BY Zenon DEF Sound
  <2>2. idx'[e] = idx[e]
    BY Zenon DEF DirRemoved, OnlyIndex
  <2>3. Listed(e)' = Listed(e)
    BY <2>2, ListedStays, Zenon
  <2> QED BY <1>w, <2>1, <2>3, SameWhen, Zenon
<1>3. CASE so
  BY <1>1, <1>2, <1>3, CatLoses, Zenon
<1>4. CASE ~so /\ ~Sound(d)
  <2>1. past'.spoilt = past.spoilt
    BY <1>4, Zenon
  <2>2. ~Sound(d)'
    BY <1>4, <2>1, Zenon DEF Sound
  <2>3. \A e \in Days : Same(e)
    BY <1>2, <1>4, <2>2, SpoiltSame, Zenon DEF OthersSame
  <2> QED BY <1>1, <2>1, <2>3, CatStutters, Zenon
<1>5. CASE ~so /\ Sound(d)
  <2>1. past'.spoilt = past.spoilt
    BY <1>5, Zenon
  <2>2. Sound(d)'
    BY <1>5, <2>1, Zenon DEF Sound
  <2>3. ASSUME NEW f PROVE f \notin UnderWay(d) /\ f \notin UnderWay(d)'
    <3>1. /\ f \in UnderWay(d)' <=> \E q \in Recorders : Writing(q)' /\ rec'[q].dir = d
                                                        /\ rec'[q].name = f
          /\ f \in UnderWay(d) <=> \E q \in Recorders : Writing(q) /\ rec[q].dir = d
                                                       /\ rec[q].name = f
      BY <1>5, <2>2, Zenon DEF ViewInv
    <3>2. \A q \in Recorders : Writing(q) => rec[q].dir # d
      BY <1>5, Zenon
    <3> HIDE DEF UnderWay
    <3> QED BY <1>w, <3>1, <3>2, Zenon
  <2>4. UnderWay(d) = {} /\ UnderWay(d)' = {}
    <3> HIDE DEF UnderWay
    <3> QED BY <2>3, Zenon
  <2>5. InList(d)' = {}
    <3>1. Heads(d)' = {}
      <4>1. idx'[d] = NoIndex
        BY Zenon DEF DirRemoved
      <4> QED BY <4>1, HeadsOfNone, Zenon
    <3>2. InList(d)' = Listed(d)'
      BY <2>2, Zenon DEF ViewInv
    <3> QED BY <1>5, <3>1, <3>2, Zenon DEF Listed
  <2>6. Cat!DeleteAll(d)
    BY <1>1, <1>2, <2>1, <2>4, <2>5, CatBecomes, Zenon DEF Cat!DeleteAll
  <2> QED BY <2>6, Zenon DEF Cat!Next
<1> QED BY <1>3, <1>4, <1>5

(* A recording of a recorder that ends: it is listed, or was never made.     *)
LEMMA CatEnds ==
  ASSUME OwnInv, ViewInv, ViewInv', NEW r \in Recorders, OnlyRecorder(r),
         Writing(r), ~Writing(r)', NEW d \in Days, NEW f \in Files,
         d = rec[r].dir, f = rec[r].name, OthersSame(d),
         past'.begun = past.begun, past'.spoilt = past.spoilt,
         Sound(d) => Listed(d)' \in {Listed(d), Listed(d) \cup {f}}
  PROVE  Cat!Next \/ UNCHANGED Cat!vars
<1>1. CASE Sound(d)
  <2>1. Sound(d)'
    BY <1>1, Zenon DEF Sound
  <2>2. f \in UnderWay(d) /\ UnderWay(d)' = UnderWay(d) \ {f}
    BY <1>1, <2>1, MakingEnds, Zenon
  <2>3. InList(d) = Listed(d) /\ InList(d)' = Listed(d)'
    BY <1>1, <2>1, Zenon DEF ViewInv
  <2>4. CASE Listed(d)' = Listed(d)
    <3>1. Cat!Abandon(d, f)
      BY <2>2, <2>3, <2>4, CatBecomes, Zenon DEF Cat!Abandon
    <3> QED BY <3>1, Zenon DEF Cat!Next
  <2>5. CASE Listed(d)' = Listed(d) \cup {f}
    <3>1. Cat!Enter(d, f)
      BY <2>2, <2>3, <2>5, CatBecomes, Zenon DEF Cat!Enter
    <3> QED BY <3>1, Zenon DEF Cat!Next
  <2> QED BY <1>1, <2>4, <2>5, Zenon
<1>2. CASE ~Sound(d)
  <2>1. ~Sound(d)'
    BY <1>2, Zenon DEF Sound
  <2>2. \A e \in Days : Same(e)
    BY <1>2, <2>1, SpoiltSame, Zenon DEF OthersSame
  <2> QED BY <2>2, CatStutters, Zenon
<1> QED BY <1>1, <1>2

(* A step of a recorder that is not recording, or records on.                *)
LEMMA CatQuiet ==
  ASSUME ViewInv, ViewInv', UNCHANGED <<idx, app, past>>,
         \A q \in Recorders : /\ Writing(q)' <=> Writing(q)
                              /\ Writing(q) => /\ rec'[q].dir = rec[q].dir
                                               /\ rec'[q].name = rec[q].name
  PROVE  UNCHANGED Cat!vars
<1>1. ASSUME NEW e \in Days PROVE Same(e)
  <2>1. Listed(e)' = Listed(e) /\ (Sound(e)' <=> Sound(e))
    <3>1. Deleting(e)' <=> Deleting(e)
      BY Zenon DEF Deleting
    <3> QED BY <3>1, ListedStays, Zenon DEF Sound
  <2> QED BY <2>1, SameWhen, Zenon
<1> QED BY <1>1, CatStutters, Zenon

LEMMA RecorderQuiet ==
  ASSUME ViewInv, ViewInv', NEW r \in Recorders, OnlyRecorder(r), ~Writing(r), ~Writing(r)',
         UNCHANGED <<idx, app, past>>
  PROVE  UNCHANGED Cat!vars
BY CatQuiet, Zenon DEF OnlyRecorder, Writing

(* A step of a recorder on its own day leaves the lists of the others.       *)
LEMMA RecorderOthers ==
  ASSUME ViewInv, ViewInv', NEW r \in Recorders, OnlyRecorder(r), NEW d \in Days,
         Writing(r) => rec[r].dir = d, Writing(r)' => rec'[r].dir = d,
         OnlyIndex(d), UNCHANGED app, \A e \in Days : e # d => (Sound(e)' <=> Sound(e))
  PROVE  OthersSame(d)
<1> SUFFICES ASSUME NEW e \in Days, e # d PROVE Same(e)
  BY Zenon DEF OthersSame
<1>1. Listed(e)' = Listed(e)
  <2>1. Deleting(e)' <=> Deleting(e)
    BY Zenon DEF Deleting
  <2> QED BY <2>1, ListedStays, Zenon DEF OnlyIndex
<1> QED BY <1>1, OtherDaySame, SameWhen, Zenon

(* A step of the app on the day it deletes from leaves the lists of the      *)
(* others.                                                                   *)
LEMMA AppOthers ==
  ASSUME ViewInv, ViewInv', NEW d \in Days, OnlyIndex(d), UNCHANGED rec,
         past'.spoilt = past.spoilt,
         \A e \in Days : e # d => ~Deleting(e) /\ ~Deleting(e)'
  PROVE  OthersSame(d)
<1> SUFFICES ASSUME NEW e \in Days, e # d PROVE Same(e)
  BY Zenon DEF OthersSame
<1>1. Listed(e)' = Listed(e) /\ (Sound(e)' <=> Sound(e))
  BY ListedStays, Zenon DEF OnlyIndex, Sound
<1> QED BY <1>1, SameWhen, Zenon DEF Writing

(* ... and so does it leave that day when it gives it the same list.         *)
LEMMA AppQuiet ==
  ASSUME ViewInv, ViewInv', NEW d \in Days, OnlyIndex(d), UNCHANGED rec,
         past'.spoilt = past.spoilt, past'.begun = past.begun,
         \A e \in Days : e # d => ~Deleting(e) /\ ~Deleting(e)',
         Sound(d) => Listed(d)' = Listed(d)
  PROVE  UNCHANGED Cat!vars
<1>1. OthersSame(d)
  BY AppOthers, Zenon
<1>2. Same(d)
  <2>1. Sound(d)' <=> Sound(d)
    BY Zenon DEF Sound
  <2> QED BY <2>1, SameWhen, Zenon DEF Writing
<1> QED BY <1>1, <1>2, CatStutters, Zenon DEF OthersSame

LEMMA HeadsGrown ==
  ASSUME RecIndexType, NEW d \in Days, idx'[d].list = idx[d].list,
         idx'[d].totol = idx[d].totol + 1
  PROVE  Heads(d)' = Heads(d) \cup {idx[d].list[idx[d].totol + 1]}
<1>1. PICK t, u : t = idx[d].totol /\ u = idx[d].totol + 1
  OBVIOUS
<1>2. t \in Nat /\ u = t + 1
  BY <1>1, HeadsAre
<1>3. \A j : j \in 1 .. u <=> j \in 1 .. t \/ j = u
  BY <1>2
<1>4. Heads(d)' = {idx[d].list[j] : j \in 1 .. u}
  BY <1>1, Zenon DEF Heads
<1> QED BY <1>1, <1>3, <1>4, Zenon DEF Heads

(* Each kind of step, beginning with those of a recorder.                    *)
LEMMA CatMakeIndex ==
  ASSUME IndexInv, ViewInv, ViewInv', NEW r \in Recorders, MakeIndex(r)
  PROVE  Cat!Next \/ UNCHANGED Cat!vars
<1> USE DEF IndexInv
<1>d. PICK d, so : d = rec[r].dir /\ so = (InUse(d) \/ idx[d].totol > 0)
  OBVIOUS
<1>1. /\ rec[r].at = "listed" /\ OnlyRecorder(r) /\ rec'[r].at = "ready"
      /\ d \in Days /\ OnlyIndex(d)
      /\ idx'[d] = IF d \in dirs THEN Index(<<>>) ELSE idx[d]
      /\ past'.begun = past.begun
      /\ past'.spoilt = past.spoilt \cup (IF so THEN {d} ELSE {})
      /\ UNCHANGED app
  BY <1>d, DoesMakeIndex, Zenon
<1>2. ~Writing(r) /\ ~Writing(r)'
  BY <1>1 DEF Writing
<1>3. \A e \in Days : e # d => (Sound(e)' <=> Sound(e))
  BY <1>1, Zenon DEF Sound
<1>4. OthersSame(d)
  BY <1>1, <1>2, <1>3, RecorderOthers, Zenon
<1>5. CASE so
  BY <1>1, <1>4, <1>5, CatLoses, Zenon
<1>6. CASE ~so
  <2>1. past'.spoilt = past.spoilt /\ ~InUse(d)
    BY <1>1, <1>6, <1>d, Zenon
  <2>2. ~Deleting(d) /\ ~Deleting(d)'
    BY <1>1, <2>1, Zenon DEF InUse, Deleting
  <2>3. Heads(d) = {}
    <3>0. ~ (idx[d].totol > 0) /\ idx[d].totol \in Nat
      BY <1>1, <1>6, <1>d, HeadsAre, Zenon
    <3>1. idx[d].totol = 0
      BY <3>0
    <3> QED BY <3>1, Nothing, Zenon DEF Heads
  <2>4. Heads(d)' = {}
    <3>1. CASE d \in dirs
      <4>0. <<>> \in Seq(Nat) /\ Len(<<>>) = 0 /\ 1 .. 0 = {}
        OBVIOUS
      <4>1. <<>> \in Seq(Nat) /\ Entries(<<>>) = {}
        BY <4>0, Zenon DEF Entries
      <4> QED BY <1>1, <3>1, <4>1, HeadsOfNew, Zenon
    <3>2. CASE d \notin dirs
      BY <1>1, <2>3, <3>2, Zenon DEF Heads
    <3> QED BY <3>1, <3>2
  <2>5. Listed(d)' = Listed(d)
    BY <2>2, <2>3, <2>4, Zenon DEF Listed
  <2>6. Sound(d)' <=> Sound(d)
    BY <2>1, Zenon DEF Sound
  <2>7. Same(d)
    BY <1>1, <1>2, <2>5, <2>6, IdleSame, SameWhen, Zenon
  <2> QED BY <1>1, <1>4, <2>1, <2>7, CatStutters, Zenon DEF OthersSame
<1> QED BY <1>5, <1>6

LEMMA CatOpenRecording ==
  ASSUME IndexInv, ViewInv, ViewInv', NEW r \in Recorders, OpenRecording(r)
  PROVE  Cat!Next \/ UNCHANGED Cat!vars
<1> USE DEF IndexInv
<1>d. PICK d, f : d = rec[r].dir /\ f = past.begun + 1
  OBVIOUS
<1>1. /\ rec[r].at = "ready" /\ OnlyRecorder(r)
      /\ rec'[r].at = "open" /\ rec'[r].dir = d /\ rec'[r].name = f
      /\ d \in Days /\ f \in Files
      /\ past'.begun = f /\ past'.spoilt = past.spoilt
      /\ UNCHANGED <<idx, app>>
  BY <1>d, DoesOpenRecording, Zenon
<1>2. ~Writing(r) /\ Writing(r)'
  BY <1>1 DEF Writing
<1>3. \A e : Sound(e)' <=> Sound(e)
  BY <1>1, Zenon DEF Sound
<1>4. OthersSame(d)
  BY <1>1, <1>2, <1>3, RecorderOthers, Zenon DEF OnlyIndex
<1>5. CASE Sound(d)
  <2>1. Sound(d)'
    BY <1>3, <1>5, Zenon
  <2>2. ASSUME NEW g PROVE g \in UnderWay(d)' <=> g \in UnderWay(d) \/ g = f
    <3>1. /\ g \in UnderWay(d)' <=> \E q \in Recorders : Writing(q)' /\ rec'[q].dir = d
                                                        /\ rec'[q].name = g
          /\ g \in UnderWay(d) <=> \E q \in Recorders : Writing(q) /\ rec[q].dir = d
                                                       /\ rec[q].name = g
      BY <1>1, <1>5, <2>1, Zenon DEF ViewInv
    <3>2. \A q \in Recorders : q # r => rec'[q] = rec[q] /\ (Writing(q)' <=> Writing(q))
      BY <1>1, Zenon DEF OnlyRecorder, Writing
    <3> HIDE DEF UnderWay
    <3> QED BY <1>1, <1>2, <3>1, <3>2, Zenon
  <2>3. UnderWay(d)' = UnderWay(d) \cup {f}
    <3> HIDE DEF UnderWay
    <3> QED BY <2>2, Zenon
  <2>4. InList(d)' = InList(d)
    <3>1. Listed(d)' = Listed(d)
      <4>1. Deleting(d)' <=> Deleting(d)
        BY <1>1, Zenon DEF Deleting
      <4> QED BY <1>1, <4>1, ListedStays, Zenon
    <3> QED BY <1>1, <1>5, <2>1, <3>1, Zenon DEF ViewInv
  <2>5. Cat!Becomes(d, UnderWay(d) \cup {f}, InList(d))
    BY <1>1, <1>4, <2>3, <2>4, CatBecomes, Zenon
  <2>6. Cat!Begin(d)
    BY <1>1, <1>5, <1>d, <2>5, Zenon DEF Cat!Begin, Sound
  <2> QED BY <1>1, <2>6, Zenon DEF Cat!Next
<1>6. CASE ~Sound(d)
  <2>1. ~Sound(d)'
    BY <1>3, <1>6, Zenon
  <2>2. \A e \in Days : Same(e)
    BY <1>1, <1>4, <1>6, <2>1, SpoiltSame, Zenon DEF OthersSame
  <2>3. Cat!Begin(d)
    BY <1>1, <1>6, <1>d, <2>2, Zenon DEF Cat!Begin, Sound, Same
  <2> QED BY <1>1, <2>3, Zenon DEF Cat!Next
<1> QED BY <1>5, <1>6

(* The number of a recording under way.                                      *)
LEMMA NameIs ==
  ASSUME IndexInv, NEW r \in Recorders, Writing(r)
  PROVE  rec[r].name \in Files
<1>1. rec[r].name \in 1 .. past.begun
  BY Zenon DEF IndexInv, OwnInv
<1>2. past.begun \in 0 .. MaxFiles
  BY TypeParts, PastParts, Zenon DEF IndexInv
<1> QED BY <1>1, <1>2, RecIndexAssumption DEF Files

LEMMA CatDropRecording ==
  ASSUME IndexInv, ViewInv, ViewInv', NEW r \in Recorders, DropRecording(r)
  PROVE  Cat!Next \/ UNCHANGED Cat!vars
<1> USE DEF IndexInv
<1>d. PICK d, f : d = rec[r].dir /\ f = rec[r].name
  OBVIOUS
<1>1. /\ rec[r].at = "open" /\ OnlyRecorder(r) /\ rec'[r] = IdleRec
      /\ d \in Days /\ UNCHANGED <<idx, app, past>>
  BY <1>d, DoesDropRecording, Zenon
<1>2. Writing(r) /\ ~Writing(r)'
  BY <1>1, IdleWrites DEF Writing
<1>3. f \in Files
  BY <1>2, <1>d, NameIs, Zenon
<1>4. OthersSame(d)
  BY <1>1, <1>2, <1>d, RecorderOthers, Zenon DEF OnlyIndex, Sound
<1>5. Listed(d)' = Listed(d)
  <2>1. Deleting(d)' <=> Deleting(d)
    BY <1>1, Zenon DEF Deleting
  <2> QED BY <1>1, <2>1, ListedStays, Zenon
<1> QED BY <1>1, <1>2, <1>3, <1>4, <1>5, <1>d, CatEnds, Zenon

LEMMA CatStartIndex ==
  ASSUME IndexInv, ViewInv, ViewInv', NEW r \in Recorders, StartIndex(r)
  PROVE  Cat!Next \/ UNCHANGED Cat!vars
<1> USE DEF IndexInv
<1>d. PICK d, f : d = rec[r].dir /\ f = rec[r].name
  OBVIOUS
<1>1. /\ rec[r].at = "open" /\ OnlyRecorder(r) /\ rec'[r] = IdleRec
      /\ d \in Days /\ f \in Files /\ idxlock = "free" /\ idx[d].state # "good"
      /\ OnlyIndex(d) /\ idx'[d] = IF d \in dirs THEN Index(<<f>>) ELSE idx[d]
      /\ past'.begun = past.begun /\ past'.spoilt = past.spoilt
      /\ UNCHANGED app
  BY <1>d, DoesStartIndex, Zenon
<1>2. Writing(r) /\ ~Writing(r)'
  BY <1>1, IdleWrites DEF Writing
<1>3. OthersSame(d)
  BY <1>1, <1>2, <1>d, RecorderOthers, Zenon DEF Sound
<1>4. ~Deleting(d) /\ ~Deleting(d)'
  <2>1. idxlock # "app"
    BY <1>1
  <2>2. app.at = "idle"
    BY <2>1, Zenon DEF LockInv
  <2> QED BY <1>1, <2>2, Zenon DEF Deleting
<1>5. ASSUME Sound(d) PROVE Listed(d)' = Listed(d) \cup {f}
  <2>1. d \in dirs
    BY <1>2, <1>5, <1>d, RecordingRightNow, Zenon DEF RecordingRight, RecordingFits
  <2>2. Heads(d) = {}
    <3>1. idx[d].state # "cut"
      BY <1>1, <1>4, <1>5, Zenon DEF DaysInv, DayRight
    <3>2. idx[d] \in IndexRecord
      BY <1>1, TypeParts, Zenon DEF IndexType
    <3>3. idx[d].state = "none"
      BY <1>1, <3>1, <3>2 DEF IndexRecord
    <3>4. idx[d].totol = 0
      BY <1>1, <3>3, Nothing, Zenon DEF FormInv
    <3> QED BY <3>4, Nothing, Zenon DEF Heads
  <2>3. Heads(d)' = {f}
    <3>1. f \in Nat
      BY <1>1, RecIndexAssumption DEF Files
    <3>2. <<f>> \in Seq(Nat)
      BY <3>1
    <3>3. Entries(<<f>>) = {f} /\ idx'[d] = Index(<<f>>)
      BY <1>1, <2>1, Singleton, Zenon
    <3> QED BY <1>1, <3>2, <3>3, HeadsOfNew, Zenon
  <2> QED BY <1>4, <2>2, <2>3, Zenon DEF Listed
<1> QED BY <1>1, <1>2, <1>3, <1>5, <1>d, CatEnds, Zenon

LEMMA CatWriteEntry ==
  ASSUME IndexInv, ViewInv, ViewInv', NEW r \in Recorders, WriteEntry(r)
  PROVE  Cat!Next \/ UNCHANGED Cat!vars
<1> USE DEF IndexInv
<1>d. PICK d, i : d = rec[r].dir /\ i = idx[d].totol + 1
  OBVIOUS
<1>1. /\ rec[r].at = "open" /\ OnlyRecorder(r)
      /\ rec'[r].at = "entry" /\ rec'[r].dir = d /\ rec'[r].name = rec[r].name
      /\ d \in Days /\ idxlock = "free" /\ OnlyIndex(d)
      /\ idx'[d].totol = idx[d].totol
      /\ \A j \in 1 .. Len(idx[d].list) : j # i => idx'[d].list[j] = idx[d].list[j]
      /\ UNCHANGED <<app, past>>
  BY <1>d, DoesWriteEntry, Zenon
<1>2. Writing(r) /\ Writing(r)'
  BY <1>1 DEF Writing
<1>3. OthersSame(d)
  BY <1>1, <1>2, <1>d, RecorderOthers, Zenon DEF Sound
<1>4. ~Deleting(d) /\ ~Deleting(d)'
  <2>1. idxlock # "app"
    BY <1>1
  <2>2. app.at = "idle"
    BY <2>1, Zenon DEF LockInv
  <2> QED BY <1>1, <2>2, Zenon DEF Deleting
<1>5. ASSUME Sound(d) PROVE Listed(d)' = Listed(d)
  <2>1. idx[d].totol <= Len(idx[d].list)
    BY <1>1, <1>5, Zenon DEF DaysInv, DayRight
  <2>2. \A j \in 1 .. idx[d].totol : j \in 1 .. Len(idx[d].list) /\ j # i
    BY <1>1, <1>d, <2>1, HeadsAre
  <2>3. Heads(d)' = Heads(d)
    BY <1>1, <2>2, HeadsStay, Zenon
  <2> QED BY <1>4, <2>3, Zenon DEF Listed
<1>6. Same(d)
  <2>1. \A q \in Recorders : Writing(q)' /\ rec'[q].dir = d <=> Writing(q) /\ rec[q].dir = d
    BY <1>1, <1>2, <1>d, Zenon DEF OnlyRecorder, Writing
  <2>2. \A q \in Recorders : rec'[q].name = rec[q].name
    BY <1>1, Zenon DEF OnlyRecorder
  <2>3. Sound(d)' <=> Sound(d)
    BY <1>1, Zenon DEF Sound
  <2> QED BY <1>1, <1>5, <2>1, <2>2, <2>3, SameWhen, Zenon
<1> QED BY <1>1, <1>3, <1>6, CatStutters, Zenon DEF OthersSame

LEMMA CatWriteHead ==
  ASSUME IndexInv, ViewInv, ViewInv', NEW r \in Recorders, WriteHead(r)
  PROVE  Cat!Next \/ UNCHANGED Cat!vars
<1> USE DEF IndexInv
<1>d. PICK d, f : d = rec[r].dir /\ f = rec[r].name
  OBVIOUS
<1>1. /\ rec[r].at = "entry" /\ OnlyRecorder(r) /\ rec'[r] = IdleRec
      /\ d \in Days /\ f \in Files /\ idxlock = r
      /\ OnlyIndex(d) /\ idx'[d].list = idx[d].list
      /\ ~rec[r].gone => idx'[d].totol = idx[d].totol + 1
      /\ past'.begun = past.begun /\ past'.spoilt = past.spoilt
      /\ UNCHANGED app
  BY <1>d, DoesWriteHead, Zenon
<1>2. Writing(r) /\ ~Writing(r)'
  BY <1>1, IdleWrites DEF Writing
<1>3. OthersSame(d)
  BY <1>1, <1>2, <1>d, RecorderOthers, Zenon DEF Sound
<1>4. ~Deleting(d) /\ ~Deleting(d)'
  <2>1. idxlock # "app"
    BY <1>1, RecorderNames DEF Others
  <2>2. app.at = "idle"
    BY <2>1, Zenon DEF LockInv
  <2> QED BY <1>1, <2>2, Zenon DEF Deleting
<1>5. ASSUME Sound(d) PROVE Listed(d)' = Listed(d) \cup {f}
  <2>1. ~rec[r].gone /\ idx[d].list[idx[d].totol + 1] = f
    BY <1>1, <1>2, <1>5, <1>d, RecordingRightNow, Zenon DEF RecordingRight, EntryFits
  <2>2. Heads(d)' = Heads(d) \cup {f}
    BY <1>1, <2>1, HeadsGrown, Zenon
  <2> QED BY <1>4, <2>2, Zenon DEF Listed
<1> QED BY <1>1, <1>2, <1>3, <1>5, <1>d, CatEnds, Zenon

(* The steps of who deletes.                                                 *)
LEMMA OneDeletion ==
  ASSUME LockInv
  PROVE  /\ app.at # "idle" => app.dir \in Days
         /\ app.at = "idle" => \A e : ~Deleting(e)
         /\ \A e : e # app.dir => ~Deleting(e)
         /\ idxlock # "app" => app.at = "idle"
BY Zenon DEF LockInv, Deleting

LEMMA CatImportIndex ==
  ASSUME IndexInv, ViewInv, ViewInv', NEW d \in Days, ImportIndex(d)
  PROVE  UNCHANGED Cat!vars
<1> USE DEF IndexInv
<1>1. /\ app.at = "idle" /\ app'.at = "has" /\ app'.dir = d
      /\ app'.list = Counted(d) /\ UNCHANGED <<idx, rec, past>>
  BY DoesImportIndex, Zenon
<1>2. \A e \in Days : e # d => ~Deleting(e) /\ ~Deleting(e)'
  BY <1>1, Zenon DEF Deleting
<1>3. ASSUME Sound(d) PROVE Listed(d)' = Listed(d)
  <2>1. ~Deleting(d) /\ Deleting(d)'
    <3>1. app'.at # "idle"
      BY <1>1
    <3> QED BY <1>1, <3>1, Zenon DEF Deleting
  <2>2. idx[d] \in IndexRecord /\ idx[d].totol <= Len(idx[d].list)
    BY <1>3, TypeParts, Zenon DEF IndexType, DaysInv, DayRight
  <2>3. Entries(Counted(d)) = Heads(d)
    BY <2>2, CountedHeads, Zenon
  <2>4. Listed(d)' = Entries(app.list)'
    BY <2>1, Zenon DEF Listed
  <2>5. Entries(app.list)' = Entries(Counted(d))
    BY <1>1, Zenon DEF Entries
  <2> QED BY <2>1, <2>3, <2>4, <2>5, Zenon DEF Listed
<1> QED BY <1>1, <1>2, <1>3, AppQuiet, Zenon DEF OnlyIndex

LEMMA CatDropEntry ==
  ASSUME IndexInv, ViewInv, ViewInv', NEW f \in Files, DropEntry(f)
  PROVE  Cat!Next \/ UNCHANGED Cat!vars
<1> USE DEF IndexInv
<1>d. PICK d, s, t : d = app.dir /\ s = app.list /\ t = RemoveFirst(s, f)
  OBVIOUS
<1>1. /\ app.at = "has" /\ Contains(s, f) /\ s \in Seq(Nat)
      /\ app'.at = "has" /\ app'.dir = d /\ app'.list = t
      /\ past'.begun = past.begun /\ past'.spoilt = past.spoilt
      /\ UNCHANGED <<idx, rec>>
  BY <1>d, DoesDropEntry, Zenon
<1>2. app.at # "idle" /\ app'.at # "idle"
  BY <1>1
<1>3. d \in Days /\ Deleting(d) /\ Deleting(d)'
  BY <1>1, <1>2, <1>d, OneDeletion, Zenon DEF Deleting
<1>4. \A e \in Days : e # d => ~Deleting(e) /\ ~Deleting(e)'
  BY <1>1, <1>d, Zenon DEF Deleting
<1>5. OthersSame(d)
  BY <1>1, <1>3, <1>4, AppOthers, Zenon DEF OnlyIndex
<1>6. CASE Sound(d)
  <2>1. Sound(d)'
    BY <1>1, <1>6, Zenon DEF Sound
  <2>2. Distinct(s)
    BY <1>3, <1>6, <1>d, Zenon DEF DaysInv, DayRight
  <2>3. /\ Entries(t) \subseteq Entries(s) /\ Entries(s) \ {f} \subseteq Entries(t)
        /\ f \notin Entries(t)
    BY <1>1, <1>d, <2>2, RemoveFirstEntries, Zenon
  <2>4. f \in Entries(s)
    BY <1>1, Zenon DEF Contains, Entries
  <2>5. Listed(d) = Entries(s) /\ Listed(d)' = Entries(t)
    <3>1. Listed(d) = Entries(app.list) /\ Listed(d)' = Entries(app.list)'
      BY <1>3, Zenon DEF Listed
    <3>2. Entries(app.list)' = Entries(t)
      BY <1>1, Zenon DEF Entries
    <3> QED BY <1>d, <3>1, <3>2, Zenon
  <2>6. f \in InList(d) /\ InList(d)' = InList(d) \ {f}
    <3>1. InList(d) = Entries(s) /\ InList(d)' = Entries(t)
      BY <1>3, <1>6, <2>1, <2>5, Zenon DEF ViewInv
    <3>2. Entries(t) = Entries(s) \ {f}
      BY <2>3, Zenon
    <3> QED BY <2>4, <3>1, <3>2, Zenon
  <2>7. UnderWay(d)' = UnderWay(d)
    <3>1. \A g : g \in UnderWay(d)' <=> g \in UnderWay(d)
      <4> SUFFICES ASSUME NEW g PROVE g \in UnderWay(d)' <=> g \in UnderWay(d)
        OBVIOUS
      <4>1. /\ g \in UnderWay(d)' <=> \E q \in Recorders : Writing(q)' /\ rec'[q].dir = d
                                                          /\ rec'[q].name = g
            /\ g \in UnderWay(d) <=> \E q \in Recorders : Writing(q) /\ rec[q].dir = d
                                                         /\ rec[q].name = g
        BY <1>3, <1>6, <2>1, Zenon DEF ViewInv
      <4> HIDE DEF UnderWay
      <4> QED BY <1>1, <4>1, Zenon DEF Writing
    <3> HIDE DEF UnderWay
    <3> QED BY <3>1, Zenon
  <2>8. Cat!Delete(d, f)
    BY <1>1, <1>3, <1>5, <2>6, <2>7, CatBecomes, Zenon DEF Cat!Delete
  <2> QED BY <1>3, <2>8, Zenon DEF Cat!Next
<1>7. CASE ~Sound(d)
  <2>1. ~Sound(d)'
    BY <1>1, <1>7, Zenon DEF Sound
  <2>2. \A e \in Days : Same(e)
    BY <1>3, <1>5, <1>7, <2>1, SpoiltSame, Zenon DEF OthersSame
  <2> QED BY <1>1, <2>2, CatStutters, Zenon
<1> QED BY <1>6, <1>7

LEMMA CatReleaseEmpty ==
  ASSUME IndexInv, ViewInv, ViewInv', ReleaseEmpty
  PROVE  Cat!Next \/ UNCHANGED Cat!vars
<1> USE DEF IndexInv
<1>d. PICK d, so : d = app.dir /\ so = (d \in dirs /\ Recording(d))
  OBVIOUS
<1>0. so \in BOOLEAN
  BY <1>d
<1>1. /\ d \in Days /\ app.at = "has" /\ DirRemoved(d) /\ app' = IdleApp
      /\ past'.spoilt = past.spoilt \cup (IF so THEN {d} ELSE {})
  BY <1>d, DoesReleaseEmpty, Zenon
<1>2. app.at # "idle"
  BY <1>1
<1>3. Deleting(d) /\ \A e : ~Deleting(e)'
  BY <1>1, <1>2, <1>d, Nothing, Zenon DEF Deleting
<1>4. \A e \in Days : e # d => ~Deleting(e)
  BY <1>d, Zenon DEF Deleting
<1>5. ASSUME Sound(d), ~so, NEW r \in Recorders, Writing(r) PROVE rec[r].dir # d
  <2>1. d \in dirs
    BY <1>1, <1>3, <1>5, Zenon DEF DaysInv, DayRight
  <2> QED BY <1>5, <1>d, <2>1, Zenon DEF Recording, Writing
<1> QED BY <1>0, <1>1, <1>3, <1>4, <1>5, CatRemoved, Zenon

LEMMA CatCutOff ==
  ASSUME IndexInv, ViewInv, ViewInv', CutOff
  PROVE  UNCHANGED Cat!vars
<1> USE DEF IndexInv
<1>d. PICK d : d = app.dir
  OBVIOUS
<1>1. /\ d \in Days /\ app.at = "has" /\ app'.at = "cut" /\ app'.dir = d
      /\ app'.list = app.list /\ OnlyIndex(d) /\ UNCHANGED <<rec, past>>
  BY <1>d, DoesCutOff, Zenon
<1>2. app.at # "idle" /\ app'.at # "idle"
  BY <1>1
<1>3. \A e \in Days : e # d => ~Deleting(e) /\ ~Deleting(e)'
  BY <1>1, <1>d, Zenon DEF Deleting
<1>4. Listed(d)' = Listed(d)
  BY <1>1, <1>2, <1>d, Zenon DEF Listed, Deleting, Entries
<1> QED BY <1>1, <1>3, <1>4, AppQuiet, Zenon

LEMMA CatWriteList ==
  ASSUME IndexInv, ViewInv, ViewInv', WriteList
  PROVE  UNCHANGED Cat!vars
<1> USE DEF IndexInv
<1>d. PICK d, s : d = app.dir /\ s = app.list
  OBVIOUS
<1>1. /\ d \in Days /\ app.at = "cut" /\ app' = IdleApp /\ OnlyIndex(d)
      /\ idx'[d] = IF app.gone \/ d \notin dirs THEN idx[d] ELSE Index(s)
      /\ UNCHANGED <<rec, past>>
  BY <1>d, DoesWriteList, Zenon
<1>2. app.at # "idle"
  BY <1>1
<1>3. Deleting(d) /\ \A e : ~Deleting(e)'
  BY <1>1, <1>2, <1>d, Nothing, Zenon DEF Deleting
<1>4. \A e \in Days : e # d => ~Deleting(e)
  BY <1>d, Zenon DEF Deleting
<1>5. ASSUME Sound(d) PROVE Listed(d)' = Listed(d)
  <2>1. idx'[d] = Index(s)
    BY <1>1, <1>3, <1>5, Zenon DEF DaysInv, DayRight
  <2>2. s \in Seq(Nat)
    <3>1. app \in AppRecord
      BY TypeParts, Zenon DEF AppType
    <3> QED BY <1>d, <3>1 DEF AppRecord
  <2>3. Heads(d)' = Entries(s)
    BY <1>1, <2>1, <2>2, HeadsOfNew, Zenon
  <2> QED BY <1>3, <1>d, <2>3, Zenon DEF Listed
<1> QED BY <1>1, <1>3, <1>4, <1>5, AppQuiet, Zenon

(* A directory goes that no delete request is changing the index of, or one  *)
(* that is in use and makes its day lost.                                    *)
LEMMA CatDayGoes ==
  ASSUME IndexInv, ViewInv, ViewInv', NEW d \in Days, DirRemoved(d), UNCHANGED app,
         past'.spoilt = past.spoilt \cup (IF d \in dirs /\ InUse(d) THEN {d} ELSE {})
  PROVE  Cat!Next \/ UNCHANGED Cat!vars
<1> USE DEF IndexInv
<1>d. PICK so : so = (d \in dirs /\ InUse(d))
  OBVIOUS
<1>0. so \in BOOLEAN /\ past'.spoilt = past.spoilt \cup (IF so THEN {d} ELSE {})
  BY <1>d, Zenon
<1>1. \A e \in Days : (Deleting(e)' <=> Deleting(e)) /\ app'.list = app.list
  BY Zenon DEF Deleting
<1>2. ASSUME Sound(d), ~so
      PROVE  ~Deleting(d)' /\ \A r \in Recorders : Writing(r) => rec[r].dir # d
  <2>1. ~Deleting(d)
    BY <1>2, <1>d, Zenon DEF InUse, DaysInv, DayRight
  <2>2. ASSUME NEW r \in Recorders, Writing(r), rec[r].dir = d PROVE FALSE
    <3>1. d \in dirs
      BY <1>2, <2>2, RecordingRightNow, Zenon DEF RecordingRight, RecordingFits
    <3> QED BY <1>2, <1>d, <2>2, <3>1, Zenon DEF InUse, Recording, Writing
  <2> QED BY <1>1, <2>1, <2>2, Zenon
<1> QED BY <1>0, <1>1, <1>2, CatRemoved, Zenon

LEMMA CatCarryOut ==
  ASSUME IndexInv, ViewInv, ViewInv', CarryOut
  PROVE  Cat!Next \/ UNCHANGED Cat!vars
<1> USE DEF IndexInv
<1>d. PICK d, f : d = Head(queue)[1] /\ f = Head(queue)[2]
  OBVIOUS
<1>1. /\ d \in Days /\ UNCHANGED app
      /\ f = 0 => /\ DirRemoved(d)
                  /\ past'.spoilt = past.spoilt \cup
                       (IF d \in dirs /\ InUse(d) THEN {d} ELSE {})
      /\ f # 0 => UNCHANGED <<idx, rec, past>>
  BY <1>d, DoesCarryOut, Zenon
<1>2. CASE f = 0
  BY <1>1, <1>2, CatDayGoes, Zenon
<1>3. CASE f # 0
  BY <1>1, <1>3, CatQuiet, Zenon DEF Writing
<1> QED BY <1>2, <1>3

LEMMA CatCleanEnds ==
  ASSUME IndexInv, ViewInv, ViewInv', CleanEnds
  PROVE  Cat!Next \/ UNCHANGED Cat!vars
<1> USE DEF IndexInv
<1>d. PICK d : d = Head(dates)
  OBVIOUS
<1>1. /\ d \in Days /\ DirRemoved(d) /\ UNCHANGED app
      /\ past'.spoilt = past.spoilt \cup (IF d \in dirs /\ InUse(d) THEN {d} ELSE {})
  BY <1>d, DoesCleanEnds, Zenon
<1> QED BY <1>1, CatDayGoes, Zenon

LEMMA CatRestart ==
  ASSUME IndexInv, IndexInv', LooseInv, ViewInv, ViewInv', Restart
  PROVE  Cat!ProgramRestarts
<1> USE DEF IndexInv
<1>d. PICK D : D = IF app.at # "idle" THEN {app.dir} ELSE {}
  OBVIOUS
<1>1. /\ \A d \in Days : idx'[d] = Found(d)
      /\ \A r \in Recorders : rec'[r] = IdleRec
      /\ app' = IdleApp /\ past'.begun = past.begun
      /\ past'.spoilt = past.spoilt \cup D /\ UNCHANGED files
  BY <1>d, DoesRestart, Zenon
<1>2. D \in {{}} \cup {{d} : d \in Days}
  <2>1. CASE app.at = "idle"
    BY <1>d, <2>1, Zenon
  <2>2. CASE app.at # "idle"
    BY <1>d, <2>2, OneDeletion, Zenon
  <2> QED BY <2>1, <2>2
<1>3. \A e : ~Deleting(e)'
  BY <1>1, Nothing, Zenon DEF Deleting
<1>4. ASSUME NEW d \in Days PROVE UnderWay(d)' = {}
  <2>1. \A r \in Recorders : ~Writing(r)'
    BY <1>1, IdleWrites DEF Writing
  <2>2. ASSUME NEW f PROVE f \notin UnderWay(d)'
    <3>1. CASE Sound(d)'
      <4>1. f \in UnderWay(d)' <=> \E r \in Recorders : Writing(r)' /\ rec'[r].dir = d
                                                       /\ rec'[r].name = f
        BY <3>1, Zenon DEF ViewInv
      <4> QED BY <2>1, <4>1, Zenon
    <3>2. CASE ~Sound(d)'
      BY <3>2, Zenon DEF ViewInv
    <3> QED BY <3>1, <3>2
  <2> HIDE DEF UnderWay
  <2> QED BY <2>2, Zenon
<1>5. ASSUME NEW d \in Days, Sound(d)'
      PROVE  InList(d)' = Heads(d)' /\ Heads(d)' \subseteq Files
  <2>1. InList(d)' = Heads(d)'
    BY <1>3, <1>5, Zenon DEF ViewInv, Listed
  <2>2. Heads(d)' \subseteq files'[d]
    BY <1>3, <1>5, Zenon DEF DaysInv, DayRight, Right
  <2>3. files'[d] \subseteq Files
    BY <1>1, TypeParts, Zenon DEF DiskType
  <2> QED BY <2>1, <2>2, <2>3, Zenon
<1>6. ASSUME NEW d \in Days
      PROVE  InList(d)' \in SUBSET Files /\ (~Sound(d)' => InList(d)' = {})
  <2>1. ~Sound(d)' => InList(d)' = {}
    BY Zenon DEF ViewInv
  <2>2. \A f : f \in InList(d)' => f \in Files
    <3> HIDE DEF InList
    <3> QED BY <1>5, <2>1, Zenon
  <2> HIDE DEF InList
  <2> QED BY <2>1, <2>2, Zenon
<1>7. ASSUME NEW d \in Days, Sound(d)'
      PROVE  InList(d) \subseteq InList(d)' /\ InList(d)' \subseteq InList(d) \cup UnderWay(d)
  <2>1. Sound(d) /\ ~Deleting(d)
    <3>1. d \notin past.spoilt /\ d \notin D
      BY <1>1, <1>7, Zenon DEF Sound
    <3> QED BY <1>d, <3>1, Zenon DEF Sound, Deleting
  <2>2. InList(d) = Heads(d) /\ InList(d)' = Heads(d)'
    BY <1>5, <1>7, <2>1, Zenon DEF ViewInv, Listed
  <2>3. CASE idx[d].state = "none" /\ files[d] # {}
    <3>1. Heads(d) = {}
      <4>1. idx[d].totol = 0
        BY <2>3, Nothing, Zenon DEF FormInv
      <4> QED BY <4>1, Nothing, Zenon DEF Heads
    <3>2. Heads(d)' = files[d]
      <4>1. /\ idx'[d].totol = Len(idx'[d].list) /\ Entries(idx'[d].list) = files[d]
        BY <1>1, <2>3, FoundIs, Zenon
      <4> QED BY <4>1, Zenon DEF Heads, Entries
    <3>3. files[d] \subseteq UnderWay(d)
      <4>1. Held(d)
        BY <2>1, <2>3, Zenon DEF LooseInv
      <4> QED BY <2>1, <4>1, Zenon DEF Held, ViewInv
    <3> QED BY <2>2, <3>1, <3>2, <3>3, Zenon
  <2>4. CASE ~ (idx[d].state = "none" /\ files[d] # {})
    <3>1. idx'[d] = idx[d]
      BY <1>1, <2>4, FoundIs, Zenon
    <3>2. Heads(d)' = Heads(d)
      BY <3>1, IndexStays, Zenon
    <3> QED BY <2>2, <3>2, Zenon
  <2> QED BY <2>3, <2>4
<1>8. \A d \in Days : d \in past'.spoilt <=> ~Sound(d)'
  BY Zenon DEF Sound
<1>m. PICK m, l, ll : /\ m = [d \in Days |-> UnderWay(d)] /\ l = [d \in Days |-> InList(d)]
                      /\ ll = [d \in Days |-> InList(d)]'
  OBVIOUS
<1> HIDE DEF UnderWay, InList
<1>9. \E E \in {{}} \cup {{d} : d \in Days} : past'.spoilt = past.spoilt \cup E
  BY <1>1, <1>2, Zenon
<1>10. [d \in Days |-> UnderWay(d)]' = [d \in Days |-> {}]
  BY <1>4, Zenon
<1>11. ll \in [Days -> SUBSET Files]
  BY <1>6, <1>m, Zenon
<1>12. \A d \in Days : ll[d] = InList(d)' /\ l[d] = InList(d) /\ m[d] = UnderWay(d)
  BY <1>m, Zenon
<1>13. \A d \in past'.spoilt : d \in Days
  <2>1. past.spoilt \subseteq Days
    BY TypeParts, PastParts, Zenon
  <2> QED BY <1>1, <1>2, <2>1, Zenon
<1>14. /\ \A d \in past'.spoilt : ll[d] = {}
       /\ \A d \in Days \ past'.spoilt : /\ l[d] \subseteq ll[d]
                                         /\ ll[d] \subseteq l[d] \cup m[d]
  <2>1. ASSUME NEW d \in past'.spoilt PROVE ll[d] = {}
    <3>1. d \in Days
      BY <1>13, <2>1, Zenon
    <3>2. ~Sound(d)'
      BY <1>8, <2>1, <3>1, Zenon
    <3>3. InList(d)' = {}
      BY <1>6, <3>1, <3>2, Zenon
    <3>4. ll[d] = InList(d)'
      BY <1>12, <3>1, Zenon
    <3> QED BY <3>3, <3>4, Zenon
  <2>2. ASSUME NEW d \in Days \ past'.spoilt
        PROVE  l[d] \subseteq ll[d] /\ ll[d] \subseteq l[d] \cup m[d]
    <3>1. d \in Days /\ d \notin past'.spoilt
      BY <2>2, Zenon
    <3>2. Sound(d)'
      BY <1>8, <3>1, Zenon
    <3>3. InList(d) \subseteq InList(d)' /\ InList(d)' \subseteq InList(d) \cup UnderWay(d)
      BY <1>7, <3>1, <3>2, Zenon
    <3>4. ll[d] = InList(d)' /\ l[d] = InList(d) /\ m[d] = UnderWay(d)
      BY <1>12, <3>1, Zenon
    <3> QED BY <3>3, <3>4, Zenon
  <2> QED BY <2>1, <2>2, Zenon
<1> QED BY <1>1, <1>9, <1>10, <1>11, <1>14, <1>m, Zenon DEF Cat!ProgramRestarts

LEMMA StepCat ==
  ASSUME IndexInv, IndexInv', LooseInv, ViewInv, ViewInv', RecIndexNext
  PROVE  Cat!Next \/ UNCHANGED Cat!vars
<1> USE DEF IndexInv
<1>1. ASSUME NEW r \in Recorders, NEW d \in Days, LookForDir(r, d)
      PROVE  UNCHANGED Cat!vars
  <2>1. /\ OnlyRecorder(r) /\ rec[r].at = "idle" /\ rec'[r].at \in {"ready", "absent"}
        /\ UNCHANGED <<idx, app, past>>
    BY <1>1, DoesLookForDir, Zenon
  <2>2. ~Writing(r) /\ ~Writing(r)'
    BY <2>1 DEF Writing
  <2> QED BY <2>1, <2>2, RecorderQuiet, Zenon
<1>2. ASSUME NEW r \in Recorders, MakeDir(r) PROVE UNCHANGED Cat!vars
  <2>1. /\ OnlyRecorder(r) /\ rec[r].at = "absent" /\ rec'[r].at = "made"
        /\ UNCHANGED <<idx, app, past>>
    BY <1>2, DoesMakeDir, Zenon
  <2>2. ~Writing(r) /\ ~Writing(r)'
    BY <2>1 DEF Writing
  <2> QED BY <2>1, <2>2, RecorderQuiet, Zenon
<1>3. ASSUME NEW r \in Recorders, ListDay(r) PROVE UNCHANGED Cat!vars
  <2>1. /\ OnlyRecorder(r) /\ rec[r].at = "made" /\ rec'[r].at = "listed"
        /\ UNCHANGED <<idx, app, past>>
    BY <1>3, DoesListDay, Zenon
  <2>2. ~Writing(r) /\ ~Writing(r)'
    BY <2>1 DEF Writing
  <2> QED BY <2>1, <2>2, RecorderQuiet, Zenon
<1>4. ASSUME NEW r \in Recorders, OpenFails(r) PROVE UNCHANGED Cat!vars
  <2>1. /\ OnlyRecorder(r) /\ rec[r].at = "ready" /\ rec'[r] = IdleRec
        /\ UNCHANGED <<idx, app, past>>
    BY <1>4, DoesOpenFails, Zenon
  <2>2. ~Writing(r) /\ ~Writing(r)'
    BY <2>1, IdleWrites DEF Writing
  <2> QED BY <2>1, <2>2, RecorderQuiet, Zenon
<1>5. ASSUME NEW r \in Recorders, Recorder(r) PROVE Cat!Next \/ UNCHANGED Cat!vars
  BY <1>1, <1>2, <1>3, <1>4, <1>5, CatMakeIndex, CatOpenRecording, CatDropRecording,
     CatStartIndex, CatWriteEntry, CatWriteHead, Zenon DEF Recorder
<1>6. ASSUME UNCHANGED <<idx, app, rec, past>> PROVE UNCHANGED Cat!vars
  BY <1>6, CatQuiet, Zenon DEF Writing
<1>7. ASSUME Deleter PROVE Cat!Next \/ UNCHANGED Cat!vars
  <2>1. ASSUME NEW d \in Days, DeleteDay(d) PROVE UNCHANGED Cat!vars
    BY <1>6, <2>1, DoesDeleteDay, Zenon
  <2>2. ASSUME CleanBegins PROVE UNCHANGED Cat!vars
    BY <1>6, <2>2, DoesCleanBegins, Zenon
  <2> QED BY <1>7, <2>1, <2>2, CatImportIndex, CatDropEntry, CatReleaseEmpty, CatCutOff,
             CatWriteList, CatCarryOut, CatCleanEnds, Zenon DEF Deleter
<1>8. ASSUME Restart PROVE Cat!Next
  BY <1>8, CatRestart, Zenon DEF Cat!Next
<1> QED BY <1>5, <1>7, <1>8, Zenon DEF RecIndexNext

(* The index files implement the catalogue, for any number of recorders,     *)
(* days, recordings and queued requests: each step of recorders, app,        *)
(* cleaner and restart changes one day's list by one recording, deletes or   *)
(* loses that day, or leaves the lists as they are.  A restart of the        *)
(* program makes an index only where none was, and there lists recordings    *)
(* that were under way.                                                      *)
THEOREM IndexIsCatalogue == RecIndexSpec => CatalogueSpec
<1>1. RecIndexInit => Cat!Init
  <2> SUFFICES ASSUME RecIndexInit PROVE Cat!Init
    OBVIOUS
  <2>1. past.begun = 0 /\ past.spoilt = {} /\ \A d \in Days : Sound(d)
    BY DEF RecIndexInit, Sound
  <2>2. \A r \in Recorders : ~Writing(r)
    <3>1. \A r \in Recorders : rec[r] = IdleRec
      BY Zenon DEF RecIndexInit
    <3> QED BY <3>1, IdleWrites DEF Writing
  <2>3. \A e : ~Deleting(e)
    BY Nothing, Zenon DEF RecIndexInit, Deleting
  <2>4. \A d \in Days : Heads(d) = {}
    <3>1. \A d \in Days : idx[d] = NoIndex
      BY Zenon DEF RecIndexInit
    <3>2. \A d \in Days : idx[d].totol = 0
      BY <3>1, Nothing, Zenon
    <3> QED BY <3>2, Nothing, Zenon DEF Heads
  <2>5. ViewInv
    BY StartRight, ViewHolds, Zenon
  <2>6. ASSUME NEW d \in Days PROVE UnderWay(d) = {} /\ InList(d) = {}
    <3>1. InList(d) = {}
      BY <2>1, <2>3, <2>4, <2>5, Zenon DEF ViewInv, Listed
    <3>2. \A f : f \notin UnderWay(d)
      BY <2>1, <2>2, <2>5, Zenon DEF ViewInv
    <3> HIDE DEF UnderWay
    <3> QED BY <3>1, <3>2, Zenon
  <2> HIDE DEF UnderWay, InList
  <2> QED BY <2>1, <2>6, Zenon DEF Cat!Init
<1>2. /\ IndexInv /\ IndexInv' /\ LooseInv /\ ViewInv /\ ViewInv'
      /\ [RecIndexNext]_recIndexVars
      => [Cat!Next]_(Cat!vars)
  <2> SUFFICES ASSUME IndexInv, IndexInv', LooseInv, ViewInv, ViewInv',
                      [RecIndexNext]_recIndexVars
               PROVE  Cat!Next \/ UNCHANGED Cat!vars
    OBVIOUS
  <2>1. CASE UNCHANGED recIndexVars
    <3>1. UNCHANGED <<idx, app, rec, past>>
      BY <2>1, Zenon DEF recIndexVars
    <3> QED BY <3>1, CatQuiet, Zenon DEF Writing
  <2> QED BY <2>1, StepCat, Zenon
<1> QED BY <1>1, <1>2, RecIndexInvariant, LooseHolds, ViewHolds, PTL
        DEF RecIndexSpec, CatalogueSpec, Cat!Spec
-----------------------------------------------------------------------------
(* The network disk. *)

SyncType ==
  sync \in [at : {"loop", "days", "files", "copy", "listed"},
            flag : BOOLEAN, time : BOOLEAN, days : 0 .. LastDay + 1,
            day : 0 .. LastDay + 1, total : 0 .. MaxOfDay, n : 0 .. MaxOfDay]

CopyType == copy \in [NasDays -> [Numbers -> {"no", "yes", "missed"}]]

CardType ==
  marked \subseteq NasDays /\ listed \in [NasDays -> 0 .. MaxOfDay] /\ today \in NasDays

SwitchType ==
  /\ ctrl \in BOOLEAN /\ nas_change \in BOOLEAN /\ net_check \in BOOLEAN
  /\ sync_flag \in BOOLEAN

(* The disk is mounted at most once, and at most that when the manager has  *)
(* forgotten it: so what mountflag says is unmounted is not mounted.        *)
MountInv ==
  /\ manager \in {"turn", "off", "change", "check", "mount"}
  /\ mountflag \in BOOLEAN /\ mounts \in 0 .. 1 /\ ~erased /\ erased \in BOOLEAN
  /\ mountflag => mounts = 1
  /\ manager \in {"off", "change"} => mountflag
  /\ manager = "mount" => ~mountflag

(* Within a day's list, every recording behind filenum has been dealt with. *)
InDay == sync.at \in {"files", "copy", "listed"}

LoopInv ==
  InDay => /\ sync.day \in NasDays /\ sync.n <= sync.total
           /\ sync.at = "copy" => sync.n >= 1
           /\ \A f \in 1 .. sync.n :
                (sync.at = "copy" /\ f = sync.n) \/ copy[sync.day][f] # "no"

NasInv == SyncType /\ CopyType /\ CardType /\ SwitchType /\ MountInv /\ LoopInv

LEMMA NasInvTypes == NasInv => NasType /\ NasNotErased
<1> SUFFICES ASSUME NasInv PROVE NasType /\ NasNotErased
  OBVIOUS
<1>1. mounts \in 0 .. 2
  BY DEF NasInv, MountInv
<1>2. erased \in BOOLEAN /\ ~erased
  BY Zenon DEF NasInv, MountInv
<1> QED BY <1>1, <1>2, Zenon DEF NasInv, NasType, NasNotErased, SyncType, CopyType,
                            CardType, SwitchType, MountInv
-----------------------------------------------------------------------------
LEMMA NasInitInv == NasInit => NasInv
<1> SUFFICES ASSUME NasInit PROVE NasInv
  OBVIOUS
<1> USE NasAssumption DEF NasInit
<1>1. SyncType /\ LoopInv
  BY DEF SyncType, LoopInv, InDay, NoSync
<1>2. CopyType /\ CardType
  BY DEF CopyType, CardType, NasDays, Numbers
<1>3. SwitchType
  BY Zenon DEF SwitchType
<1>4. mounts \in 0 .. 1
  OBVIOUS
<1>5. MountInv
  BY <1>4, Zenon DEF MountInv
<1> QED BY <1>1, <1>2, <1>3, <1>5 DEF NasInv

(* The manager, and what the rest of the world does to the switches.        *)
LEMMA MountKept ==
  ASSUME SwitchType, MountInv,
         \/ NasManager \/ Reboots \/ \E on \in BOOLEAN : SetNas(on)
         \/ NasStop \/ NetMoves
  PROVE  SwitchType' /\ MountInv'
<1> USE DEF SwitchType, MountInv, mounting, settings
<1>0. ASSUME mountflag, Unmount
      PROVE  mounts' \in 0 .. 1 /\ ~erased' /\ erased' \in BOOLEAN /\ ~mountflag'
  <2>1. mounts = 1
    BY <1>0, Zenon
  <2>2. mounts' = 0
    BY <1>0, <2>1, SMT DEF Unmount, Fewer
  <2>3. mounts' \in 0 .. 1 /\ ~(mounts' > 0)
    BY <2>2, SMT
  <2> QED BY <1>0, <2>3, Zenon DEF Unmount
<1>1. ASSUME NEW on \in BOOLEAN, SetNas(on) PROVE SwitchType' /\ MountInv'
  BY <1>1, Zenon DEF SetNas
<1>2. CASE NasStop
  BY <1>2, Zenon DEF NasStop
<1>3. CASE NetMoves
  BY <1>3, Zenon DEF NetMoves
<1>4. CASE Reboots
  <2>1. mounts' \in 0 .. 1
    BY <1>4, SMT DEF Reboots
  <2> QED BY <1>4, <2>1, Zenon DEF Reboots
<1>5. CASE ManagerOff
  <2>1. CASE mountflag
    BY <1>5, <2>1, Zenon DEF ManagerOff
  <2>2. CASE ~mountflag
    BY <1>5, <2>2, Zenon DEF ManagerOff
  <2> QED BY <2>1, <2>2
<1>6. CASE ManagerOn
  <2>1. manager' = "change" => mountflag
    BY <1>6, Zenon DEF ManagerOn
  <2>2. manager' \in {"change", "check"}
    BY <1>6, Zenon DEF ManagerOn
  <2>3. manager' # "off" /\ manager' # "mount"
    BY <2>2
  <2> QED BY <1>6, <2>1, <2>2, <2>3, Zenon DEF ManagerOn
<1>7. CASE ManagerUnmounts
  <2>1. Unmount /\ mountflag
    BY <1>7, Zenon DEF ManagerUnmounts
  <2>2. manager' \in {"turn", "check"}
    BY <1>7 DEF ManagerUnmounts
  <2>3. manager' \in {"turn", "off", "change", "check", "mount"}
        /\ manager' \notin {"off", "change"} /\ manager' # "mount"
    BY <2>2
  <2>4. mounts' \in 0 .. 1 /\ ~erased' /\ erased' \in BOOLEAN /\ ~mountflag'
    BY <1>0, <2>1
  <2>5. ~mountflag' /\ mountflag' \in BOOLEAN /\ UNCHANGED settings /\ UNCHANGED sync_flag
    BY <1>7, Zenon DEF ManagerUnmounts, Unmount
  <2> QED BY <2>3, <2>4, <2>5, Zenon
<1>8. CASE ManagerRefuses
  <2>1. manager' = "turn" /\ UNCHANGED settings /\ sync_flag' = FALSE
    BY <1>8, Zenon DEF ManagerRefuses
  <2>2. CASE mountflag
    <3>1. Unmount
      BY <1>8, <2>2, Zenon DEF ManagerRefuses
    <3>2. mounts' \in 0 .. 1 /\ ~erased' /\ erased' \in BOOLEAN /\ ~mountflag'
      BY <1>0, <2>2, <3>1
    <3>3. mountflag' \in BOOLEAN
      BY <3>1, Zenon DEF Unmount
    <3> QED BY <2>1, <3>2, <3>3, Zenon
  <2>3. CASE ~mountflag
    BY <1>8, <2>1, <2>3, Zenon DEF ManagerRefuses
  <2> QED BY <2>2, <2>3
<1>9. CASE ManagerLooks
  BY <1>9, Zenon DEF ManagerLooks
<1>10. CASE ManagerChecked
  BY <1>10, Zenon DEF ManagerChecked
<1>11. ASSUME NEW how \in {"fails", "nowrite", "full", "good"}, Mount(how)
       PROVE  SwitchType' /\ MountInv'
  <2>1. Before(mounts) = 0
    BY SMT DEF Before, Fewer
  <2>2. mounts' \in 0 .. 1 /\ (how = "good" => mounts' = 1)
    BY <1>11, <2>1, SMT DEF Mount
  <2>3. mountflag' \in BOOLEAN /\ (mountflag' => how = "good")
        /\ sync_flag' \in BOOLEAN /\ manager' = "turn"
        /\ UNCHANGED settings /\ UNCHANGED erased
    BY <1>11, Zenon DEF Mount
  <2> QED BY <2>2, <2>3, Zenon
<1> QED BY <1>1, <1>2, <1>3, <1>4, <1>5, <1>6, <1>7, <1>8, <1>9, <1>10, <1>11
        DEF NasManager
-----------------------------------------------------------------------------
(* A step of the synchroniser within a day keeps the typed part and the     *)
(* loop's invariant; the manager does not touch what they speak of.         *)
SyncInv == SyncType /\ CopyType /\ CardType /\ LoopInv

(* What becomes of one recording leaves the others of the day as they are.  *)
LEMMA CopiedKept ==
  ASSUME SyncInv, sync.at = "copy", NEW as \in {"yes", "missed"}, Copied(as)
  PROVE  SyncType' /\ CopyType' /\ LoopInv'
<1> USE NasAssumption DEF SyncInv, SyncType, CopyType
<1>1. sync' = [sync EXCEPT !.at = "files"] /\ SyncType'
  BY DEF Copied
<1>2. sync.day \in NasDays /\ sync.n \in Numbers
  BY DEF LoopInv, InDay, Numbers
<1>3. CopyType'
  BY <1>2 DEF Copied
<1>4. copy'[sync.day][sync.n] # "no"
      /\ \A f \in Numbers : f # sync.n => copy'[sync.day][f] = copy[sync.day][f]
  BY <1>2 DEF Copied
<1>5. sync'.at = "files" /\ UNCHANGED <<sync.day, sync.n, sync.total>>
  BY <1>1
<1>6. sync.n <= sync.total /\ sync.total <= MaxOfDay
      /\ \A f \in 1 .. sync.n : f = sync.n \/ copy[sync.day][f] # "no"
  BY DEF LoopInv, InDay
<1>7. \A f \in 1 .. sync.n : copy'[sync.day][f] # "no"
  <2> TAKE f \in 1 .. sync.n
  <2>1. f \in Numbers
    BY <1>2, <1>6 DEF Numbers
  <2> QED BY <2>1, <1>4, <1>6
<1>8. LoopInv'
  BY <1>2, <1>5, <1>6, <1>7 DEF LoopInv, InDay
<1> QED BY <1>1, <1>3, <1>8

LEMMA SyncKept ==
  ASSUME SyncInv, NasSyncer \/ Recorded \/ DayPasses \/ Reboots
  PROVE  SyncInv'
<1> USE NasAssumption DEF SyncInv, SyncType, CopyType, CardType, disk, card
<1>1. ASSUME sync.at = "copy", Partly = copy \/ sync.at = "copy"
      PROVE  Partly \in [NasDays -> [Numbers -> {"no", "yes", "missed"}]]
  <2>1. sync.day \in NasDays /\ sync.n \in Numbers
    BY <1>1 DEF LoopInv, InDay, Numbers
  <2> QED BY <1>1, <2>1 DEF Partly
<1>2. ASSUME Reboots PROVE SyncInv'
  <2>1. copy' \in [NasDays -> [Numbers -> {"no", "yes", "missed"}]]
    <3>1. CASE sync.at = "copy"
      BY <1>1, <1>2, <3>1 DEF Reboots
    <3>2. CASE sync.at # "copy"
      BY <1>2, <3>2 DEF Reboots, Partly
    <3> QED BY <3>1, <3>2
  <2>2. sync' = NoSync /\ UNCHANGED <<marked, listed, today>>
    BY <1>2 DEF Reboots
  <2> QED BY <2>1, <2>2 DEF NoSync, LoopInv, InDay
<1>3. CASE Recorded
  BY <1>3 DEF Recorded, LoopInv, InDay, NasDays
<1>4. CASE DayPasses
  BY <1>4 DEF DayPasses, LoopInv, InDay, NasDays
<1>5. CASE SyncOff
  BY <1>5 DEF SyncOff, LoopInv, InDay
<1>6. CASE SyncWaited
  BY <1>6 DEF SyncWaited, LoopInv, InDay
<1>7. CASE SyncImports
  <2>0. sync' = [at |-> "loop", flag |-> TRUE, time |-> sync.time, days |-> today + 1,
                 day |-> sync.day, total |-> sync.total, n |-> sync.n]
    BY <1>7 DEF SyncImports
  <2>1. SyncType' /\ ~InDay'
    BY <2>0 DEF InDay, NasDays
  <2> QED BY <1>7, <2>1 DEF SyncImports, LoopInv
<1>8. CASE SyncBegins
  <2>0. sync' = [at |-> "days", flag |-> sync.flag, time |-> sync.time, days |-> sync.days,
                 day |-> 0, total |-> sync.total, n |-> sync.n]
    BY <1>8 DEF SyncBegins, NoSync
  <2>1. SyncType' /\ ~InDay'
    BY <2>0 DEF InDay, NasDays
  <2> QED BY <1>8, <2>1 DEF SyncBegins, LoopInv
<1>9. CASE SyncCrashes
  BY <1>2, <1>9 DEF SyncCrashes
<1>10. CASE SyncPassEnds
  <2>1. PICK t \in BOOLEAN : sync' = [NoSync EXCEPT !.time = t]
    BY <1>10, Zenon DEF SyncPassEnds
  <2>a. sync' = [at |-> "loop", flag |-> FALSE, time |-> t, days |-> 0, day |-> 0,
                 total |-> 0, n |-> 0]
    BY <2>1 DEF NoSync
  <2>2. SyncType' /\ ~InDay'
    BY <2>a DEF InDay
  <2> QED BY <1>10, <2>2 DEF SyncPassEnds, LoopInv
<1>11. CASE SyncSkipsDay
  BY <1>11 DEF SyncSkipsDay, LoopInv, InDay
<1>12. CASE SyncDay
  <2>1. sync.day \in NasDays /\ listed[sync.day] \in 0 .. MaxOfDay
    BY <1>12 DEF SyncDay, NasDays
  <2>2. sync' = [sync EXCEPT !.at = "files", !.total = listed[sync.day], !.n = 0]
        /\ UNCHANGED <<marked, listed, today>>
    BY <1>12 DEF SyncDay
  <2>3. CopyType'
    BY <1>12, <2>1 DEF SyncDay
  <2>a. sync' = [at |-> "files", flag |-> sync.flag, time |-> sync.time, days |-> sync.days,
                 day |-> sync.day, total |-> listed[sync.day], n |-> 0]
    BY <2>2
  <2>4. SyncType' /\ sync'.n = 0 /\ sync'.day = sync.day /\ sync'.at = "files"
        /\ sync'.total = listed[sync.day]
    BY <2>1, <2>a
  <2>5. LoopInv'
    BY <2>1, <2>4 DEF LoopInv
  <2> QED BY <2>2, <2>3, <2>4, <2>5
<1>13. CASE SyncFile
  <2> DEFINE f == sync.n + 1
  <2>1. sync.at = "files" /\ sync.day \in NasDays /\ f \in Numbers /\ f <= sync.total
        /\ UNCHANGED <<marked, listed, today>>
    BY <1>13 DEF SyncFile, LoopInv, InDay, Numbers
  <2>2. \A g \in 1 .. sync.n : copy[sync.day][g] # "no"
    BY <2>1 DEF LoopInv, InDay
  <2>3. ASSUME NEW at \in {"files", "copy"}, sync' = [sync EXCEPT !.n = f, !.at = at],
               CopyType',
               \A g \in Numbers : g # f => copy'[sync.day][g] = copy[sync.day][g],
               at = "copy" \/ copy'[sync.day][f] # "no"
        PROVE  SyncInv'
    <3>a. sync' = [at |-> at, flag |-> sync.flag, time |-> sync.time, days |-> sync.days,
                   day |-> sync.day, total |-> sync.total, n |-> f]
      BY <2>3
    <3>1. SyncType' /\ sync'.n = f /\ sync'.at = at
          /\ UNCHANGED <<sync.day, sync.total>>
      BY <2>1, <2>3, <3>a DEF Numbers
    <3>2. \A g \in 1 .. f : (at = "copy" /\ g = f) \/ copy'[sync.day][g] # "no"
      <4> TAKE g \in 1 .. f
      <4>1. g \in Numbers /\ (g = f \/ g \in 1 .. sync.n)
        BY <2>1 DEF Numbers
      <4> QED BY <2>2, <2>3, <4>1
    <3>3. LoopInv'
      BY <2>1, <3>1, <3>2 DEF LoopInv, Numbers
    <3> QED BY <2>1, <2>3, <3>1, <3>3
  <2>4. CASE copy[sync.day][f] = "yes" /\ sync' = [sync EXCEPT !.n = f] /\ UNCHANGED copy
    <3>1. sync' = [sync EXCEPT !.n = f, !.at = "files"] /\ CopyType'
      BY <2>1, <2>4
    <3> QED BY <2>3, <2>4, <3>1
  <2>5. CASE sync' = [sync EXCEPT !.n = f, !.at = "copy"] /\ UNCHANGED copy
    <3>1. CopyType'
      BY <2>5
    <3> QED BY <2>3, <2>5, <3>1
  <2>6. CASE /\ sync' = [sync EXCEPT !.n = f]
             /\ copy' = [copy EXCEPT ![sync.day][f] = "missed"]
    <3>1. sync' = [sync EXCEPT !.n = f, !.at = "files"]
      BY <2>1, <2>6
    <3>2. CopyType' /\ copy'[sync.day][f] # "no"
          /\ \A g \in Numbers : g # f => copy'[sync.day][g] = copy[sync.day][g]
      BY <2>1, <2>6
    <3> QED BY <2>3, <3>1, <3>2
  <2> QED BY <1>13, <2>4, <2>5, <2>6 DEF SyncFile
<1>14. CASE SyncCopies
  <2>1. PICK as \in {"yes", "missed"} : sync.at = "copy" /\ Copied(as)
                                        /\ UNCHANGED <<marked, listed, today>>
    BY <1>14 DEF SyncCopies
  <2> QED BY <2>1, CopiedKept
<1>15. CASE SyncCannot \/ SyncStops
  <2>1. PICK as \in {"yes", "missed"} : sync.at = "copy" /\ Copied(as)
                                        /\ UNCHANGED <<marked, listed, today>>
    BY <1>15 DEF SyncCannot, SyncStops
  <2> QED BY <2>1, CopiedKept
<1>16. CASE SyncListed
  BY <1>16 DEF SyncListed, LoopInv, InDay
<1>17. CASE SyncMarks
  <2>1. sync.day \in NasDays /\ sync.day + 1 \in 0 .. LastDay + 1
    BY <1>17 DEF SyncMarks, LoopInv, InDay, NasDays
  <2>a. sync' = [at |-> "days", flag |-> sync.flag, time |-> sync.time, days |-> sync.days,
                 day |-> sync.day + 1, total |-> 0, n |-> 0]
    BY <1>17 DEF SyncMarks
  <2>2. SyncType' /\ ~InDay'
    BY <2>1, <2>a DEF InDay
  <2>3. CardType' /\ CopyType'
    BY <1>17, <2>1 DEF SyncMarks
  <2> QED BY <2>2, <2>3 DEF LoopInv
<1> QED BY <1>2, <1>3, <1>4, <1>5, <1>6, <1>7, <1>8, <1>9, <1>10, <1>11, <1>12,
           <1>13, <1>14, <1>15, <1>16, <1>17 DEF NasSyncer
-----------------------------------------------------------------------------
LEMMA NasStep == ASSUME NasInv, [NasNext]_nasVars PROVE NasInv'
<1> USE DEF NasInv, SyncInv
<1>1. CASE NasManager \/ NasStop \/ NetMoves \/ \E on \in BOOLEAN : SetNas(on)
  <2>1. UNCHANGED <<sync, copy, marked, listed, today>>
    BY <1>1 DEF NasManager, ManagerOff, ManagerOn, ManagerUnmounts, ManagerRefuses,
         ManagerLooks, ManagerChecked, Mount, NasStop, NetMoves, SetNas, disk, card
  <2>2. SyncType' /\ CopyType' /\ CardType' /\ LoopInv'
    BY <2>1 DEF SyncType, CopyType, CardType, LoopInv, InDay
  <2> QED BY <1>1, <2>2, MountKept
<1>2. CASE Reboots \/ SyncCrashes
  BY <1>2, MountKept, SyncKept DEF SyncCrashes, NasSyncer
<1>3. CASE Recorded \/ DayPasses \/ (NasSyncer /\ ~SyncCrashes)
  <2>1. UNCHANGED <<ctrl, nas_change, net_check, sync_flag, manager, mountflag,
                    mounts, erased>>
    BY <1>3 DEF Recorded, DayPasses, NasSyncer, SyncOff, SyncWaited, SyncImports,
         SyncBegins, SyncPassEnds, SyncSkipsDay, SyncDay, SyncFile, SyncCopies,
         SyncCannot, SyncStops, SyncListed, SyncMarks, settings, mounting
  <2>2. SwitchType' /\ MountInv'
    BY <2>1, Zenon DEF SwitchType, MountInv
  <2> QED BY <1>3, <2>2, SyncKept
<1>4. CASE UNCHANGED nasVars
  <2>1. SyncType' /\ CopyType' /\ CardType' /\ LoopInv'
    BY <1>4 DEF nasVars, SyncType, CopyType, CardType, LoopInv, InDay
  <2>2. SwitchType' /\ MountInv'
    BY <1>4, Zenon DEF nasVars, SwitchType, MountInv
  <2> QED BY <2>1, <2>2
<1> QED BY <1>1, <1>2, <1>3, <1>4 DEF NasNext

LEMMA NasInvariant == NasSpec => []NasInv
<1>1. NasInit => NasInv
  BY NasInitInv
<1>2. NasInv /\ [NasNext]_nasVars => NasInv'
  BY NasStep
<1> QED BY <1>1, <1>2, PTL DEF NasSpec

(* Every variable of the two threads, the disk and the card keeps its type, *)
(* for any number of days and of recordings a day.                          *)
THEOREM NasTypeCorrect == NasSpec => []NasType
<1>1. NasInv => NasType
  BY NasInvTypes
<1> QED BY <1>1, NasInvariant, PTL

(* What was copied is never erased under a mounted disk: what the manager   *)
(* has forgotten is at most the one mount that its next umount takes away.  *)
THEOREM DiskKept == NasSpec => []NasNotErased
<1>1. NasInv => NasNotErased
  BY NasInvTypes
<1> QED BY <1>1, NasInvariant, PTL

(* A day is marked only when its list has been worked through to the end,   *)
(* recording by recording.                                                  *)
THEOREM MarkIsEarned == NasSpec => MarkedMeansTried
<1> DEFINE Tried == \A d \in marked' \ marked :
                      \A f \in 1 .. sync.total : copy[d][f] # "no"
<1>1. ASSUME NasInv, [NasNext]_nasVars PROVE [Tried]_nasVars
  <2>1. CASE SyncMarks
    <3>1. marked' \subseteq marked \cup {sync.day}
          /\ (marked' # marked => sync.n = sync.total) /\ sync.at = "listed"
      BY <2>1 DEF SyncMarks, Through
    <3>2. \A f \in 1 .. sync.n : copy[sync.day][f] # "no"
      BY <1>1, <3>1 DEF NasInv, LoopInv, InDay
    <3> QED BY <3>1, <3>2
  <2>2. CASE ~SyncMarks
    <3>1. UNCHANGED marked
      BY <1>1, <2>2 DEF NasNext, NasManager, ManagerOff, ManagerOn, ManagerUnmounts,
         ManagerRefuses, ManagerLooks, ManagerChecked, Mount, NasStop, NetMoves, SetNas,
         Recorded, DayPasses, Reboots, NasSyncer, SyncOff, SyncWaited, SyncImports,
         SyncBegins, SyncCrashes, SyncPassEnds, SyncSkipsDay, SyncDay, SyncFile,
         SyncCopies, SyncCannot, SyncStops, SyncListed, disk, card, nasVars
    <3> QED BY <3>1
  <2> QED BY <2>1, <2>2
<1>2. NasInv /\ [NasNext]_nasVars => [Tried]_nasVars
  BY <1>1
<1> QED BY <1>2, NasInvariant, PTL DEF NasSpec, MarkedMeansTried
=============================================================================
