---------------------------- MODULE ContentProofs ----------------------------
(***************************************************************************)
(* What a window is drawn from stays consistent, for any items, rectangles, *)
(* fonts and programs: recordings are whole however they were merged, the   *)
(* fonts they name are there unless they were deleted, lists show what      *)
(* their items ask, and what is loaded from the program files was saved     *)
(* whole.  The parts share no state, so that each has an inductive          *)
(* invariant of its own.                                                    *)
(***************************************************************************)
EXTENDS MCContent, SequenceTheorems, WellFoundedInduction, TLAPS

(* The least of a set of numbers.                                           *)
LEMMA MinIsLeast ==
  ASSUME NEW S, S \subseteq Nat, S # {}
  PROVE  Min(S) \in S /\ \A y \in S : Min(S) <= y
<1>1. PICK x \in S : \A y \in S : ~(<<y, x>> \in OpToRel(<, Nat))
  BY NatLessThanWellFounded, WFMin
<1>2. \A y \in S : x <= y
  <2> TAKE y \in S
  <2>1. ~(y < x)
    BY <1>1 DEF OpToRel
  <2> QED BY <2>1
<1> QED BY <1>2 DEF Min

(* The largest of a set of numbers that has a bound.                        *)
LEMMA MaxIsLargest ==
  ASSUME NEW bound \in Nat, NEW S, S \subseteq 0..bound, S # {}
  PROVE  Max(S) \in S /\ \A y \in S : Max(S) >= y
<1> DEFINE T == {bound - y : y \in S}
<1>1. T \subseteq Nat /\ T # {}
  OBVIOUS
<1>2. Min(T) \in T /\ \A z \in T : Min(T) <= z
  BY <1>1, MinIsLeast
<1>3. PICK x \in S : Min(T) = bound - x
  BY <1>2
<1>4. \A y \in S : bound - x <= bound - y
  BY <1>2, <1>3
<1>5. \A y \in S : x >= y
  BY <1>4
<1> QED BY <1>5 DEF Max

(* What holds of 0, and of n + 1 if it holds of n, holds of every number.   *)
LEMMA Induct ==
  ASSUME NEW S, 0 \in S, \A n \in Nat : n \in S => n + 1 \in S
  PROVE  Nat \subseteq S
<1> SUFFICES ASSUME Nat \ S # {} PROVE FALSE
  OBVIOUS
<1> DEFINE T == Nat \ S
<1>1. Min(T) \in T /\ \A y \in T : Min(T) <= y
  BY MinIsLeast
<1> DEFINE x == Min(T)
<1>2. x \in Nat /\ x # 0 /\ x \notin S
  BY <1>1
<1>3. \A y \in T : x <= y
  BY <1>1
<1> HIDE DEF x
<1>4. x - 1 \in Nat /\ x - 1 < x /\ (x - 1) + 1 = x
  BY <1>2
<1>5. x - 1 \in S
  BY <1>3, <1>4
<1> QED BY <1>2, <1>4, <1>5

-----------------------------------------------------------------------------
(* Recordings                                                               *)

Recorded(x) == Commands(x) \o Fonts(x)
Words == {<<"draw", x.paint>> : x \in Items} \cup {<<"end", x.paint>> : x \in Items}
           \cup {<<"font", x.font>> : x \in Items}
Ends == [end : Nat, extra_end : Nat, bounds : {x.bounds : x \in Items}]
Blobs == [data : Seq(Words), index : Seq(Ends)]

(* Entry i is the recording of x.                                           *)
Holds(blob, i, x) ==
  LET e == read_entry(blob, i)
  IN /\ e.begin \in Nat /\ e.end = e.begin + 2 /\ e.extra_end = e.begin + 3
     /\ e.begin + 3 <= Len(blob.data)
     /\ \A k \in 1..3 : blob.data[e.begin + k] = Recorded(x)[k]

(* The entries are those of the first n items of a list, and those of S     *)
(* have their data.                                                         *)
PartOf(blob, list, n, S) ==
  /\ blob \in Blobs /\ Len(blob.index) = n
  /\ Len(blob.data) = IF n = 0 THEN 0 ELSE blob.index[n].extra_end
  /\ \A i \in 1..n : /\ blob.index[i].bounds = list[i].bounds
                     /\ i \in S => Holds(blob, i, list[i])

Whole(blob, list) == PartOf(blob, list, Len(list), 1..Len(list))

(* The words of a sequence of l and of one of m that follows it.            *)
Joins(joined, a, b, U, l, m) ==
  /\ joined \in Seq(U) /\ Len(joined) = l + m
  /\ \A k \in 1..l : joined[k] = a[k]
  /\ \A k \in 1..m : joined[l + k] = b[k]

(* The library's ConcatProperties, for two sequences of known lengths.      *)
LEMMA Concatenated ==
  ASSUME NEW U, NEW a \in Seq(U), NEW b \in Seq(U), NEW l \in Nat, NEW m \in Nat,
         l = Len(a), m = Len(b)
  PROVE  Joins(a \o b, a, b, U, l, m)
<1> DEFINE joined == a \o b
<1>1. /\ joined \in Seq(U) /\ Len(joined) = Len(a) + Len(b)
      /\ \A i \in 1..Len(a) + Len(b) :
           joined[i] = IF i <= Len(a) THEN a[i] ELSE b[i - Len(a)]
  BY ConcatProperties
<1> HIDE DEF joined
<1>2. \A k \in 1..l : joined[k] = a[k]
  <2> TAKE k \in 1..l
  <2>1. k \in 1..Len(a) + Len(b) /\ k <= Len(a)
    OBVIOUS
  <2> QED BY <1>1, <2>1
<1>3. \A k \in 1..m : joined[l + k] = b[k]
  <2> TAKE k \in 1..m
  <2>1. l + k \in 1..Len(a) + Len(b) /\ ~(l + k <= Len(a)) /\ (l + k) - Len(a) = k
    OBVIOUS
  <2> QED BY <1>1, <2>1
<1> QED BY <1>1, <1>2, <1>3 DEF joined, Joins

(* An item is recorded in three words, of which one is its font.           *)
LEMMA RecordedIs ==
  ASSUME NEW x \in Items
  PROVE  /\ Recorded(x) \in Seq(Words) /\ Len(Recorded(x)) = 3
         /\ Commands(x) \in Seq(Words) /\ Len(Commands(x)) = 2
         /\ Fonts(x) \in Seq(Words) /\ Len(Fonts(x)) = 1
         /\ Recorded(x)[1] = Commands(x)[1] /\ Recorded(x)[2] = Commands(x)[2]
         /\ Recorded(x)[3] = Fonts(x)[1]
<1> DEFINE d == <<"draw", x.paint>>
           e == <<"end", x.paint>>
           f == <<"font", x.font>>
<1>1. d \in Words /\ e \in Words /\ f \in Words
  BY DEF Words
<1>2. Commands(x) = <<d, e>> /\ Fonts(x) = <<f>>
  BY DEF Commands, Fonts
<1> HIDE DEF d, e, f
<1>3. /\ Commands(x) \in Seq(Words) /\ Len(Commands(x)) = 2
      /\ Fonts(x) \in Seq(Words) /\ Len(Fonts(x)) = 1
  BY <1>1, <1>2
<1> DEFINE a == Commands(x)
           b == Fonts(x)
           two == 2
           one == 1
<1>4. two = Len(a) /\ one = Len(b) /\ two \in Nat /\ one \in Nat
  BY <1>3
<1> HIDE DEF a, b, two, one
<1>5. Joins(a \o b, a, b, Words, two, one)
  BY <1>3, <1>4, Concatenated DEF a, b
<1>6. /\ a \o b \in Seq(Words) /\ Len(a \o b) = 3
      /\ (a \o b)[1] = a[1] /\ (a \o b)[2] = a[2] /\ (a \o b)[3] = b[1]
  BY <1>5 DEF Joins, two, one
<1> QED BY <1>3, <1>6 DEF Recorded, a, b

(* A recording of n entries and l words is continued with an entry of a     *)
(* given end, extra end and bounds, and with m words of data.               *)
Continues(new, blob, n, l, size, m, data, end, bounds) ==
  /\ new \in Blobs /\ Len(new.index) = n + 1 /\ Len(new.data) = size
  /\ \A i \in 1..n : /\ new.index[i] = blob.index[i]
                     /\ read_entry(new, i) = read_entry(blob, i)
  /\ \A k \in 1..l : new.data[k] = blob.data[k]
  /\ \A k \in 1..m : new.data[l + k] = data[k]
  /\ new.index[n + 1].extra_end = size
  /\ new.index[n + 1].bounds = bounds
  /\ read_entry(new, n + 1) =
       [begin |-> l, end |-> end, extra_end |-> size, bounds |-> bounds]

Entered(blob, data, size, end, bounds) ==
  [data |-> blob.data \o data,
   index |-> Append(blob.index,
                    [end |-> end, extra_end |-> size, bounds |-> bounds])]

(* What new_entry returns, of a given size and end.                         *)
LEMMA NewEntryIs ==
  ASSUME NEW blob, NEW data, NEW extra, NEW bounds, NEW size, NEW end,
         Len(blob.data) + Len(data) = size, size - extra = end
  PROVE  new_entry(blob, extra, bounds, data)
           = Entered(blob, data, size, end, bounds)
BY DEF new_entry, Entered

(* A recording of n entries and l words, where the last entry ends, and m   *)
(* words of data.                                                           *)
Measured(blob, data, n, l, m) ==
  /\ n = Len(blob.index) /\ l = Len(blob.data) /\ m = Len(data)
  /\ l = IF n = 0 THEN 0 ELSE blob.index[n].extra_end

(* A new entry comes behind the others, which stay.                         *)
LEMMA NewEntry ==
  ASSUME NEW blob \in Blobs, NEW data \in Seq(Words), NEW size, NEW end,
         NEW bounds \in {x.bounds : x \in Items},
         NEW n \in Nat, NEW l \in Nat, NEW m \in Nat, NEW extra \in 0..m,
         Measured(blob, data, n, l, m), size = l + m, end = size - extra
  PROVE  Continues(new_entry(blob, extra, bounds, data), blob, n, l, size, m, data,
                   end, bounds)
<1> DEFINE entry == [end |-> end, extra_end |-> size, bounds |-> bounds]
           joined == blob.data \o data
           index == Append(blob.index, entry)
           new == new_entry(blob, extra, bounds, data)
<1>1. /\ blob.data \in Seq(Words) /\ blob.index \in Seq(Ends)
      /\ end \in Nat /\ size \in Nat
  <2>1. blob.data \in Seq(Words) /\ blob.index \in Seq(Ends)
    BY DEF Blobs
  <2>2. size \in Nat
    OBVIOUS
  <2>3. end \in Nat
    OBVIOUS
  <2> QED BY <2>1, <2>2, <2>3
<1>2. new = [data |-> joined, index |-> index]
  <2>1. Len(blob.data) + Len(data) = size
    BY DEF Measured
  <2>2. size - extra = end
    OBVIOUS
  <2>3. new_entry(blob, extra, bounds, data)
          = Entered(blob, data, size, end, bounds)
    BY <2>1, <2>2, NewEntryIs
  <2> QED BY <2>3, Zenon DEF Entered
<1> HIDE DEF joined, index, new
<1>3. new.data = joined /\ new.index = index
  BY <1>2
<1> USE DEF joined, index, new
<1>4. entry \in Ends
  BY <1>1 DEF Ends
<1>5. /\ entry.end = end /\ entry.extra_end = size
      /\ entry.bounds = bounds
  OBVIOUS
<1>6. /\ joined \in Seq(Words) /\ Len(joined) = size
      /\ \A k \in 1..l : joined[k] = blob.data[k]
      /\ \A k \in 1..m : joined[l + k] = data[k]
  <2> DEFINE old == blob.data
  <2>1. /\ old \in Seq(Words) /\ l = Len(old) /\ m = Len(data)
        /\ joined = old \o data
    BY <1>1 DEF Measured
  <2> HIDE DEF old, joined
  <2>2. Joins(old \o data, old, data, Words, l, m)
    BY <2>1, Concatenated
  <2>3. old = blob.data
    BY DEF old
  <2> QED BY <2>1, <2>2, <2>3 DEF Joins
<1> HIDE DEF entry, joined
<1>9. /\ index \in Seq(Ends) /\ Len(index) = n + 1 /\ index[n + 1] = entry
      /\ \A i \in 1..n : index[i] = blob.index[i]
  BY <1>1, <1>4 DEF Measured
<1> HIDE DEF index, new
<1>10. new \in Blobs
  BY <1>2, <1>6, <1>9 DEF Blobs
<1>11. \A i \in 1..n : read_entry(new, i) = read_entry(blob, i)
  <2> TAKE i \in 1..n
  <2>1. i # 1 => i - 1 \in 1..n
    OBVIOUS
  <2> QED BY <1>3, <1>9, <2>1 DEF read_entry
<1>12. read_entry(new, n + 1) =
         [begin |-> l, end |-> end, extra_end |-> size, bounds |-> bounds]
  <2>1. (IF n + 1 = 1 THEN 0 ELSE new.index[(n + 1) - 1].extra_end) = l
    <3>1. CASE n = 0
      BY <3>1 DEF Measured
    <3>2. CASE n # 0
      <4>1. (n + 1) - 1 = n /\ n \in 1..n /\ n + 1 # 1
        BY <3>2
      <4> QED BY <1>3, <1>9, <3>2, <4>1 DEF Measured
    <3> QED BY <3>1, <3>2
  <2>2. new.index[n + 1] = entry
    BY <1>3, <1>9
  <2> QED BY <1>5, <2>1, <2>2 DEF read_entry
<1>13. new.index[n + 1].extra_end = size /\ new.index[n + 1].bounds = bounds
  BY <1>3, <1>5, <1>9
<1>14. Len(new.index) = n + 1 /\ Len(new.data) = size
  BY <1>3, <1>6, <1>9
<1> QED BY <1>3, <1>6, <1>9, <1>10, <1>11, <1>12, <1>13, <1>14
        DEF new, Continues

(* It goes with the next item.                                              *)
LEMMA AddRecorded ==
  ASSUME NEW list \in Seq(Items), NEW n \in Nat, n < Len(list), NEW S, NEW T,
         NEW blob, PartOf(blob, list, n, S),
         NEW extra \in Nat, NEW data \in Seq(Words),
         \/ /\ extra = 1 /\ data = Recorded(list[n + 1])
            /\ T \subseteq S \cup {n + 1}
         \/ /\ extra = 0 /\ data = <<>>
            /\ T \subseteq S /\ n + 1 \notin T
  PROVE  PartOf(new_entry(blob, extra, list[n + 1].bounds, data), list, n + 1, T)
<1> DEFINE x == list[n + 1]
           new == new_entry(blob, extra, x.bounds, data)
           l == Len(blob.data)
           m == Len(data)
<1>1. x \in Items
  BY ElementOfSeq
<1>2. /\ blob \in Blobs /\ Len(blob.index) = n
      /\ l = IF n = 0 THEN 0 ELSE blob.index[n].extra_end
      /\ l \in Nat
      /\ \A i \in 1..n : /\ blob.index[i].bounds = list[i].bounds
                         /\ i \in S => Holds(blob, i, list[i])
  BY DEF PartOf, Blobs
<1>3. m \in Nat /\ extra \in 0..m /\ l \in Nat
  <2>0. l \in Nat
    BY DEF PartOf, Blobs
  <2>1. CASE data = Recorded(x) /\ extra = 1
    <3>1. m = 3
      BY <1>1, <2>1, RecordedIs
    <3> QED BY <2>1, <3>1
  <2>2. CASE data = <<>> /\ extra = 0
    <3>1. m = 0
      BY <2>2
    <3> QED BY <2>2, <3>1
  <2> QED BY <2>0, <2>1, <2>2
<1>4. n + 1 \in T => extra = 1 /\ m = 3 /\ data = Recorded(x)
  BY <1>1, RecordedIs
<1> DEFINE bounds == x.bounds
           size == l + m
           end == size - extra
<1>b. bounds \in {y.bounds : y \in Items}
  BY <1>1
<1>e. Measured(blob, data, n, l, m)
  BY <1>2 DEF Measured
<1>z. size = l + m /\ end = size - extra
  OBVIOUS
<1>n. new = new_entry(blob, extra, bounds, data)
  OBVIOUS
<1> HIDE DEF x, l, m, bounds, size, end, new
<1>5. Continues(new, blob, n, l, size, m, data, end, bounds)
  BY <1>2, <1>3, <1>b, <1>e, <1>z, <1>n, NewEntry
<1>6. ASSUME NEW i \in 1..n, i \in S PROVE Holds(new, i, list[i])
  <2> DEFINE e == read_entry(blob, i)
  <2>1. /\ e.begin \in Nat /\ e.end = e.begin + 2 /\ e.extra_end = e.begin + 3
        /\ e.begin + 3 <= l
        /\ \A k \in 1..3 : blob.data[e.begin + k] = Recorded(list[i])[k]
    BY <1>2, <1>6 DEF Holds, l
  <2>2. read_entry(new, i) = e
    BY <1>5 DEF Continues
  <2> DEFINE b == e.begin
  <2> HIDE DEF e
  <2>3. \A k \in 1..3 : b + k \in 1..l
    <3>1. b \in Nat /\ b + 3 <= l /\ l \in Nat
      BY <1>3, <2>1
    <3> HIDE DEF b
    <3> QED BY <3>1
  <2>4. Len(new.data) = l + m /\ \A k \in 1..l : new.data[k] = blob.data[k]
    BY <1>5, <1>z DEF Continues
  <2>5. b + 3 <= Len(new.data)
    <3>1. b \in Nat /\ b + 3 <= l /\ l \in Nat /\ m \in Nat /\ Len(new.data) = l + m
      BY <1>3, <2>1, <2>4
    <3> HIDE DEF b
    <3> QED BY <3>1
  <2>6. \A k \in 1..3 : new.data[e.begin + k] = Recorded(list[i])[k]
    BY <2>1, <2>3, <2>4
  <2> QED BY <2>1, <2>2, <2>5, <2>6 DEF Holds
<1>7. n + 1 \in T => Holds(new, n + 1, x)
  <2> SUFFICES ASSUME n + 1 \in T PROVE Holds(new, n + 1, x)
    OBVIOUS
  <2>1. extra = 1 /\ m = 3 /\ data = Recorded(x)
    BY <1>4
  <2>2. end = l + 2 /\ size = l + 3
    BY <1>3, <1>z, <2>1
  <2>3. /\ read_entry(new, n + 1).begin = l
        /\ read_entry(new, n + 1).end = l + 2
        /\ read_entry(new, n + 1).extra_end = l + 3
    BY <1>5, <2>2 DEF Continues
  <2>4. /\ Len(new.data) = l + 3
        /\ \A k \in 1..3 : new.data[l + k] = Recorded(x)[k]
    BY <1>5, <2>1, <2>2 DEF Continues
  <2> DEFINE e == read_entry(new, n + 1)
  <2>5. /\ l \in Nat /\ e.begin = l /\ e.end = l + 2 /\ e.extra_end = l + 3
        /\ l + 3 <= Len(new.data)
    BY <1>3, <2>3, <2>4
  <2> HIDE DEF e
  <2>6. /\ e.begin \in Nat /\ e.end = e.begin + 2 /\ e.extra_end = e.begin + 3
        /\ e.begin + 3 <= Len(new.data)
        /\ \A k \in 1..3 : new.data[e.begin + k] = Recorded(x)[k]
    BY <2>4, <2>5
  <2> QED BY <2>6 DEF Holds, e
<1>8. ASSUME NEW i \in 1..(n + 1)
      PROVE  /\ new.index[i].bounds = list[i].bounds
             /\ i \in T => Holds(new, i, list[i])
  <2>1. CASE i = n + 1
    BY <1>5, <1>7, <2>1 DEF Continues, x, bounds
  <2>2. CASE i # n + 1
    <3>1. i \in 1..n
      BY <2>2
    <3>2. i \in T => i \in S
      BY <2>2
    <3>3. new.index[i].bounds = list[i].bounds
      BY <1>2, <1>5, <3>1 DEF Continues
    <3> QED BY <1>6, <3>1, <3>2, <3>3
  <2> QED BY <2>1, <2>2
<1>9. /\ new \in Blobs /\ Len(new.index) = n + 1 /\ n + 1 # 0
      /\ Len(new.data) = new.index[n + 1].extra_end
  BY <1>5 DEF Continues
<1>10. PartOf(new, list, n + 1, T)
  BY <1>8, <1>9 DEF PartOf
<1> QED BY <1>10, <1>n DEF bounds, x

(* The recordings of the first n items of a list, as Partial computes them  *)
(* one after another.                                                       *)
IsRecorded(list, dirty, preserved, recorded, m) ==
  recorded = [n \in 0..m |->
                IF n = 0 THEN BlobWriter
                ELSE RecordItem(recorded[n - 1], list[n], dirty, preserved)]

(* The recursion defines a function.                                        *)
LEMMA RecordedExists ==
  ASSUME NEW list, NEW dirty, NEW preserved, NEW m \in Nat
  PROVE  \E f : IsRecorded(list, dirty, preserved, f, m)
<1> DEFINE S == {k \in Nat : \E f : IsRecorded(list, dirty, preserved, f, k)}
           Step(blob, n) == RecordItem(blob, list[n], dirty, preserved)
<1>1. 0 \in S
  <2> DEFINE f == [n \in 0..0 |-> BlobWriter]
  <2>1. f = [n \in 0..0 |-> IF n = 0 THEN BlobWriter ELSE Step(f[n - 1], n)]
    OBVIOUS
  <2> QED BY <2>1 DEF IsRecorded
<1>2. ASSUME NEW k \in Nat, k \in S PROVE k + 1 \in S
  <2>1. PICK f : IsRecorded(list, dirty, preserved, f, k)
    BY <1>2
  <2>2. f = [n \in 0..k |-> IF n = 0 THEN BlobWriter ELSE Step(f[n - 1], n)]
    BY <2>1 DEF IsRecorded
  <2> HIDE DEF Step
  <2>3. f[0] = BlobWriter /\ \A n \in 1..k : f[n] = Step(f[n - 1], n)
    BY <2>2
  <2> DEFINE g == [n \in 0..k + 1 |->
                     IF n = k + 1 THEN Step(f[k], k + 1) ELSE f[n]]
  <2>4. (\A n \in 0..k : g[n] = f[n]) /\ g[k + 1] = Step(f[k], k + 1)
    OBVIOUS
  <2>5. g = [n \in 0..k + 1 |-> g[n]]
    OBVIOUS
  <2> HIDE DEF g
  <2>6. \A n \in 0..k + 1 :
          g[n] = IF n = 0 THEN BlobWriter ELSE Step(g[n - 1], n)
    <3> TAKE n \in 0..k + 1
    <3>1. CASE n = 0
      BY <2>3, <2>4, <3>1
    <3>2. CASE n \in 1..k
      <4>1. n - 1 \in 0..k /\ n \in 0..k /\ n # 0
        BY <3>2
      <4> QED BY <2>3, <2>4, <3>2, <4>1
    <3>3. CASE n = k + 1
      <4>1. n - 1 = k /\ k \in 0..k /\ n # 0
        BY <3>3
      <4> QED BY <2>4, <3>3, <4>1
    <3> QED BY <3>1, <3>2, <3>3
  <2>7. g = [n \in 0..k + 1 |->
               IF n = 0 THEN BlobWriter ELSE Step(g[n - 1], n)]
    BY <2>5, <2>6
  <2>8. IsRecorded(list, dirty, preserved, g, k + 1)
    BY <2>7 DEF IsRecorded, Step
  <2> QED BY <2>8
<1>3. \A k \in Nat : k \in S => k + 1 \in S
  BY <1>2
<1> HIDE DEF S
<1>4. m \in S
  BY <1>1, <1>3, Induct
<1> QED BY <1>4 DEF S

(* The items of a list whose data a partial recording holds.                *)
Dirty(list, dirty, preserved) ==
  {i \in 1..Len(list) : ~Clean(list[i], dirty, preserved)}

(* The recording of nothing.                                                *)
LEMMA NothingRecorded ==
  ASSUME NEW list, NEW S
  PROVE  PartOf(BlobWriter, list, 0, S)
<1> DEFINE none == <<>>
<1>1. Len(none) = 0 /\ none \in Seq(Words) /\ none \in Seq(Ends)
  OBVIOUS
<1> HIDE DEF none
<1>2. BlobWriter = [data |-> none, index |-> none]
  BY DEF BlobWriter, none
<1>3. BlobWriter \in Blobs
  BY <1>1, <1>2 DEF Blobs
<1>4. BlobWriter.data = none /\ BlobWriter.index = none
  BY <1>2
<1> QED BY <1>1, <1>3, <1>4 DEF PartOf

(* A partial recording has an entry for each item, with its data if the     *)
(* item is not clean.                                                       *)
LEMMA PartialIs ==
  ASSUME NEW list \in Seq(Items), NEW dirty, NEW preserved
  PROVE  PartOf(Partial(list, dirty, preserved), list, Len(list),
                Dirty(list, dirty, preserved))
<1> DEFINE N == Len(list)
           f == CHOOSE g : IsRecorded(list, dirty, preserved, g, N)
           D == Dirty(list, dirty, preserved)
<1>1. Partial(list, dirty, preserved) = f[N]
  BY Zenon DEF Partial, IsRecorded
<1>2. N \in Nat
  OBVIOUS
<1> HIDE DEF N
<1>3. IsRecorded(list, dirty, preserved, f, N)
  BY <1>2, RecordedExists
<1> HIDE DEF f
<1>4. f[0] = BlobWriter
  BY <1>2, <1>3 DEF IsRecorded
<1>5. \A n \in 1..N :
        f[n] = RecordItem(f[n - 1], list[n], dirty, preserved)
  BY <1>2, <1>3 DEF IsRecorded
<1> DEFINE S == {n \in Nat : n <= N => PartOf(f[n], list, n, D)}
<1>6. 0 \in S
  BY <1>4, NothingRecorded
<1>7. ASSUME NEW n \in Nat, n \in S PROVE n + 1 \in S
  <2> SUFFICES ASSUME n + 1 <= N PROVE PartOf(f[n + 1], list, n + 1, D)
    OBVIOUS
  <2> DEFINE x == list[n + 1]
             blob == f[n]
  <2>1. n < N /\ n <= N /\ n + 1 \in 1..N /\ (n + 1) - 1 = n
    BY <1>2
  <2>2. x \in Items
    BY <2>1 DEF N
  <2>3. PartOf(blob, list, n, D)
    BY <1>7, <2>1
  <2>4. f[n + 1] = RecordItem(blob, x, dirty, preserved)
    BY <1>5, <2>1
  <2>5. CASE Clean(x, dirty, preserved)
    <3> DEFINE none == <<>>
               zero == 0
    <3>1. f[n + 1] = new_entry(blob, zero, x.bounds, none)
      BY <2>4, <2>5 DEF RecordItem
    <3>2. n + 1 \notin D
      BY <2>5 DEF Dirty
    <3>3. none \in Seq(Words) /\ zero \in Nat
      OBVIOUS
    <3>4. /\ zero = 0 /\ none = <<>>
          /\ D \subseteq D /\ n + 1 \notin D
      BY <3>2
    <3> HIDE DEF none, zero, D, blob, x
    <3>5. PartOf(new_entry(blob, zero, list[n + 1].bounds, none), list, n + 1, D)
      BY <2>1, <2>3, <3>3, <3>4, AddRecorded DEF N
    <3> QED BY <3>1, <3>5 DEF x
  <2>6. CASE ~Clean(x, dirty, preserved)
    <3> DEFINE data == Recorded(x)
               one == 1
    <3>1. one = Len(Fonts(x)) /\ data \in Seq(Words) /\ one \in Nat
      BY <2>2, RecordedIs
    <3>2. f[n + 1] = new_entry(blob, one, x.bounds, data)
      BY <2>4, <2>6, <3>1 DEF RecordItem, Recorded
    <3>3. /\ one = 1 /\ data = Recorded(list[n + 1])
          /\ D \subseteq D \cup {n + 1}
      OBVIOUS
    <3> HIDE DEF data, one, D, blob, x
    <3>4. PartOf(new_entry(blob, one, list[n + 1].bounds, data), list, n + 1, D)
      BY <2>1, <2>3, <3>1, <3>3, AddRecorded DEF N
    <3> QED BY <3>2, <3>4 DEF x
  <2> QED BY <2>5, <2>6
<1>8. \A n \in Nat : n \in S => n + 1 \in S
  BY <1>7
<1> HIDE DEF S
<1>9. N \in S
  BY <1>2, <1>6, <1>8, Induct
<1> QED BY <1>1, <1>2, <1>9 DEF S, N

-----------------------------------------------------------------------------
(* Reading                                                                  *)

(* The m words of s are those of d behind the first.                        *)
Agrees(d, from, s, m) == \A k \in 1..m : d[from + k] = s[k]

(* A part of a sequence that agrees with another, word for word, is it.     *)
LEMMA PartIs ==
  ASSUME NEW U, NEW d \in Seq(U), NEW s \in Seq(U), NEW from \in Nat,
         NEW to \in Nat, to <= Len(d), NEW m \in Nat, m = Len(s), to = from + m,
         Agrees(d, from, s, m)
  PROVE  SubSeq(d, from + 1, to) = s
<1> DEFINE a == from + 1
           part == SubSeq(d, a, to)
<1>1. \A i \in a..to : d[i] \in U
  <2> TAKE i \in a..to
  <2>1. i \in 1..Len(d)
    OBVIOUS
  <2> QED BY <2>1, ElementOfSeq
<1>2. a \in Int /\ to \in Int
  OBVIOUS
<1>3. (IF a <= to THEN to - a + 1 ELSE 0) = m /\ to - a + 1 = m
  OBVIOUS
<1>4. \A i \in 1..m : a + i - 1 = from + i
  OBVIOUS
<1> HIDE DEF a
<1>5. /\ part \in Seq(U)
      /\ Len(part) = IF a <= to THEN to - a + 1 ELSE 0
      /\ \A i \in 1..to - a + 1 : part[i] = d[a + i - 1]
  BY <1>1, <1>2, SubSeqProperties
<1> HIDE DEF part
<1>6. Len(part) = m /\ \A i \in 1..m : part[i] = s[i]
  BY <1>3, <1>4, <1>5 DEF Agrees
<1>7. part = s
  BY <1>5, <1>6, SeqEqual
<1> QED BY <1>7 DEF part, a

(* What a reader finds in an entry that holds an item.                      *)
LEMMA HeldIs ==
  ASSUME NEW blob \in Blobs, NEW i, NEW x \in Items, Holds(blob, i, x)
  PROVE  LET e == read_entry(blob, i)
         IN /\ e.extra_end - e.end = 1
            /\ Bytes(blob, e.begin, e.end) = Commands(x)
            /\ Bytes(blob, e.end, e.extra_end) = Fonts(x)
            /\ Bytes(blob, e.begin, e.extra_end) = Recorded(x)
<1> DEFINE e == read_entry(blob, i)
           d == blob.data
           b == e.begin
           c == e.end
           z == e.extra_end
           two == 2
           three == 3
           one == 1
           r == Recorded(x)
           s == Commands(x)
           f == Fonts(x)
<1>1. /\ b \in Nat /\ c = b + two /\ z = b + three /\ b + three <= Len(d)
      /\ \A k \in 1..three : d[b + k] = r[k]
  BY DEF Holds
<1>2. d \in Seq(Words) /\ two \in Nat /\ three \in Nat /\ one \in Nat
      /\ Len(d) \in Nat
  BY DEF Blobs
<1>3. /\ r \in Seq(Words) /\ three = Len(r) /\ s \in Seq(Words) /\ two = Len(s)
      /\ f \in Seq(Words) /\ one = Len(f)
      /\ r[1] = s[1] /\ r[2] = s[2] /\ r[3] = f[1]
  BY RecordedIs
<1> HIDE DEF b, c, z, r, s, f, d, e
<1>4. /\ c \in Nat /\ z \in Nat /\ c <= Len(d) /\ z <= Len(d) /\ z = c + one
      /\ z - c = 1
  BY <1>1, <1>2
<1>5. Agrees(d, b, s, two)
  <2>1. d[b + 1] = s[1] /\ d[b + 2] = s[2]
    BY <1>1, <1>3
  <2>2. \A k \in 1..2 : k = 1 \/ k = 2
    OBVIOUS
  <2> QED BY <2>1, <2>2 DEF Agrees
<1>6. Agrees(d, c, f, one)
  <2>1. d[b + 3] = f[1] /\ c + 1 = b + 3
    BY <1>1, <1>3
  <2>2. \A k \in 1..1 : k = 1
    OBVIOUS
  <2> QED BY <2>1, <2>2 DEF Agrees
<1>a. Agrees(d, b, r, three)
  BY <1>1 DEF Agrees
<1> HIDE DEF one, two, three
<1>7. SubSeq(d, b + 1, z) = r
  <2>1. /\ d \in Seq(Words) /\ r \in Seq(Words) /\ b \in Nat /\ z \in Nat
        /\ z <= Len(d) /\ three \in Nat /\ three = Len(r) /\ z = b + three
    BY <1>1, <1>2, <1>3, <1>4
  <2> QED BY <2>1, <1>a, PartIs
<1>8. SubSeq(d, b + 1, c) = s
  <2>1. /\ d \in Seq(Words) /\ s \in Seq(Words) /\ b \in Nat /\ c \in Nat
        /\ c <= Len(d) /\ two \in Nat /\ two = Len(s) /\ c = b + two
    BY <1>1, <1>2, <1>3, <1>4
  <2> QED BY <2>1, <1>5, PartIs
<1>9. SubSeq(d, c + 1, z) = f
  <2>1. /\ d \in Seq(Words) /\ f \in Seq(Words) /\ c \in Nat /\ z \in Nat
        /\ z <= Len(d) /\ one \in Nat /\ one = Len(f) /\ z = c + one
    BY <1>2, <1>3, <1>4
  <2> QED BY <2>1, <1>6, PartIs
<1> QED BY <1>4, <1>7, <1>8, <1>9 DEF Bytes, b, c, z, d, e, r, s, f

-----------------------------------------------------------------------------
(* Merging                                                                  *)

(* A recording of the old list, and a list that keeps what was promised.    *)
Given(old, oldList, list, dirty, preserved) ==
  /\ oldList \in Seq(Items) /\ IsInjective(oldList)
  /\ list \in Seq(Items) /\ IsInjective(list)
  /\ Whole(old, oldList)
  /\ Promised(oldList, list, dirty, preserved)

(* The entries of the old list whose items are among the first n.           *)
Taken(oldList, list, n) ==
  {i \in 1..Len(oldList) : \E k \in 1..n : list[k] = oldList[i]}

(* Of the clean entries, those that are not taken are unread or wait in the *)
(* cache.                                                                   *)
Waits(pos, cache, oldList, list, n, dirty, preserved) ==
  /\ pos \in 0..Len(oldList) /\ cache \subseteq 1..pos
  /\ \A i \in 1..Len(oldList) : Clean(oldList[i], dirty, preserved) =>
       /\ i <= pos => (i \in cache <=> i \notin Taken(oldList, list, n))
       /\ i > pos => i \notin Taken(oldList, list, n)

(* Entry j is the next item's, and those before it of the same bounds are   *)
(* taken.                                                                   *)
IsNext(j, oldList, list, n) ==
  /\ j \in 1..Len(oldList) /\ oldList[j] = list[n + 1]
  /\ j \notin Taken(oldList, list, n)
  /\ Taken(oldList, list, n + 1) = Taken(oldList, list, n) \cup {j}
  /\ \A i \in 1..Len(oldList) :
       oldList[i].bounds = oldList[j].bounds /\ i < j => i \in Taken(oldList, list, n)

(* A clean item of the new list has an entry in the old one, and by the     *)
(* order that was promised it is the first of its bounds that is left.      *)
LEMMA NextIsFirst ==
  ASSUME NEW old, NEW oldList, NEW list, NEW dirty, NEW preserved,
         Given(old, oldList, list, dirty, preserved),
         NEW n \in Nat, n < Len(list), Clean(list[n + 1], dirty, preserved)
  PROVE  \E j \in Nat : IsNext(j, oldList, list, n)
<1> DEFINE x == list[n + 1]
           KeptOld == {i \in DOMAIN oldList : Clean(oldList[i], dirty, preserved)}
           KeptNew == {i \in DOMAIN list : Clean(list[i], dirty, preserved)}
<1>1. /\ oldList \in Seq(Items) /\ list \in Seq(Items)
      /\ DOMAIN oldList = 1..Len(oldList) /\ DOMAIN list = 1..Len(list)
      /\ Len(list) \in Nat /\ Len(oldList) \in Nat
  BY DEF Given
<1>2. /\ \A a, b \in 1..Len(oldList) : oldList[a] = oldList[b] => a = b
      /\ \A a, b \in 1..Len(list) : list[a] = list[b] => a = b
  BY <1>1 DEF Given, IsInjective
<1>3. /\ {oldList[i] : i \in KeptOld} = {list[k] : k \in KeptNew}
      /\ \A i, j \in KeptOld : \A k, l \in KeptNew :
           i < j /\ oldList[i].bounds \cap oldList[j].bounds # {}
             /\ list[k] = oldList[i] /\ list[l] = oldList[j] => k < l
  BY DEF Given, Promised
<1>4. n + 1 \in KeptNew /\ n + 1 \in 1..Len(list)
  BY <1>1
<1>5. PICK j \in KeptOld : oldList[j] = x
  BY <1>3, <1>4
<1>6. j \in 1..Len(oldList) /\ j \in Nat
  BY <1>1
<1>7. j \notin Taken(oldList, list, n)
  <2> SUFFICES ASSUME NEW k \in 1..n, list[k] = oldList[j] PROVE FALSE
    BY DEF Taken
  <2>1. k \in 1..Len(list) /\ k # n + 1
    BY <1>1
  <2> QED BY <1>2, <1>4, <1>5, <2>1
<1>8. Taken(oldList, list, n + 1) = Taken(oldList, list, n) \cup {j}
  <2>1. ASSUME NEW i \in Taken(oldList, list, n + 1), i # j
        PROVE  i \in Taken(oldList, list, n)
    <3>1. i \in 1..Len(oldList)
      BY DEF Taken
    <3>2. PICK k \in 1..(n + 1) : list[k] = oldList[i]
      BY DEF Taken
    <3>3. k # n + 1
      BY <1>2, <1>5, <1>6, <2>1, <3>1, <3>2
    <3>4. k \in 1..n
      BY <3>3
    <3> QED BY <3>1, <3>2, <3>4 DEF Taken
  <2>2. ASSUME NEW i \in Taken(oldList, list, n)
        PROVE  i \in Taken(oldList, list, n + 1)
    <3>1. 1..n \subseteq 1..(n + 1)
      OBVIOUS
    <3> QED BY <3>1 DEF Taken
  <2>3. j \in Taken(oldList, list, n + 1)
    <3>1. n + 1 \in 1..(n + 1)
      OBVIOUS
    <3> QED BY <1>5, <1>6, <3>1 DEF Taken
  <2> QED BY <2>1, <2>2, <2>3
<1>9. ASSUME NEW i \in 1..Len(oldList), oldList[i].bounds = oldList[j].bounds, i < j
      PROVE  i \in Taken(oldList, list, n)
  <2>1. Clean(oldList[i], dirty, preserved)
    BY <1>5, <1>9 DEF Clean
  <2>2. i \in KeptOld
    BY <1>1, <2>1
  <2>3. PICK k \in KeptNew : list[k] = oldList[i]
    BY <1>3, <2>2
  <2>4. oldList[i].bounds \cap oldList[j].bounds # {}
    <3>1. oldList[j].bounds # {}
      BY <1>5 DEF Clean
    <3> QED BY <1>9, <3>1
  <2>5. k < n + 1
    <3>1. list[n + 1] = oldList[j]
      BY <1>5
    <3> HIDE DEF KeptOld, KeptNew
    <3> QED BY <1>3, <1>4, <1>5, <1>9, <2>2, <2>3, <2>4, <3>1
  <2>6. k \in 1..n
    BY <1>1, <2>5
  <2> QED BY <2>3, <2>6 DEF Taken
<1>10. IsNext(j, oldList, list, n)
  BY <1>5, <1>6, <1>7, <1>8, <1>9 DEF IsNext
<1> QED BY <1>6, <1>10

(* The reader finds it, and goes on with what waits.                        *)
LEMMA NextEntryIs ==
  ASSUME NEW old, NEW oldList, NEW list, NEW dirty, NEW preserved,
         Given(old, oldList, list, dirty, preserved), NEW n \in Nat, NEW j \in Nat,
         IsNext(j, oldList, list, n), Clean(list[n + 1], dirty, preserved),
         NEW reader, NEW bounds, bounds = list[n + 1].bounds,
         Waits(reader.pos, reader.cache, oldList, list, n, dirty, preserved)
  PROVE  LET r == next_entry_with_bounds(old, reader, bounds, dirty)
         IN /\ r.entry = j
            /\ Waits(r.pos, r.cache, oldList, list, n + 1, dirty, preserved)
<1> DEFINE pos == reader.pos
           cache == reader.cache
           N == Len(oldList)
           T == Taken(oldList, list, n)
           C(i) == Clean(oldList[i], dirty, preserved)
           cached == {i \in cache : old.index[i].bounds = bounds}
           unread == {i \in (pos + 1)..Len(old.index) : old.index[i].bounds = bounds}
           u == Min(unread)
           passed == {i \in (pos + 1)..(u - 1) : ~Ignored(old.index[i].bounds, dirty)}
           r == next_entry_with_bounds(old, reader, bounds, dirty)
<1>1. /\ N \in Nat /\ Len(old.index) = N
      /\ \A i \in 1..N : old.index[i].bounds = oldList[i].bounds
  BY DEF Given, Whole, PartOf
<1>2. /\ pos \in 0..N /\ cache \subseteq 1..pos /\ T \subseteq 1..N
      /\ \A i \in 1..N : C(i) => /\ i <= pos => (i \in cache <=> i \notin T)
                                 /\ i > pos => i \notin T
  BY DEF Waits, Taken
<1>3. /\ j \in 1..N /\ oldList[j].bounds = bounds /\ j \notin T
      /\ \A i \in 1..N : oldList[i].bounds = bounds /\ i < j => i \in T
      /\ Taken(oldList, list, n + 1) = T \cup {j}
  BY DEF IsNext
<1>4. \A i \in 1..N : oldList[i].bounds = bounds => C(i)
  BY DEF Clean
<1>5. \A i \in 1..N : C(i) => ~Ignored(old.index[i].bounds, dirty)
  BY <1>1 DEF Clean, Ignored
<1>6. /\ cached \subseteq 1..N /\ cached \subseteq 1..pos
      /\ unread \subseteq (pos + 1)..N
      /\ \A i \in cached \cup unread : oldList[i].bounds = bounds /\ C(i) /\ i \notin T
  <2>1. cached \subseteq 1..N /\ cached \subseteq 1..pos
    BY <1>1, <1>2
  <2>2. unread \subseteq (pos + 1)..N /\ unread \subseteq 1..N
    BY <1>1, <1>2
  <2>3. ASSUME NEW i \in cached
        PROVE  oldList[i].bounds = bounds /\ C(i) /\ i \notin T
    <3>1. i \in 1..N /\ i <= pos /\ i \in cache
      BY <1>1, <1>2, <2>1
    <3>2. oldList[i].bounds = bounds
      BY <1>1, <3>1
    <3> QED BY <1>2, <1>4, <3>1, <3>2
  <2>4. ASSUME NEW i \in unread
        PROVE  oldList[i].bounds = bounds /\ C(i) /\ i \notin T
    <3>1. i \in 1..N /\ i > pos
      BY <1>1, <1>2, <2>2
    <3>2. oldList[i].bounds = bounds
      BY <1>1, <3>1
    <3> QED BY <1>2, <1>4, <3>1, <3>2
  <2> QED BY <2>1, <2>2, <2>3, <2>4
<1>7. \A i \in cached \cup unread : ~(i < j)
  BY <1>1, <1>2, <1>3, <1>6
<1>8. CASE j <= pos
  <2>1. j \in cached
    BY <1>1, <1>2, <1>3, <1>4, <1>8
  <2> DEFINE c == Min(cached)
  <2>2. c \in cached /\ c <= j
    <3>1. cached \subseteq Nat /\ cached # {}
      BY <1>2, <1>6, <2>1
    <3> HIDE DEF cached
    <3> QED BY <2>1, <3>1, MinIsLeast
  <2>3. c = j
    <3> HIDE DEF c, cached, unread, pos
    <3>1. c \in Nat /\ ~(c < j)
      BY <1>2, <1>6, <1>7, <2>2
    <3> QED BY <1>3, <2>2, <3>1
  <2>4. r = [entry |-> j, pos |-> pos, cache |-> cache \ {j}]
    <3>1. r = [entry |-> c, pos |-> pos, cache |-> cache \ {c}]
      BY <2>1 DEF next_entry_with_bounds, FirstCached
    <3> HIDE DEF c, r
    <3> QED BY <2>3, <3>1
  <2> HIDE DEF r
  <2>5. r.entry = j /\ r.pos = pos /\ r.cache = cache \ {j}
    BY <2>4
  <2>6. ASSUME NEW i \in 1..N, C(i)
        PROVE  /\ i <= pos => (i \in cache \ {j} <=> i \notin T \cup {j})
               /\ i > pos => i \notin T \cup {j}
    <3>1. i > pos => i # j
      BY <1>2, <1>8
    <3> QED BY <1>2, <2>6, <3>1
  <2>7. Waits(r.pos, r.cache, oldList, list, n + 1, dirty, preserved)
    BY <1>2, <1>3, <2>5, <2>6 DEF Waits
  <2> QED BY <2>5, <2>7 DEF r
<1>9. CASE j > pos
  <2>1. j \in unread
    BY <1>1, <1>2, <1>3, <1>9
  <2>2. cached = {}
    <3> SUFFICES ASSUME NEW i \in cached PROVE FALSE
      OBVIOUS
    <3> QED BY <1>2, <1>3, <1>6, <1>7, <1>9
  <2>3. u \in unread /\ u <= j
    <3>1. unread \subseteq Nat /\ unread # {}
      BY <1>2, <1>6, <2>1
    <3> HIDE DEF unread
    <3> QED BY <2>1, <3>1, MinIsLeast
  <2>4. u = j
    <3> HIDE DEF u, cached, unread, pos
    <3>1. u \in Nat /\ ~(u < j)
      <4>1. u \in (pos + 1)..N
        BY <1>6, <2>3
      <4> QED BY <1>2, <1>7, <2>3, <4>1
    <3> QED BY <1>3, <2>3, <3>1
  <2> DEFINE left == {i \in (pos + 1)..(j - 1) : ~Ignored(old.index[i].bounds, dirty)}
  <2>5. r = [entry |-> j, pos |-> j, cache |-> cache \cup left]
    <3>1. r = [entry |-> u, pos |-> u, cache |-> cache \cup passed]
      <4>1. unread # {}
        BY <2>1
      <4> QED BY <2>2, <4>1 DEF next_entry_with_bounds
    <3>2. passed = left
      <4> HIDE DEF u
      <4> QED BY <2>4
    <3> HIDE DEF u, r, passed, left
    <3> QED BY <2>4, <3>1, <3>2
  <2> HIDE DEF r
  <2>6. r.entry = j /\ r.pos = j /\ r.cache = cache \cup left
    BY <2>5
  <2>7. ASSUME NEW i \in 1..N, C(i)
        PROVE  /\ i <= j => (i \in cache \cup left <=> i \notin T \cup {j})
               /\ i > j => i \notin T \cup {j}
    <3>1. CASE i <= pos
      <4>1. i \notin left /\ i # j /\ i < j
        BY <1>2, <1>9, <3>1
      <4> HIDE DEF left
      <4> QED BY <1>2, <1>3, <2>7, <3>1, <4>1
    <3>2. CASE i > pos /\ i < j
      <4>1. i \in left
        BY <1>2, <1>5, <2>7, <3>2
      <4> HIDE DEF left
      <4> QED BY <1>2, <1>3, <2>7, <3>2, <4>1
    <3>3. CASE i = j
      <4>1. i \notin cache /\ i \notin left
        BY <1>2, <1>9, <3>3
      <4> HIDE DEF left
      <4> QED BY <3>3, <4>1
    <3>4. CASE i > j
      <4>1. i > pos /\ ~(i <= j) /\ i # j
        BY <1>2, <1>9, <3>4
      <4> QED BY <1>2, <2>7, <4>1
    <3> QED BY <1>2, <1>3, <3>1, <3>2, <3>3, <3>4
  <2>8. cache \cup left \subseteq 1..j /\ j \in 0..N
    BY <1>2, <1>3, <1>9
  <2> HIDE DEF left
  <2>9. Waits(r.pos, r.cache, oldList, list, n + 1, dirty, preserved)
    BY <1>3, <2>6, <2>7, <2>8 DEF Waits
  <2> QED BY <2>6, <2>9 DEF r
<1> QED BY <1>2, <1>3, <1>8, <1>9

(* A merge that has not panicked.                                           *)
Going(result, reader) == [result |-> result, panicked |-> FALSE, reader |-> reader]

(* What it consists of.                                                     *)
LEMMA GoingIs ==
  ASSUME NEW result, NEW reader
  PROVE  /\ Going(result, reader).result = result
         /\ Going(result, reader).reader = reader
         /\ ~Going(result, reader).panicked
BY DEF Going

(* It goes on with another recording, and with another reader.              *)
WithResult(merge, result) == [merge EXCEPT !.result = result]
WithBoth(merge, reader, result) ==
  [merge EXCEPT !.reader = reader, !.result = result]

(* It is still a merge that has not panicked.                               *)
LEMMA GoingOn ==
  ASSUME NEW result, NEW reader, NEW result2, NEW reader2
  PROVE  /\ WithResult(Going(result, reader), result2) = Going(result2, reader)
         /\ WithBoth(Going(result, reader), reader2, result2)
              = Going(result2, reader2)
<1> DEFINE p == FALSE
           merge == [result |-> result, panicked |-> p, reader |-> reader]
           next == [merge EXCEPT !.reader = reader2, !.result = result2]
<1>1. Going(result, reader) = merge
  BY DEF Going
<1> HIDE DEF p
<1>2. [merge EXCEPT !.result = result2]
        = [result |-> result2, panicked |-> p, reader |-> reader]
  OBVIOUS
<1>3. next = [k \in {"result", "panicked", "reader"} |->
                IF k = "result" THEN result2
                ELSE IF k = "reader" THEN reader2 ELSE merge[k]]
  OBVIOUS
<1>4. next = [result |-> result2, panicked |-> p, reader |-> reader2]
  BY <1>3
<1> HIDE DEF merge
<1>5. /\ [result |-> result2, panicked |-> p, reader |-> reader]
           = Going(result2, reader)
      /\ [result |-> result2, panicked |-> p, reader |-> reader2]
           = Going(result2, reader2)
  BY DEF Going, p
<1> QED BY <1>1, <1>2, <1>4, <1>5, Zenon DEF WithResult, WithBoth

(* What is merged of the first n items.                                     *)
MergedOf(result, reader, oldList, list, n, dirty, preserved) ==
  /\ PartOf(result, list, n, 1..n)
  /\ Waits(reader.pos, reader.cache, oldList, list, n, dirty, preserved)

(* One entry more.                                                          *)
LEMMA MergeEntryIs ==
  ASSUME NEW old, NEW new, NEW oldList, NEW list, NEW dirty, NEW preserved,
         Given(old, oldList, list, dirty, preserved),
         PartOf(new, list, Len(list), Dirty(list, dirty, preserved)),
         NEW n \in Nat, n < Len(list), NEW result, NEW reader,
         MergedOf(result, reader, oldList, list, n, dirty, preserved)
  PROVE  \E result2, reader2 :
           /\ MergeEntry(old, new, dirty, preserved, Going(result, reader), n + 1)
                = Going(result2, reader2)
           /\ MergedOf(result2, reader2, oldList, list, n + 1, dirty, preserved)
<1> DEFINE x == list[n + 1]
           k == n + 1
           bounds == x.bounds
           e == read_entry(new, k)
           merge == Going(result, reader)
           next == MergeEntry(old, new, dirty, preserved, merge, k)
           data == Recorded(x)
           one == 1
           result2 == new_entry(result, one, bounds, data)
           S == 1..n
           T == 1..(n + 1)
<1>1. /\ list \in Seq(Items) /\ x \in Items /\ k \in 1..Len(list) /\ Len(list) \in Nat
      /\ oldList \in Seq(Items)
  <2>1. list \in Seq(Items) /\ oldList \in Seq(Items)
    BY DEF Given
  <2>2. Len(list) \in Nat /\ k \in 1..Len(list)
    BY <2>1
  <2> QED BY <2>1, <2>2, ElementOfSeq
<1>2. e.bounds = bounds
  BY <1>1 DEF PartOf, read_entry
<1>3. data \in Seq(Words)
  BY <1>1, RecordedIs
<1>4. PartOf(result2, list, n + 1, T)
  <2>1. /\ PartOf(result, list, n, S)
        /\ data = Recorded(list[n + 1]) /\ one = 1 /\ one \in Nat
        /\ T \subseteq S \cup {n + 1}
    BY DEF MergedOf
  <2> HIDE DEF data, one, S, T, x, result2
  <2>2. PartOf(new_entry(result, one, list[n + 1].bounds, data), list, n + 1, T)
    BY <1>1, <1>3, <2>1, AddRecorded
  <2> QED BY <2>2 DEF x, result2
<1>5. merge.result = result /\ merge.reader = reader /\ ~merge.panicked
  BY GoingIs
<1>6. CASE ~Clean(x, dirty, preserved)
  <2>1. InNew(bounds, dirty, preserved)
    BY <1>6 DEF Clean, InNew
  <2>2. Holds(new, k, x) /\ new \in Blobs
    BY <1>1, <1>6 DEF PartOf, Dirty
  <2>3. e.extra_end - e.end = one /\ Bytes(new, e.begin, e.extra_end) = data
    BY <1>1, <2>2, HeldIs
  <2>4. next = Going(result2, reader)
    <3>1. next = [merge EXCEPT !.result =
                    new_entry(result, e.extra_end - e.end, e.bounds,
                              Bytes(new, e.begin, e.extra_end))]
      BY <1>2, <1>5, <2>1, Zenon DEF MergeEntry
    <3>2. next = WithResult(merge, result2)
      BY <1>2, <2>3, <3>1, Zenon DEF WithResult
    <3> HIDE DEF result2, next
    <3>3. WithResult(Going(result, reader), result2) = Going(result2, reader)
      BY GoingOn
    <3> QED BY <3>2, <3>3
  <2>5. ASSUME NEW i \in 1..Len(oldList), Clean(oldList[i], dirty, preserved)
        PROVE  i \in Taken(oldList, list, n + 1) <=> i \in Taken(oldList, list, n)
    <3>1. oldList[i] # x
      BY <1>6, <2>5
    <3>2. \A m \in 1..(n + 1) : m \in 1..n \/ m = n + 1
      OBVIOUS
    <3>3. 1..n \subseteq 1..(n + 1)
      OBVIOUS
    <3> QED BY <3>1, <3>2, <3>3 DEF Taken
  <2>6. Waits(reader.pos, reader.cache, oldList, list, n + 1, dirty, preserved)
    BY <2>5 DEF MergedOf, Waits
  <2>7. MergedOf(result2, reader, oldList, list, n + 1, dirty, preserved)
    BY <1>4, <2>6 DEF MergedOf
  <2> QED BY <2>4, <2>7
<1>7. CASE Clean(x, dirty, preserved)
  <2>1. ~InNew(bounds, dirty, preserved)
    BY <1>7 DEF Clean, InNew
  <2>2. PICK j \in Nat : IsNext(j, oldList, list, n)
    BY <1>7, NextIsFirst
  <2> DEFINE r == next_entry_with_bounds(old, reader, bounds, dirty)
             o == read_entry(old, j)
  <2>3. /\ r.entry = j
        /\ Waits(r.pos, r.cache, oldList, list, n + 1, dirty, preserved)
    <3>1. /\ Waits(reader.pos, reader.cache, oldList, list, n, dirty, preserved)
          /\ bounds = list[n + 1].bounds /\ Clean(list[n + 1], dirty, preserved)
      BY <1>7 DEF MergedOf
    <3> HIDE DEF bounds, x
    <3> QED BY <2>2, <3>1, NextEntryIs
  <2>4. j \in 1..Len(oldList) /\ oldList[j] = x /\ j # 0
    BY <1>1, <2>2 DEF IsNext
  <2>5. Holds(old, j, x) /\ old \in Blobs
    BY <2>4 DEF Given, Whole, PartOf
  <2>6. o.extra_end - o.end = one /\ Bytes(old, o.begin, o.extra_end) = data
    BY <1>1, <2>5, HeldIs
  <2>7. next = Going(result2, r)
    <3>1. next = [merge EXCEPT !.reader = r, !.result =
                    new_entry(result, o.extra_end - o.end, e.bounds,
                              Bytes(old, o.begin, o.extra_end))]
      <4>1. next_entry_with_bounds(old, merge.reader, e.bounds, dirty) = r
        BY <1>2, <1>5, Zenon
      <4> HIDE DEF r
      <4> QED BY <1>2, <1>5, <2>1, <2>3, <2>4, <4>1, Zenon DEF MergeEntry
    <3>2. next = WithBoth(merge, r, result2)
      BY <1>2, <2>6, <3>1, Zenon DEF WithBoth
    <3> HIDE DEF result2, next, r
    <3>3. WithBoth(Going(result, reader), r, result2) = Going(result2, r)
      BY GoingOn
    <3> QED BY <3>2, <3>3
  <2>8. MergedOf(result2, r, oldList, list, n + 1, dirty, preserved)
    BY <1>4, <2>3 DEF MergedOf
  <2> QED BY <2>7, <2>8
<1> QED BY <1>6, <1>7

(* The merges of the first n entries, as merge_blob_images computes them    *)
(* one after another.                                                       *)
MergeStart == Going(BlobWriter, [pos |-> 0, entry |-> 0, cache |-> {}])

IsMerged(old, new, dirty, preserved, merged, m) ==
  merged = [n \in 0..m |->
              IF n = 0 THEN MergeStart
              ELSE MergeEntry(old, new, dirty, preserved, merged[n - 1], n)]

(* The recursion defines a function.                                        *)
LEMMA MergedExists ==
  ASSUME NEW old, NEW new, NEW dirty, NEW preserved, NEW m \in Nat
  PROVE  \E f : IsMerged(old, new, dirty, preserved, f, m)
<1> DEFINE S == {k \in Nat : \E f : IsMerged(old, new, dirty, preserved, f, k)}
           Step(merge, n) == MergeEntry(old, new, dirty, preserved, merge, n)
<1>1. 0 \in S
  <2> DEFINE f == [n \in 0..0 |-> MergeStart]
  <2>1. f = [n \in 0..0 |-> IF n = 0 THEN MergeStart ELSE Step(f[n - 1], n)]
    OBVIOUS
  <2> QED BY <2>1 DEF IsMerged
<1>2. ASSUME NEW k \in Nat, k \in S PROVE k + 1 \in S
  <2>1. PICK f : IsMerged(old, new, dirty, preserved, f, k)
    BY <1>2
  <2>2. f = [n \in 0..k |-> IF n = 0 THEN MergeStart ELSE Step(f[n - 1], n)]
    BY <2>1 DEF IsMerged
  <2> HIDE DEF Step
  <2>3. f[0] = MergeStart /\ \A n \in 1..k : f[n] = Step(f[n - 1], n)
    BY <2>2
  <2> DEFINE g == [n \in 0..k + 1 |->
                     IF n = k + 1 THEN Step(f[k], k + 1) ELSE f[n]]
  <2>4. (\A n \in 0..k : g[n] = f[n]) /\ g[k + 1] = Step(f[k], k + 1)
    OBVIOUS
  <2>5. g = [n \in 0..k + 1 |-> g[n]]
    OBVIOUS
  <2> HIDE DEF g
  <2>6. \A n \in 0..k + 1 :
          g[n] = IF n = 0 THEN MergeStart ELSE Step(g[n - 1], n)
    <3> TAKE n \in 0..k + 1
    <3>1. CASE n = 0
      BY <2>3, <2>4, <3>1
    <3>2. CASE n \in 1..k
      <4>1. n - 1 \in 0..k /\ n \in 0..k /\ n # 0
        BY <3>2
      <4> QED BY <2>3, <2>4, <3>2, <4>1
    <3>3. CASE n = k + 1
      <4>1. n - 1 = k /\ k \in 0..k /\ n # 0
        BY <3>3
      <4> QED BY <2>4, <3>3, <4>1
    <3> QED BY <3>1, <3>2, <3>3
  <2>7. g = [n \in 0..k + 1 |->
               IF n = 0 THEN MergeStart ELSE Step(g[n - 1], n)]
    BY <2>5, <2>6
  <2>8. IsMerged(old, new, dirty, preserved, g, k + 1)
    BY <2>7 DEF IsMerged, Step
  <2> QED BY <2>8
<1>3. \A k \in Nat : k \in S => k + 1 \in S
  BY <1>2
<1> HIDE DEF S
<1>4. m \in S
  BY <1>1, <1>3, Induct
<1> QED BY <1>4 DEF S

(* A merge of a partial recording into the recording of the old list never  *)
(* panics, and what it returns is the whole recording of the new list.      *)
LEMMA MergeIsWhole ==
  ASSUME NEW old, NEW new, NEW oldList, NEW list, NEW dirty,
         NEW old_visible, NEW new_visible, NEW preserved,
         preserved = old_visible \cap new_visible,
         Given(old, oldList, list, dirty, preserved),
         PartOf(new, list, Len(list), Dirty(list, dirty, preserved))
  PROVE  LET merge == merge_blob_images(old, new, dirty, old_visible, new_visible)
         IN ~merge.panicked /\ Whole(merge.result, list)
<1> DEFINE N == Len(new.index)
           f == CHOOSE g : IsMerged(old, new, dirty, preserved, g, N)
           start == [pos |-> 0, entry |-> 0, cache |-> {}]
<1>1. merge_blob_images(old, new, dirty, old_visible, new_visible) = f[N]
  BY Zenon DEF merge_blob_images, IsMerged, MergeStart, Going
<1>2. N \in Nat /\ N = Len(list)
  <2>1. list \in Seq(Items) /\ N = Len(list)
    BY DEF Given, PartOf
  <2> QED BY <2>1
<1> HIDE DEF N
<1>3. IsMerged(old, new, dirty, preserved, f, N)
  BY <1>2, MergedExists
<1> HIDE DEF f
<1> DEFINE Merging(n) == MergeEntry(old, new, dirty, preserved, f[n - 1], n)
           begin == MergeStart
<1>4. f[0] = MergeStart /\ \A n \in 1..N : f[n] = Merging(n)
  <2>1. f = [n \in 0..N |-> IF n = 0 THEN begin ELSE Merging(n)]
    BY <1>3 DEF IsMerged
  <2> HIDE DEF Merging, begin
  <2>2. f[0] = begin /\ \A n \in 1..N : f[n] = Merging(n)
    BY <1>2, <2>1
  <2> QED BY <2>2 DEF begin
<1>5. \A n \in 1..N : f[n] = MergeEntry(old, new, dirty, preserved, f[n - 1], n)
  BY <1>4
<1> DEFINE Good(n) == \E result, reader :
                        /\ f[n] = Going(result, reader)
                        /\ MergedOf(result, reader, oldList, list, n, dirty, preserved)
           S == {n \in Nat : n <= N => Good(n)}
<1>6. 0 \in S
  <2>1. PartOf(BlobWriter, list, 0, 1..0)
    BY NothingRecorded
  <2>2. start.pos = 0 /\ start.cache = {}
    OBVIOUS
  <2>3. Len(oldList) \in Nat /\ Taken(oldList, list, 0) = {}
    BY DEF Given, Taken
  <2>4. Waits(start.pos, start.cache, oldList, list, 0, dirty, preserved)
    BY <2>2, <2>3 DEF Waits
  <2>5. MergedOf(BlobWriter, start, oldList, list, 0, dirty, preserved)
    BY <2>1, <2>4 DEF MergedOf
  <2>6. f[0] = Going(BlobWriter, start)
    BY <1>4 DEF MergeStart
  <2> QED BY <2>5, <2>6
<1>7. ASSUME NEW n \in Nat, n \in S PROVE n + 1 \in S
  <2> HIDE DEF Good
  <2> SUFFICES ASSUME n + 1 <= N PROVE Good(n + 1)
    OBVIOUS
  <2>g. Good(n)
    BY <1>2, <1>7
  <2> USE DEF Good
  <2>1. n < Len(list) /\ n <= N /\ n + 1 \in 1..N /\ (n + 1) - 1 = n
    BY <1>2
  <2>2. PICK result, reader :
          /\ f[n] = Going(result, reader)
          /\ MergedOf(result, reader, oldList, list, n, dirty, preserved)
    BY <2>g
  <2>3. f[n + 1] = MergeEntry(old, new, dirty, preserved, Going(result, reader), n + 1)
    BY <1>5, <2>1, <2>2
  <2> QED BY <2>1, <2>2, <2>3, MergeEntryIs
<1>8. \A n \in Nat : n \in S => n + 1 \in S
  BY <1>7
<1> HIDE DEF S
<1>9. N \in S
  BY <1>2, <1>6, <1>8, Induct
<1>a. Good(N)
  <2> HIDE DEF Good
  <2> QED BY <1>2, <1>9 DEF S
<1>10. PICK result, reader :
         /\ f[N] = Going(result, reader)
         /\ MergedOf(result, reader, oldList, list, N, dirty, preserved)
  BY <1>a
<1>11. ~f[N].panicked /\ f[N].result = result
  BY <1>10, GoingIs
<1>12. Whole(result, list)
  BY <1>2, <1>10 DEF MergedOf, Whole
<1> QED BY <1>1, <1>11, <1>12

-----------------------------------------------------------------------------
(* The handler                                                              *)

(* A reader finds in a whole recording what the list says.                  *)
LEMMA WholeContent ==
  ASSUME NEW blob, NEW list \in Seq(Items), Whole(blob, list)
  PROVE  Content(blob) = ContentOf(list)
<1> DEFINE N == Len(list)
           found(i) == LET e == read_entry(blob, i)
                       IN [bounds |-> e.bounds, commands |-> Bytes(blob, e.begin, e.end),
                           fonts |-> Bytes(blob, e.end, e.extra_end)]
           said(i) == [bounds |-> list[i].bounds, commands |-> Commands(list[i]),
                       fonts |-> Fonts(list[i])]
<1>1. /\ N \in Nat /\ DOMAIN list = 1..N /\ Entries(blob) = 1..N /\ blob \in Blobs
      /\ \A i \in 1..N : blob.index[i].bounds = list[i].bounds /\ Holds(blob, i, list[i])
  BY DEF Whole, PartOf, Entries
<1>2. ASSUME NEW i \in 1..N PROVE found(i) = said(i)
  <2> DEFINE e == read_entry(blob, i)
  <2>1. e.bounds = list[i].bounds
    BY <1>1 DEF read_entry
  <2>2. list[i] \in Items
    BY <1>1
  <2>3. Holds(blob, i, list[i])
    BY <1>1
  <2>4. /\ Bytes(blob, e.begin, e.end) = Commands(list[i])
        /\ Bytes(blob, e.end, e.extra_end) = Fonts(list[i])
    BY <1>1, <2>2, <2>3, HeldIs
  <2> QED BY <2>1, <2>4
<1>3. Content(blob) = [i \in 1..N |-> found(i)]
  BY <1>1 DEF Content
<1>4. ContentOf(list) = [i \in 1..N |-> said(i)]
  BY <1>1 DEF ContentOf
<1> HIDE DEF found, said
<1> QED BY <1>2, <1>3, <1>4

(* What is replayed of a recording is what the list says of the items that  *)
(* meet the part to draw.                                                   *)
ReplaysList(blob, list, drawn) ==
  Replay(blob, drawn)
    = [i \in {n \in DOMAIN list : list[n].bounds \cap drawn # {}} |->
         ContentOf(list)[i]]

(* What is replayed of it is what the list says of the items that meet the  *)
(* part to draw.                                                            *)
LEMMA WholeReplay ==
  ASSUME NEW blob, NEW list \in Seq(Items), Whole(blob, list), NEW drawn
  PROVE  ReplaysList(blob, list, drawn)
<1> DEFINE N == Len(list)
           R == {n \in 1..N : list[n].bounds \cap drawn # {}}
           found(i) == LET e == read_entry(blob, i)
                       IN [bounds |-> e.bounds, commands |-> Bytes(blob, e.begin, e.end),
                           fonts |-> Bytes(blob, e.end, e.extra_end)]
<1>1. /\ N \in Nat /\ DOMAIN list = 1..N /\ Entries(blob) = 1..N
      /\ \A i \in 1..N : blob.index[i].bounds = list[i].bounds
  BY DEF Whole, PartOf, Entries
<1>2. {i \in Entries(blob) : blob.index[i].bounds \cap drawn # {}} = R
  BY <1>1
<1>3. Replay(blob, drawn) = [i \in R |-> found(i)]
  BY <1>2 DEF Replay, ReplayedFrom
<1>4. Content(blob) = [i \in 1..N |-> found(i)]
  BY <1>1 DEF Content
<1>5. Content(blob) = ContentOf(list)
  BY WholeContent
<1> HIDE DEF found
<1>6. \A i \in R : found(i) = ContentOf(list)[i]
  BY <1>4, <1>5
<1>7. [i \in R |-> found(i)] = [i \in R |-> ContentOf(list)[i]]
  BY <1>6
<1> QED BY <1>1, <1>3, <1>7 DEF ReplaysList

(* The handler's recording is that of its list, and a rasterizer's copy     *)
(* that of the list it was made for.                                        *)
JobIsWhole ==
  blobJob # <<>> => /\ blobJob[1].list \in Seq(Items)
                    /\ blobJob[1].commands # <<>>
                    /\ Whole(blobJob[1].commands[1].data, blobJob[1].list)

BlobInv ==
  /\ ~blobPanic
  /\ blobList \in Seq(Items) /\ IsInjective(blobList)
  /\ blob_commands # <<>> => Whole(blob_commands[1].data, blobList)
  /\ JobIsWhole

(* A display list is a sequence of different items.                         *)
LEMMA ListsAreSequences ==
  ASSUME NEW list \in ItemLists
  PROVE  list \in Seq(Items) /\ IsInjective(list)
<1>1. IsInjective(list) /\ list \in UNION {[1..n -> Items] : n \in 0..MaxItems}
  BY DEF ItemLists
<1>2. MaxItems \in Nat
  BY BlobsAssumption DEF BlobsAssumption
<1>3. PICK n \in 0..MaxItems : list \in [1..n -> Items]
  BY <1>1
<1>4. n \in Nat
  BY <1>2
<1> QED BY <1>1, <1>3, <1>4

(* What is recorded as the only one.                                        *)
LEMMA OneRecording ==
  ASSUME NEW data, NEW visible
  PROVE  /\ << [data |-> data, visible_rect |-> visible] >> # <<>>
         /\ << [data |-> data, visible_rect |-> visible] >>[1].data = data
<1> DEFINE r == [data |-> data, visible_rect |-> visible]
<1>1. r.data = data
  OBVIOUS
<1> HIDE DEF r
<1>2. <<r>> # <<>> /\ <<r>>[1] = r
  OBVIOUS
<1> QED BY <1>1, <1>2 DEF r

(* At first nothing is recorded.                                            *)
LEMMA BlobInitInv == BlobInit => BlobInv
<1> SUFFICES ASSUME BlobInit PROVE BlobInv
  OBVIOUS
<1> DEFINE none == <<>>
<1>1. none \in Seq(Items) /\ IsInjective(none)
  BY DEF IsInjective
<1> HIDE DEF none
<1>2. blobList = none
  BY DEF BlobInit, none
<1> QED BY <1>1, <1>2 DEF BlobInit, BlobInv, JobIsWhole

(* The first recording lacks nothing.                                       *)
LEMMA BlobAddInv ==
  ASSUME BlobInv, NEW list \in ItemLists, NEW visible, BlobAdd(list, visible)
  PROVE  BlobInv'
<1> DEFINE data == Partial(list, visible, visible)
<1>1. list \in Seq(Items) /\ IsInjective(list)
  BY ListsAreSequences
<1>2. Dirty(list, visible, visible) = 1..Len(list)
  BY DEF Dirty, Clean
<1>3. Whole(data, list)
  BY <1>1, <1>2, PartialIs DEF Whole
<1> HIDE DEF data
<1>4. /\ blobList' = list
      /\ blob_commands' = << [data |-> data, visible_rect |-> visible] >>
      /\ UNCHANGED <<blobJob, blobPanic>>
  BY DEF BlobAdd, data
<1>5. blob_commands'[1].data = data
  BY <1>4, OneRecording
<1>6. Whole(blob_commands'[1].data, list)
  BY <1>3, <1>5
<1>7. JobIsWhole'
  BY <1>4 DEF BlobInv, JobIsWhole
<1> QED BY <1>1, <1>4, <1>6, <1>7 DEF BlobInv

(* An update completes the partial recording.                               *)
LEMMA BlobUpdateInv ==
  ASSUME BlobInv, NEW list \in ItemLists, NEW dirty, NEW visible,
         BlobUpdate(list, dirty, visible)
  PROVE  BlobInv'
<1> DEFINE old == blob_commands[1]
           data == old.data
           oldVisible == old.visible_rect
           preserved == oldVisible \cap visible
           new == Partial(list, dirty, preserved)
           merge == merge_blob_images(data, new, dirty, oldVisible, visible)
           result == merge.result
<1>1. list \in Seq(Items) /\ IsInjective(list)
  BY ListsAreSequences
<1>2. PartOf(new, list, Len(list), Dirty(list, dirty, preserved))
  BY <1>1, PartialIs
<1>3. Given(data, blobList, list, dirty, preserved)
  BY <1>1 DEF BlobInv, BlobUpdate, Given
<1>4. preserved = oldVisible \cap visible
  OBVIOUS
<1>5. /\ blobList' = list
      /\ blob_commands' = IF merge.panicked THEN blob_commands
                          ELSE << [data |-> result, visible_rect |-> visible] >>
      /\ blobPanic' = merge.panicked /\ blobJob' = blobJob
  BY DEF BlobUpdate
<1> HIDE DEF data, oldVisible, preserved, new
<1>6. ~merge.panicked /\ Whole(result, list)
  BY <1>2, <1>3, <1>4, MergeIsWhole
<1> HIDE DEF merge, result
<1>7. blob_commands' = << [data |-> result, visible_rect |-> visible] >>
  BY <1>5, <1>6
<1>8. blob_commands'[1].data = result
  BY <1>7, OneRecording
<1>9. Whole(blob_commands'[1].data, list)
  BY <1>6, <1>8
<1>10. JobIsWhole'
  BY <1>5 DEF BlobInv, JobIsWhole
<1> QED BY <1>1, <1>5, <1>6, <1>9, <1>10 DEF BlobInv

(* A rasterizer gets a copy of a whole recording.                           *)
LEMMA CreateRasterizerInv ==
  ASSUME BlobInv, CreateRasterizer
  PROVE  BlobInv'
<1> DEFINE job == [commands |-> blob_commands, list |-> blobList]
<1>1. /\ blob_commands # <<>> /\ blobJob' = <<job>>
      /\ UNCHANGED <<blobList, blob_commands, blobPanic>>
  BY DEF CreateRasterizer
<1>2. job.commands = blob_commands /\ job.list = blobList
  OBVIOUS
<1> HIDE DEF job
<1>3. blobJob'[1] = job
  BY <1>1
<1>4. /\ blobJob'[1].list \in Seq(Items) /\ blobJob'[1].commands # <<>>
      /\ Whole(blobJob'[1].commands[1].data, blobJob'[1].list)
  BY <1>1, <1>2, <1>3 DEF BlobInv
<1>5. JobIsWhole'
  BY <1>4 DEF JobIsWhole
<1> QED BY <1>1, <1>5 DEF BlobInv

(* Every step of the blobs keeps the invariant.                             *)
LEMMA BlobNextInv == BlobInv /\ [BlobNext]_blobVars => BlobInv'
<1> SUFFICES ASSUME BlobInv, [BlobNext]_blobVars PROVE BlobInv'
  OBVIOUS
<1>1. CASE UNCHANGED blobVars
  BY <1>1 DEF blobVars, BlobInv, JobIsWhole
<1>2. CASE \E list \in ItemLists, visible \in Visibles : BlobAdd(list, visible)
  BY <1>2, BlobAddInv
<1>3. CASE \E list \in ItemLists, visible \in Visibles : \E dirty \in Rects :
             BlobUpdate(list, dirty, visible)
  BY <1>3, BlobUpdateInv
<1>4. CASE BlobDelete
  <2> DEFINE none == <<>>
  <2>1. none \in Seq(Items) /\ IsInjective(none)
    BY DEF IsInjective
  <2>2. blobList' = none /\ blob_commands' = <<>> /\ UNCHANGED <<blobJob, blobPanic>>
    BY <1>4 DEF BlobDelete
  <2> HIDE DEF none
  <2>3. JobIsWhole'
    BY <2>2 DEF BlobInv, JobIsWhole
  <2> QED BY <2>1, <2>2, <2>3 DEF BlobInv
<1>5. CASE CreateRasterizer
  BY <1>5, CreateRasterizerInv
<1>6. CASE Rasterize
  <2>1. /\ blobJob' = <<>> /\ blobPanic' = (JobCommands = <<>>) /\ blobJob # <<>>
        /\ UNCHANGED <<blobList, blob_commands>>
    BY <1>6 DEF Rasterize
  <2>2. JobCommands # <<>>
    BY <2>1 DEF BlobInv, JobIsWhole, JobCommands
  <2>3. ~blobPanic'
    BY <2>1, <2>2
  <2> QED BY <2>1, <2>3 DEF BlobInv, JobIsWhole
<1> QED BY <1>1, <1>2, <1>3, <1>4, <1>5, <1>6 DEF BlobNext

(* It says that the recordings are whole, that nothing panics and that a    *)
(* rasterizer replays its own list.                                         *)
LEMMA BlobInvConsistent == BlobInv => BlobsConsistent
<1> SUFFICES ASSUME BlobInv PROVE BlobsConsistent
  OBVIOUS
<1>1. MergedIsWhole
  BY WholeContent DEF BlobInv, MergedIsWhole
<1>2. NeverPanics
  BY DEF BlobInv, NeverPanics
<1>3. RasterShowsItsList
  <2> SUFFICES ASSUME blobJob # <<>>, NEW drawn
               PROVE  ReplaysList(JobCommands[1].data, blobJob[1].list, drawn)
    BY DEF RasterShowsItsList, ReplaysList
  <2> DEFINE blob == JobCommands[1].data
             list == blobJob[1].list
  <2>1. Whole(blob, list) /\ list \in Seq(Items)
    BY DEF BlobInv, JobIsWhole, JobCommands
  <2> HIDE DEF blob, list
  <2>2. ReplaysList(blob, list, drawn)
    BY <2>1, WholeReplay
  <2> QED BY <2>2 DEF blob, list
<1> QED BY <1>1, <1>2, <1>3 DEF BlobsConsistent

-----------------------------------------------------------------------------
(* The fonts of blob images                                                 *)

(* What is written to the log, and the requests.                            *)
LogEntries == FontKeys \cup {Key(f.mNamespace, 0) : f \in FontKeys} \cup {ALL}
FontRequests ==
  [fonts : Seq(Instances), step : {"HasFontData", "AddFontData", "AddBlobFont"},
   unscaled : SUBSET FontKeys, scaled : SUBSET Instances, cleared : BOOLEAN]

FontTypes ==
  /\ DOMAIN sFontDataTable \subseteq FontKeys
  /\ DOMAIN sBlobFontTable \subseteq Instances
  /\ sFontDeleteLog \in
       [mEntries : [0..(MAX_ENTRIES - 1) -> LogEntries \cup {NoEntry}],
        mNextEntry : 0..(MAX_ENTRIES - 1)]
  /\ fontArcs \in [FontKeys -> Int]
  /\ fontReady \subseteq Instances
  /\ fontDeletions \in Seq(LogEntries)
  /\ fontRequest = <<>> \/ \E r \in FontRequests : fontRequest = <<r>>

(* A font that the request has asked the table for is there, unless it is   *)
(* the one to be added or all were cleared since.                           *)
RequestOK ==
  fontRequest # <<>> =>
    /\ Request.step # "HasFontData" =>
         Request.fonts # <<>> /\ InstanceFont[NextFont] \in Request.unscaled
    /\ ~Request.cleared =>
         \A f \in Request.unscaled :
           \/ f \in DOMAIN sFontDataTable
           \/ Request.step = "AddFontData" /\ f = InstanceFont[NextFont]

(* The ring holds the last deletions, the next entry being the oldest.      *)
Back(next, n) == IF n <= next THEN next - n ELSE next + MAX_ENTRIES - n
RingOf(log, deletions) ==
  \A n \in 1..MAX_ENTRIES :
    log.mEntries[Back(log.mNextEntry, n)] =
      IF n <= Len(deletions) THEN deletions[Len(deletions) + 1 - n] ELSE NoEntry

FontInv == /\ FontTypes /\ RequestOK /\ ReadyAreFound /\ DataIsHeldOnce
           /\ RingOf(sFontDeleteLog, fontDeletions)

(* Where the search looks.                                                  *)
LEMMA SearchedIsBack ==
  ASSUME FontTypes, NEW n \in 1..MAX_ENTRIES
  PROVE  Searched[n] = sFontDeleteLog.mEntries[Back(sFontDeleteLog.mNextEntry, n)]
<1> DEFINE N == sFontDeleteLog.mNextEntry
<1>1. N \in 0..(MAX_ENTRIES - 1) /\ MAX_ENTRIES \in Nat \ {0}
  BY FontsAssumption DEF FontsAssumption, FontTypes
<1> HIDE DEF N
<1>2. (N + MAX_ENTRIES - n) % MAX_ENTRIES = Back(N, n)
  <2>1. CASE n <= N
    <3> DEFINE x == N - n
    <3>1. x \in Nat /\ x < MAX_ENTRIES /\ N + MAX_ENTRIES - n = x + MAX_ENTRIES
      BY <1>1, <2>1
    <3> HIDE DEF x
    <3>2. (x + MAX_ENTRIES) % MAX_ENTRIES = x
      BY <1>1, <3>1
    <3> QED BY <2>1, <3>1, <3>2 DEF Back, x
  <2>2. CASE n > N
    <3> DEFINE x == N + MAX_ENTRIES - n
    <3>1. x \in Nat /\ x < MAX_ENTRIES
      BY <1>1, <2>2
    <3> HIDE DEF x
    <3>2. x % MAX_ENTRIES = x
      BY <1>1, <3>1
    <3> QED BY <1>1, <2>2, <3>2 DEF Back, x
  <2> QED BY <1>1, <2>1, <2>2
<1> QED BY <1>2 DEF Searched, N

(* An entry is added at the place where the oldest one was.                 *)
LEMMA AddEntryRing ==
  ASSUME FontTypes, RingOf(sFontDeleteLog, fontDeletions),
         NEW entry \in LogEntries, AddEntry(entry)
  PROVE  /\ RingOf(sFontDeleteLog, fontDeletions)'
         /\ fontDeletions' \in Seq(LogEntries)
         /\ sFontDeleteLog' \in
              [mEntries : [0..(MAX_ENTRIES - 1) -> LogEntries \cup {NoEntry}],
               mNextEntry : 0..(MAX_ENTRIES - 1)]
<1> DEFINE N == sFontDeleteLog.mNextEntry
           M == MAX_ENTRIES
           e == sFontDeleteLog.mEntries
           old == fontDeletions
           L == Len(old)
           new == fontDeletions'
           next == IF N = M - 1 THEN 0 ELSE N + 1
<1>1. /\ N \in 0..(M - 1) /\ M \in Nat \ {0} /\ L \in Nat
      /\ e \in [0..(M - 1) -> LogEntries \cup {NoEntry}] /\ old \in Seq(LogEntries)
  BY FontsAssumption DEF FontsAssumption, FontTypes
<1>2. (N + 1) % M = next
  <2>1. CASE N = M - 1
    <3>1. N + 1 = M /\ M % M = 0
      BY <1>1, <2>1
    <3> QED BY <2>1, <3>1
  <2>2. CASE N # M - 1
    <3> DEFINE x == N + 1
    <3>1. x \in Nat /\ x < M
      BY <1>1, <2>2
    <3> HIDE DEF x
    <3>2. x % M = x
      BY <1>1, <3>1
    <3> QED BY <2>2, <3>2 DEF x
  <2> QED BY <2>1, <2>2
<1>3. /\ sFontDeleteLog'.mEntries = [e EXCEPT ![N] = entry]
      /\ sFontDeleteLog'.mNextEntry = next
      /\ sFontDeleteLog' = [mEntries |-> [e EXCEPT ![N] = entry],
                            mNextEntry |-> next]
      /\ new = Append(old, entry)
  BY <1>2 DEF AddEntry
<1>4. /\ new \in Seq(LogEntries) /\ Len(new) = L + 1 /\ new[L + 1] = entry
      /\ \A n \in 1..L : new[n] = old[n]
  BY <1>1, <1>3
<1>5. \A n \in 1..M : e[Back(N, n)] = IF n <= L THEN old[L + 1 - n] ELSE NoEntry
  BY DEF RingOf
<1>6. next \in 0..(M - 1)
  BY <1>1
<1> HIDE DEF N, M, e, old, L, new
<1>7. ASSUME NEW n \in 1..M
      PROVE  [e EXCEPT ![N] = entry][Back(next, n)] =
               IF n <= Len(new) THEN new[Len(new) + 1 - n] ELSE NoEntry
  <2>1. CASE n = 1
    <3>1. Back(next, n) = N
      BY <1>1, <2>1 DEF Back, M
    <3>2. n <= Len(new) /\ Len(new) + 1 - n = L + 1
      BY <1>1, <1>4, <2>1
    <3> QED BY <1>1, <1>4, <3>1, <3>2
  <2>2. CASE n > 1
    <3>1. n - 1 \in 1..M /\ Back(next, n) = Back(N, n - 1)
      BY <1>1, <2>2 DEF Back, M
    <3>2. Back(N, n - 1) # N /\ Back(N, n - 1) \in 0..(M - 1)
      BY <1>1, <2>2 DEF Back, M
    <3>3. [e EXCEPT ![N] = entry][Back(next, n)] = e[Back(N, n - 1)]
      BY <1>1, <3>1, <3>2
    <3>4. e[Back(N, n - 1)] =
            IF n - 1 <= L THEN old[L + 1 - (n - 1)] ELSE NoEntry
      BY <1>5, <3>1
    <3>5. n - 1 <= L => /\ n <= Len(new)
                        /\ new[Len(new) + 1 - n] = old[L + 1 - (n - 1)]
      <4> SUFFICES ASSUME n - 1 <= L
                   PROVE  /\ n <= Len(new)
                          /\ new[Len(new) + 1 - n] = old[L + 1 - (n - 1)]
        OBVIOUS
      <4> DEFINE k == L + 1 - (n - 1)
      <4>1. k \in 1..L /\ Len(new) + 1 - n = k /\ n <= Len(new)
        BY <1>1, <1>4, <2>2
      <4> HIDE DEF k
      <4> QED BY <1>4, <4>1 DEF k
    <3>6. n - 1 > L => n > Len(new)
      BY <1>1, <1>4
    <3> QED BY <1>1, <1>4, <3>3, <3>4, <3>5, <3>6
  <2> QED BY <2>1, <2>2
<1>8. RingOf(sFontDeleteLog, fontDeletions)'
  BY <1>3, <1>7 DEF RingOf, M, new
<1> QED BY <1>1, <1>3, <1>4, <1>6, <1>8 DEF M, new
(* An entry is found if it is one of the last in the log.                   *)
LEMMA RingExplains ==
  ASSUME FontTypes, RingOf(sFontDeleteLog, fontDeletions)
  PROVE  LogExplains
<1> DEFINE L == Len(fontDeletions)
           d == fontDeletions
           M == MAX_ENTRIES
<1>1. L \in Nat /\ M \in Nat \ {0}
  BY FontsAssumption DEF FontsAssumption, FontTypes
<1>2. \A n \in 1..M : Searched[n] = IF n <= L THEN d[L + 1 - n] ELSE NoEntry
  BY SearchedIsBack DEF RingOf
<1> SUFFICES ASSUME NEW f \in FontKeys
             PROVE  LET matching == {n \in 1..L : d[n] \in Reasons(f)
                                                  /\ n + M > L}
                    IN Find(f) = IF matching = {} THEN NoEntry
                                 ELSE d[Max(matching)]
  BY DEF LogExplains
<1> HIDE DEF L, d, M
<1>3. NoEntry \notin Reasons(f)
  BY FontsAssumption
  DEF FontsAssumption, NoEntry, Reasons, NamespaceEntry, ALL, Key
<1> DEFINE found == {n \in 1..M : Searched[n] \in Reasons(f)}
           matching == {n \in 1..L : d[n] \in Reasons(f) /\ n + M > L}
<1>4. Find(f) = IF found = {} THEN NoEntry ELSE Searched[Min(found)]
  BY DEF Find, M
<1>5. \A n \in found : /\ n <= L /\ L + 1 - n \in matching
                       /\ Searched[n] = d[L + 1 - n]
  BY <1>1, <1>2, <1>3
<1>6. \A k \in matching : L + 1 - k \in found
  <2> TAKE k \in matching
  <2> DEFINE n == L + 1 - k
  <2>1. n \in 1..M /\ n <= L /\ L + 1 - n = k
    BY <1>1
  <2> HIDE DEF n
  <2>2. Searched[n] \in Reasons(f)
    BY <1>2, <2>1
  <2> QED BY <2>1, <2>2 DEF n
<1>7. found \subseteq Nat /\ matching \subseteq 0..L
  BY <1>1
<1> HIDE DEF found, matching
<1>8. CASE found = {}
  <2>1. matching = {}
    BY <1>6, <1>8
  <2> QED BY <1>4, <1>8, <2>1 DEF matching
<1>9. CASE found # {}
  <2> DEFINE m == Min(found)
             x == Max(matching)
  <2>1. m \in found /\ \A n \in found : m <= n
    BY <1>7, <1>9, MinIsLeast
  <2>2. matching # {}
    BY <1>5, <2>1
  <2>3. x \in matching /\ \A k \in matching : x >= k
    BY <1>1, <1>7, <2>2, MaxIsLargest
  <2> HIDE DEF m, x
  <2>4. L + 1 - m \in matching /\ L + 1 - x \in found
    BY <1>5, <1>6, <2>1, <2>3
  <2>5. m \in Nat /\ x \in Nat
    BY <1>7, <2>1, <2>3
  <2>6. x = L + 1 - m
    BY <1>1, <2>1, <2>3, <2>4, <2>5
  <2>7. Searched[m] = d[x]
    BY <1>5, <2>1, <2>6
  <2> QED BY <1>4, <1>9, <2>2, <2>7 DEF m, x, matching
<1> QED BY <1>8, <1>9 DEF matching

(* Erasing fonts and instances keeps the tables and the data in step.       *)
LEMMA EraseInv ==
  ASSUME FontTypes, ReadyAreFound, DataIsHeldOnce, NEW fonts, NEW instances,
         Erase(fonts, instances)
  PROVE  /\ DOMAIN sFontDataTable' = DOMAIN sFontDataTable \ fonts
         /\ DOMAIN sFontDataTable' \subseteq FontKeys
         /\ DOMAIN sBlobFontTable' \subseteq Instances
         /\ fontArcs' \in [FontKeys -> Int]
         /\ fontReady' \subseteq Instances
         /\ ReadyAreFound' /\ DataIsHeldOnce'
<1>1. /\ DOMAIN sFontDataTable' = DOMAIN sFontDataTable \ fonts
      /\ DOMAIN sBlobFontTable' = DOMAIN sBlobFontTable \ instances
  BY DEF Erase, Restrict
<1>2. fontReady' = {i \in fontReady \ instances : InstanceFont[i] \notin fonts}
  BY DEF Erase
<1>3. /\ fontArcs' \in [FontKeys -> Int]
      /\ \A f \in FontKeys :
           fontArcs'[f] = IF f \in fonts \cap DOMAIN sFontDataTable \cap RawFonts
                          THEN fontArcs[f] - 1 ELSE fontArcs[f]
  BY DEF Erase, FontTypes
<1>4. ReadyAreFound'
  BY <1>1, <1>2 DEF ReadyAreFound
<1>5. DataIsHeldOnce'
  <2> SUFFICES ASSUME NEW f \in FontKeys
               PROVE  fontArcs'[f] = IF f \in DOMAIN sFontDataTable' \cap RawFonts
                                     THEN 1 ELSE 0
    BY DEF DataIsHeldOnce
  <2>1. fontArcs[f] = IF f \in DOMAIN sFontDataTable \cap RawFonts THEN 1 ELSE 0
    BY DEF DataIsHeldOnce
  <2>2. fontArcs'[f] = IF f \in fonts \cap DOMAIN sFontDataTable \cap RawFonts
                       THEN fontArcs[f] - 1 ELSE fontArcs[f]
    BY <1>3
  <2> QED BY <1>1, <2>1, <2>2
<1> QED BY <1>1, <1>2, <1>3, <1>4, <1>5 DEF FontTypes

(* A request that goes on.                                                  *)
LEMMA RequestTypes ==
  ASSUME FontTypes, fontRequest # <<>>
  PROVE  /\ fontRequest = <<Request>> /\ Request \in FontRequests
         /\ Request.fonts \in Seq(Instances)
         /\ Request.unscaled \subseteq FontKeys
         /\ Request.scaled \subseteq Instances /\ Request.cleared \in BOOLEAN
         /\ Request.step \in {"HasFontData", "AddFontData", "AddBlobFont"}
         /\ Request.fonts # <<>> =>
              /\ NextFont \in Instances /\ InstanceFont[NextFont] \in FontKeys
              /\ Tail(Request.fonts) \in Seq(Instances)
<1>1. PICK r \in FontRequests : fontRequest = <<r>>
  BY DEF FontTypes
<1>2. Request = r
  BY <1>1 DEF Request
<1>3. Request.fonts \in Seq(Instances)
  BY <1>2 DEF FontRequests
<1>4. Request.fonts # <<>> =>
              /\ NextFont \in Instances /\ InstanceFont[NextFont] \in FontKeys
              /\ Tail(Request.fonts) \in Seq(Instances)
  BY <1>3, HeadTailProperties, FontsAssumption
  DEF NextFont, FontsAssumption, Instances
<1> QED BY <1>1, <1>2, <1>3, <1>4 DEF FontRequests

(* Steps of a request that leave the tables alone.                          *)
LEMMA RequestStepInv ==
  ASSUME FontInv, NEW r \in FontRequests, fontRequest' = <<r>> \/ fontRequest' = <<>>,
         UNCHANGED <<sFontDataTable, sBlobFontTable, sFontDeleteLog, fontArcs,
                     fontReady, fontDeletions>>,
         RequestOK'
  PROVE  FontInv'
<1>1. FontTypes'
  BY DEF FontInv, FontTypes
<1>2. ReadyAreFound' /\ DataIsHeldOnce' /\ RingOf(sFontDeleteLog, fontDeletions)'
  BY DEF FontInv, ReadyAreFound, DataIsHeldOnce, RingOf, Back
<1> QED BY <1>1, <1>2 DEF FontInv

(* At first the tables and the log are empty.                               *)
LEMMA FontInitInv == FontInit => FontInv
<1> SUFFICES ASSUME FontInit PROVE FontInv
  OBVIOUS
<1>1. MAX_ENTRIES \in Nat \ {0}
  BY FontsAssumption DEF FontsAssumption
<1>2. FontTypes
  <2>1. DOMAIN sFontDataTable = {} /\ DOMAIN sBlobFontTable = {}
    BY DEF FontInit
  <2>2. fontDeletions \in Seq(LogEntries)
    BY EmptySeq DEF FontInit
  <2>3. sFontDeleteLog \in
       [mEntries : [0..(MAX_ENTRIES - 1) -> LogEntries \cup {NoEntry}],
        mNextEntry : 0..(MAX_ENTRIES - 1)]
    BY <1>1 DEF FontInit
  <2> QED BY <2>1, <2>2, <2>3 DEF FontInit, FontTypes
<1>3. RequestOK /\ ReadyAreFound
  BY DEF FontInit, RequestOK, ReadyAreFound
<1>4. DataIsHeldOnce
  BY DEF FontInit, DataIsHeldOnce
<1>5. RingOf(sFontDeleteLog, fontDeletions)
  <2> SUFFICES ASSUME NEW n \in 1..MAX_ENTRIES
               PROVE  sFontDeleteLog.mEntries[Back(sFontDeleteLog.mNextEntry, n)] =
                        IF n <= Len(fontDeletions)
                        THEN fontDeletions[Len(fontDeletions) + 1 - n] ELSE NoEntry
    BY DEF RingOf
  <2>1. sFontDeleteLog.mNextEntry = 0 /\ Back(0, n) \in 0..(MAX_ENTRIES - 1)
    BY <1>1 DEF FontInit, Back
  <2>2. Len(fontDeletions) = 0
    BY DEF FontInit
  <2> QED BY <2>1, <2>2 DEF FontInit
<1> QED BY <1>2, <1>3, <1>4, <1>5 DEF FontInv
(* A font or a namespace is deleted, or all are cleared.                    *)
LEMMA DeletionInv ==
  ASSUME FontInv, NEW fonts, NEW instances, NEW entry \in LogEntries,
         Erase(fonts, instances),
         AddEntry(entry) \/ UNCHANGED <<sFontDeleteLog, fontDeletions>>,
         \/ fontRequest = <<>> /\ fontRequest' = <<>>
         \/ fontRequest' = [n \in DOMAIN fontRequest |->
                              [fontRequest[n] EXCEPT !.cleared = TRUE]]
  PROVE  FontInv'
<1> FontTypes /\ ReadyAreFound /\ DataIsHeldOnce /\ RequestOK
    /\ RingOf(sFontDeleteLog, fontDeletions)
  BY DEF FontInv
<1>1. /\ DOMAIN sFontDataTable' \subseteq FontKeys
      /\ DOMAIN sBlobFontTable' \subseteq Instances
      /\ fontArcs' \in [FontKeys -> Int] /\ fontReady' \subseteq Instances
      /\ ReadyAreFound' /\ DataIsHeldOnce'
  BY EraseInv
<1>2. /\ RingOf(sFontDeleteLog, fontDeletions)'
      /\ fontDeletions' \in Seq(LogEntries)
      /\ sFontDeleteLog' \in
           [mEntries : [0..(MAX_ENTRIES - 1) -> LogEntries \cup {NoEntry}],
            mNextEntry : 0..(MAX_ENTRIES - 1)]
  <2>1. CASE AddEntry(entry)
    BY <2>1, AddEntryRing
  <2>2. CASE UNCHANGED <<sFontDeleteLog, fontDeletions>>
    BY <2>2 DEF FontTypes, RingOf
  <2> QED BY <2>1, <2>2
<1>3. /\ fontRequest' = <<>> \/ \E r \in FontRequests : fontRequest' = <<r>>
      /\ RequestOK'
  <2>1. CASE fontRequest' = <<>>
    BY <2>1 DEF RequestOK
  <2>2. CASE fontRequest # <<>> /\ fontRequest' # <<>>
    <3>1. /\ fontRequest = <<Request>> /\ Request \in FontRequests
      BY <2>2, RequestTypes
    <3> DEFINE r == [Request EXCEPT !.cleared = TRUE]
    <3>2. fontRequest' = <<r>>
      <4>1. fontRequest' = [n \in DOMAIN fontRequest |->
                              [fontRequest[n] EXCEPT !.cleared = TRUE]]
        BY <2>2
      <4>2. DOMAIN fontRequest = 1..1 /\ fontRequest[1] = Request
        BY <3>1
      <4>3. \A n \in 1..1 : n = 1
        OBVIOUS
      <4>4. \A n \in 1..1 : [fontRequest[n] EXCEPT !.cleared = TRUE] = r
        BY <4>2, <4>3
      <4> HIDE DEF r
      <4>5. fontRequest' = [n \in 1..1 |-> r]
        BY <4>1, <4>2, <4>4
      <4> QED BY <4>5
    <3>3. /\ r \in FontRequests /\ r.cleared /\ r.step = Request.step
          /\ r.fonts = Request.fonts /\ r.unscaled = Request.unscaled
      BY <3>1 DEF FontRequests
    <3>4. Request' = r
      BY <3>2 DEF Request
    <3> HIDE DEF r
    <3>5. RequestOK'
      BY <2>2, <3>3, <3>4 DEF RequestOK, NextFont
    <3> QED BY <3>2, <3>3, <3>5
  <2>3. CASE fontRequest = <<>>
    BY <2>1, <2>3
  <2> QED BY <2>1, <2>2, <2>3
<1> QED BY <1>1, <1>2, <1>3 DEF FontInv, FontTypes

(* The font that is asked for next is added.                                *)
LEMMA AddFontDataInv == ASSUME FontInv, AddFontData PROVE FontInv'
<1> FontTypes /\ ReadyAreFound /\ DataIsHeldOnce /\ RequestOK
    /\ RingOf(sFontDeleteLog, fontDeletions)
  BY DEF FontInv
<1> DEFINE f == InstanceFont[NextFont]
           r == [Request EXCEPT !.step = "AddBlobFont"]
<1>1. /\ fontRequest # <<>> /\ Request.step = "AddFontData"
      /\ fontRequest' = <<r>>
      /\ UNCHANGED <<sBlobFontTable, sFontDeleteLog, fontReady, fontDeletions>>
  BY DEF AddFontData, GoesTo
<1>2. /\ Request \in FontRequests /\ Request.fonts # <<>>
      /\ f \in FontKeys /\ f \in Request.unscaled
  BY <1>1, RequestTypes DEF RequestOK
<1>3. /\ r \in FontRequests /\ r.step = "AddBlobFont" /\ r.fonts = Request.fonts
      /\ r.unscaled = Request.unscaled /\ r.cleared = Request.cleared
  BY <1>2 DEF FontRequests
<1>4. Request' = r /\ NextFont' = NextFont
  BY <1>1, <1>3 DEF Request, NextFont
<1>5. DOMAIN sFontDataTable' = DOMAIN sFontDataTable \cup {f}
  BY DEF AddFontData
<1>6. fontArcs' = [fontArcs EXCEPT ![f] =
                     IF f \notin DOMAIN sFontDataTable /\ f \in RawFonts
                     THEN @ + 1 ELSE @]
  BY DEF AddFontData
<1> HIDE DEF f, r
<1>7. FontTypes'
  BY <1>1, <1>2, <1>3, <1>5, <1>6 DEF FontTypes
<1>8. RequestOK'
  <2>1. NextFont' = NextFont /\ f = InstanceFont[NextFont]
    BY <1>4 DEF f
  <2> QED BY <1>1, <1>2, <1>3, <1>4, <1>5, <2>1 DEF RequestOK
<1>9. ReadyAreFound'
  BY <1>1, <1>5 DEF ReadyAreFound
<1>10. DataIsHeldOnce'
  BY <1>2, <1>5, <1>6 DEF DataIsHeldOnce, FontTypes
<1>11. RingOf(sFontDeleteLog, fontDeletions)'
  BY <1>1 DEF RingOf
<1> QED BY <1>7, <1>8, <1>9, <1>10, <1>11 DEF FontInv

(* Its instance is added, and is ready if nothing was cleared.              *)
LEMMA AddBlobFontInv == ASSUME FontInv, AddBlobFont PROVE FontInv'
<1> FontTypes /\ ReadyAreFound /\ DataIsHeldOnce /\ RequestOK
    /\ RingOf(sFontDeleteLog, fontDeletions)
  BY DEF FontInv
<1> DEFINE i == NextFont
           r == [Request EXCEPT !.fonts = Tail(@), !.step = "HasFontData",
                                !.scaled = @ \cup {i}]
<1>1. /\ fontRequest # <<>> /\ Request.step = "AddBlobFont"
      /\ fontRequest' = <<r>>
      /\ UNCHANGED <<sFontDataTable, sFontDeleteLog, fontArcs, fontDeletions>>
      /\ fontReady' = IF Request.cleared THEN fontReady ELSE fontReady \cup {i}
      /\ DOMAIN sBlobFontTable' = DOMAIN sBlobFontTable \cup {i}
  BY DEF AddBlobFont
<1>2. /\ Request \in FontRequests /\ Request.fonts # <<>>
      /\ i \in Instances /\ InstanceFont[i] \in Request.unscaled
      /\ Tail(Request.fonts) \in Seq(Instances)
  BY <1>1, RequestTypes DEF RequestOK
<1>3. /\ r \in FontRequests /\ r.step = "HasFontData"
      /\ r.unscaled = Request.unscaled /\ r.cleared = Request.cleared
  <2>1. Request.scaled \cup {i} \in SUBSET Instances
    BY <1>2 DEF FontRequests
  <2> HIDE DEF i
  <2> QED BY <1>2, <2>1 DEF FontRequests
<1>4. Request' = r
  BY <1>1 DEF Request
<1> HIDE DEF i, r
<1>5. FontTypes'
  BY <1>1, <1>2, <1>3 DEF FontTypes
<1>6. RequestOK'
  BY <1>1, <1>3, <1>4 DEF RequestOK
<1>7. ReadyAreFound'
  BY <1>1, <1>2 DEF ReadyAreFound, RequestOK
<1>8. DataIsHeldOnce' /\ RingOf(sFontDeleteLog, fontDeletions)'
  BY <1>1 DEF DataIsHeldOnce, RingOf
<1> QED BY <1>5, <1>6, <1>7, <1>8 DEF FontInv

(* The other steps of a request.                                            *)
LEMMA RequestInv ==
  ASSUME FontInv,
         \/ \E i, j \in Instances : prepare_request(<<i, j>>)
         \/ EndRequest \/ SkipFont \/ HasFontData
  PROVE  FontInv'
<1> FontTypes /\ RequestOK
  BY DEF FontInv
<1>1. ASSUME NEW i \in Instances, NEW j \in Instances, prepare_request(<<i, j>>)
      PROVE  FontInv'
  <2> DEFINE fonts == <<i, j>>
             r == [fonts |-> fonts, step |-> "HasFontData",
                   unscaled |-> {}, scaled |-> {}, cleared |-> FALSE]
  <2>1. fontRequest' = <<r>>
    BY <1>1 DEF prepare_request
  <2>2. fonts \in Seq(Instances)
    OBVIOUS
  <2> HIDE DEF fonts
  <2>3. r \in FontRequests /\ r.step = "HasFontData" /\ r.unscaled = {}
    BY <2>2 DEF FontRequests
  <2>4. Request' = r
    BY <2>1 DEF Request
  <2> HIDE DEF r
  <2>5. RequestOK'
    BY <2>3, <2>4 DEF RequestOK
  <2> QED BY <1>1, <2>1, <2>3, <2>5, RequestStepInv DEF prepare_request
<1>2. CASE EndRequest
  <2>1. fontRequest' = <<>> /\ RequestOK'
    BY <1>2 DEF EndRequest, RequestOK
  <2>2. Request \in FontRequests
    BY <1>2, RequestTypes DEF EndRequest
  <2> QED BY <1>2, <2>1, <2>2, RequestStepInv DEF EndRequest
<1>3. CASE SkipFont
  <2> DEFINE r == [Request EXCEPT !.fonts = Tail(@), !.scaled = @ \cup {NextFont}]
  <2>1. /\ fontRequest # <<>> /\ Request.fonts # <<>> /\ fontRequest' = <<r>>
        /\ Request.step = "HasFontData"
    BY <1>3 DEF SkipFont
  <2>2. /\ Request \in FontRequests /\ NextFont \in Instances
        /\ Tail(Request.fonts) \in Seq(Instances)
    BY <2>1, RequestTypes
  <2>3. Request.scaled \cup {NextFont} \in SUBSET Instances
    BY <2>2 DEF FontRequests
  <2>4. /\ r \in FontRequests /\ r.step = Request.step
        /\ r.unscaled = Request.unscaled /\ r.cleared = Request.cleared
    BY <2>2, <2>3 DEF FontRequests
  <2>5. Request' = r
    BY <2>1 DEF Request
  <2> HIDE DEF r
  <2>6. RequestOK'
    BY <1>3, <2>1, <2>4, <2>5 DEF RequestOK, SkipFont
  <2> QED BY <1>3, <2>1, <2>4, <2>6, RequestStepInv DEF SkipFont
<1>4. CASE HasFontData
  <2> DEFINE f == InstanceFont[NextFont]
             has == f \in Request.unscaled \/ f \in DOMAIN sFontDataTable
             step == IF has THEN "AddBlobFont" ELSE "AddFontData"
             r == [Request EXCEPT !.unscaled = @ \cup {f}, !.step = step]
  <2>1. /\ fontRequest # <<>> /\ Request.fonts # <<>> /\ fontRequest' = <<r>>
        /\ Request.step = "HasFontData"
    BY <1>4 DEF HasFontData
  <2>2. Request \in FontRequests /\ f \in FontKeys
    BY <2>1, RequestTypes
  <2>3. /\ Request.unscaled \cup {f} \in SUBSET FontKeys
        /\ step \in {"AddBlobFont", "AddFontData"}
    BY <2>2 DEF FontRequests
  <2>4. has <=> step = "AddBlobFont"
    OBVIOUS
  <2> HIDE DEF f, step
  <2>5. /\ r \in FontRequests /\ r.step = step /\ r.fonts = Request.fonts
        /\ r.unscaled = Request.unscaled \cup {f} /\ r.cleared = Request.cleared
    BY <2>2, <2>3 DEF FontRequests
  <2>6. Request' = r /\ NextFont' = NextFont
    BY <2>1, <2>5 DEF Request, NextFont
  <2> HIDE DEF r
  <2>7. f = InstanceFont[NextFont]
    BY DEF f
  <2>8. RequestOK'
    BY <1>4, <2>1, <2>3, <2>4, <2>5, <2>6, <2>7 DEF RequestOK, HasFontData
  <2> QED BY <1>4, <2>1, <2>5, <2>8, RequestStepInv DEF HasFontData
<1> QED BY <1>1, <1>2, <1>3, <1>4

(* Every step of the handlers, the rasterizers and the render thread keeps  *)
(* the fonts in step.                                                       *)
LEMMA FontNextInv == FontInv /\ [FontNext]_fontVars => FontInv'
<1> SUFFICES ASSUME FontInv, [FontNext]_fontVars PROVE FontInv'
  OBVIOUS
<1>0. FontTypes
  BY DEF FontInv
<1>1. ASSUME NEW f \in FontKeys, delete_font(f) PROVE FontInv'
  <2>1. f \in LogEntries
    BY DEF LogEntries
  <2> QED BY <1>1, <2>1, DeletionInv DEF delete_font
<1>2. ASSUME NEW f \in FontKeys, clear_namespace(f.mNamespace) PROVE FontInv'
  <2>1. Key(f.mNamespace, 0) \in LogEntries
    BY DEF LogEntries
  <2> QED BY <1>2, <2>1, DeletionInv DEF clear_namespace
<1>3. ASSUME NEW i \in Instances, delete_font_instance(i) PROVE FontInv'
  <2>1. ALL \in LogEntries
    BY DEF LogEntries
  <2> QED BY <1>3, <2>1, DeletionInv DEF delete_font_instance
<1>4. CASE ClearAllBlobImageResources
  <2>1. ALL \in LogEntries
    BY DEF LogEntries
  <2> QED BY <1>4, <2>1, DeletionInv DEF ClearAllBlobImageResources
<1>5. ASSUME NEW i \in Instances, GetScaledFont(i) PROVE FontInv'
  <2>1. /\ DOMAIN sFontDataTable' = DOMAIN sFontDataTable
        /\ DOMAIN sBlobFontTable' = DOMAIN sBlobFontTable
        /\ UNCHANGED <<sFontDeleteLog, fontArcs, fontRequest, fontReady,
                       fontDeletions>>
    BY <1>5 DEF GetScaledFont
  <2>2. FontTypes'
    BY <1>0, <2>1 DEF FontTypes
  <2>3. RequestOK'
    BY <2>1 DEF FontInv, RequestOK, Request, NextFont
  <2>4. ReadyAreFound' /\ DataIsHeldOnce' /\ RingOf(sFontDeleteLog, fontDeletions)'
    BY <2>1 DEF FontInv, ReadyAreFound, DataIsHeldOnce, RingOf
  <2> QED BY <2>2, <2>3, <2>4 DEF FontInv
<1>6. CASE UNCHANGED fontVars
  BY <1>6 DEF fontVars, FontInv, FontTypes, RequestOK, Request, NextFont,
     ReadyAreFound, DataIsHeldOnce, RingOf
<1> QED BY <1>1, <1>2, <1>3, <1>4, <1>5, <1>6, RequestInv, AddFontDataInv,
           AddBlobFontInv DEF FontNext

(* It says what is checked of the fonts.                                    *)
LEMMA FontInvConsistent == FontInv => FontsConsistent
  BY RingExplains DEF FontInv, FontsConsistent

-----------------------------------------------------------------------------
(* The files of shader programs                                             *)

Versions == {1, 2}
Gap == <<"gap", "">>
Cells == {<<"version", v>> : v \in Versions} \cup {Gap}
           \cup {<<"hash", b.data>> : b \in Binaries}
           \cup {<<"data", c>> : c \in Chunks}
Hashes(d) == {<<"hash", b.data>> : b \in {p \in Binaries : p.digest = d}}

Tasks == [task : Nat, digest : Digests, bytes : Seq(Cells), pos : Nat,
          open : BOOLEAN]
Loadeds == [digest : Digests, data : Seq(Chunks), version : Versions]
Runs == [number : Nat, version : Versions, saves : Nat, loaded : BOOLEAN]

(* Whoever writes to the file of a name has a program of that name.         *)
IsFile(d, file) ==
  file \in Seq(Cells) /\ (Len(file) > 1 => file[2] \in Hashes(d) \cup {Gap})
FilesOK ==
  /\ DOMAIN cacheFiles = Digests
  /\ \A d \in Digests :
       cacheFiles[d] # <<>> => /\ cacheFiles[d] = << cacheFiles[d][1] >>
                               /\ IsFile(d, cacheFiles[d][1])
(* An open file is the one that its name has now: removing the directory    *)
(* and a new run take the open writers away.                                *)
WritersOK ==
  /\ cacheWriters \subseteq Tasks
  /\ \A t \in cacheWriters :
       /\ t.pos < Len(t.bytes) /\ Len(t.bytes) > 1
       /\ t.bytes[2] \in Hashes(t.digest)
       /\ t.open => cacheFiles[t.digest] # <<>>
(* What was loaded is not tried again.                                      *)
LoadsOK ==
  /\ cacheRun \in Runs /\ cacheLoaded \in Seq(Loadeds)
  /\ cached_shader_filenames \subseteq Digests
  /\ cacheStartup \subseteq Digests
  /\ cacheListed \subseteq Digests
  /\ ~cacheRun.loaded => /\ cacheLoaded = <<>> /\ cacheStartup = {}
                         /\ cached_shader_filenames = {}
  /\ \A n \in DOMAIN cacheLoaded :
       cacheLoaded[n].digest \notin cached_shader_filenames

ProgramInv == FilesOK /\ WritersOK /\ LoadsOK /\ ProgramsConsistent

-----------------------------------------------------------------------------
(* The bytes to write start with a version and the hash of the program.     *)
LEMMA FileBytesHaveTheirHash ==
  ASSUME ProgramsAssumption, NEW b \in Binaries, cacheRun \in Runs
  PROVE  /\ FileBytes(b) \in Seq(Cells) /\ Len(FileBytes(b)) > 1
         /\ FileBytes(b)[2] \in Hashes(b.digest)
<1>1. b.data \in Seq(Chunks) /\ b.digest \in Digests
  BY DEF ProgramsAssumption
<1>2. << <<"version", cacheRun.version>>, <<"hash", b.data>> >> \in Seq(Cells)
  <2>1. <<"version", cacheRun.version>> \in Cells BY DEF Cells, Runs
  <2>2. <<"hash", b.data>> \in Cells BY DEF Cells
  <2> QED BY <2>1, <2>2
<1>3. [n \in DOMAIN b.data |-> <<"data", b.data[n]>>] \in Seq(Cells)
  <2>1. \A n \in 1..Len(b.data) : <<"data", b.data[n]>> \in Cells
    BY <1>1 DEF Cells
  <2>2. DOMAIN b.data = 1..Len(b.data) /\ Len(b.data) \in Nat BY <1>1
  <2> QED BY <2>1, <2>2
<1>4. <<"hash", b.data>> \in Hashes(b.digest) BY DEF Hashes
<1> DEFINE head == << <<"version", cacheRun.version>>, <<"hash", b.data>> >>
           tail == [n \in DOMAIN b.data |-> <<"data", b.data[n]>>]
<1>5. head \in Seq(Cells) /\ tail \in Seq(Cells) /\ Len(head) = 2
      /\ head[2] = <<"hash", b.data>>
  BY <1>2, <1>3
<1>6. FileBytes(b) = head \o tail BY DEF FileBytes
<1> HIDE DEF head, tail
<1>7. /\ head \o tail \in Seq(Cells)
      /\ Len(head \o tail) = Len(head) + Len(tail)
      /\ \A n \in 1..Len(head) + Len(tail) : (head \o tail)[n] =
           IF n <= Len(head) THEN head[n] ELSE tail[n - Len(head)]
  BY <1>5, ConcatProperties
<1>8. Len(tail) \in Nat BY <1>5
<1> DEFINE m == Len(head) + Len(tail)
<1>9. m \in Nat /\ m > 1 /\ 2 \in 1..m BY <1>5, <1>8
<1>10. (head \o tail)[2] = head[2]
  <2>1. 2 <= Len(head) BY <1>5
  <2> QED BY <1>7, <1>9, <2>1
<1>11. Len(FileBytes(b)) > 1 BY <1>6, <1>7, <1>9
<1> QED BY <1>4, <1>5, <1>6, <1>7, <1>10, <1>11

(* At first there are no files.                                             *)
LEMMA ProgramInitInv == ASSUME ProgramsAssumption, ProgramInit PROVE ProgramInv
BY DEF ProgramInit, ProgramInv, FilesOK, WritersOK, LoadsOK, ProgramsConsistent,
       LoadedAreWhole, LoadedOnce, Run, Runs, Versions

(* A new run has no writers and nothing loaded.                             *)
LEMMA RestartInv == ASSUME ProgramInv, Restart PROVE ProgramInv'
<1> USE DEF ProgramInv, Restart
<1>1. FilesOK' BY DEF FilesOK, IsFile
<1>2. WritersOK' BY DEF WritersOK
<1>3. LoadsOK' BY DEF LoadsOK, Run, Runs, Versions
<1>4. ProgramsConsistent'
  BY DEF ProgramsConsistent, LoadedAreWhole, LoadedOnce
<1> QED BY <1>1, <1>2, <1>3, <1>4

(* A save adds a writer, whose bytes have the hash of its program.          *)
LEMMA SaveInv ==
  ASSUME ProgramsAssumption, ProgramInv, NEW b \in Binaries, save_shaders_to_disk(b)
  PROVE  ProgramInv'
<1> USE DEF ProgramInv, save_shaders_to_disk, diskVars, loadVars
<1>1. FilesOK' BY DEF FilesOK, IsFile
<1>2. WritersOK'
  <2> DEFINE t == [task |-> cacheRun.saves, digest |-> b.digest,
                   bytes |-> FileBytes(b), pos |-> 0, open |-> FALSE]
  <2>1. /\ FileBytes(b) \in Seq(Cells) /\ Len(FileBytes(b)) > 1
        /\ FileBytes(b)[2] \in Hashes(b.digest)
    BY FileBytesHaveTheirHash DEF LoadsOK
  <2>2. cacheRun.saves \in Nat /\ b.digest \in Digests
    BY DEF LoadsOK, Runs, ProgramsAssumption
  <2>3. t \in Tasks BY <2>1, <2>2 DEF Tasks
  <2>4. /\ t.pos < Len(t.bytes) /\ Len(t.bytes) > 1
        /\ t.bytes[2] \in Hashes(t.digest) /\ ~t.open
    BY <2>1
  <2>5. cacheWriters' = cacheWriters \cup {t} OBVIOUS
  <2> HIDE DEF t
  <2> QED BY <2>3, <2>4, <2>5 DEF WritersOK
<1>3. LoadsOK' BY DEF LoadsOK, Runs
<1>4. ProgramsConsistent'
  BY DEF ProgramsConsistent, LoadedAreWhole, LoadedOnce, LoadsOK, Runs
<1> QED BY <1>1, <1>2, <1>3, <1>4

(* Creating a file makes an empty one of the writer's name.                 *)
LEMMA CreateInv ==
  ASSUME ProgramInv, NEW t \in cacheWriters, CreateFile(t) PROVE ProgramInv'
<1> USE DEF ProgramInv, CreateFile, loadVars
<1>1. t \in Tasks BY DEF WritersOK
<1>2. FilesOK'
  <2>1. \A d \in Digests :
          cacheFiles'[d] = IF d = t.digest THEN << <<>> >> ELSE cacheFiles[d]
    BY DEF FilesOK
  <2>2. IsFile(t.digest, <<>>) BY DEF IsFile
  <2> QED BY <2>1, <2>2 DEF FilesOK, IsFile
<1>3. WritersOK'
  <2>1. [t EXCEPT !.open = TRUE] \in Tasks BY <1>1 DEF Tasks
  <2>2. \A d \in Digests : cacheFiles[d] # <<>> => cacheFiles'[d] # <<>>
    BY DEF FilesOK
  <2>3. cacheFiles'[t.digest] # <<>> BY <1>1 DEF FilesOK, Tasks
  <2> DEFINE u == [t EXCEPT !.open = TRUE]
  <2>4. /\ u.pos = t.pos /\ u.bytes = t.bytes /\ u.digest = t.digest /\ u.open
    BY <1>1 DEF Tasks
  <2>5. cacheWriters' = (cacheWriters \ {t}) \cup {u} OBVIOUS
  <2> HIDE DEF u
  <2> QED BY <2>1, <2>2, <2>3, <2>4, <2>5 DEF WritersOK, u, Tasks
<1>4. LoadsOK' BY DEF LoadsOK
<1>5. ProgramsConsistent'
  BY DEF ProgramsConsistent, LoadedAreWhole, LoadedOnce
<1> QED BY <1>2, <1>3, <1>4, <1>5

(* Writing adds the next byte of the program, behind those of others.       *)
LEMMA WriteInv ==
  ASSUME ProgramInv, NEW t \in cacheWriters, WriteNext(t) PROVE ProgramInv'
<1> USE DEF ProgramInv, loadVars
<1> DEFINE d == t.digest
           file == cacheFiles[d][1]
           next == t.pos + 1
           size == IF Len(file) > next THEN Len(file) ELSE next
           cell(n) == IF n = next THEN t.bytes[next]
                      ELSE IF n \in DOMAIN file THEN file[n] ELSE <<"gap", "">>
           written == [n \in 1..size |-> cell(n)]
           u == [t EXCEPT !.pos = next]
<1>1. /\ t \in Tasks /\ d \in Digests /\ t.open
      /\ t.bytes \in Seq(Cells) /\ next \in 1..Len(t.bytes)
      /\ t.bytes[2] \in Hashes(d)
  <2>1. /\ t \in Tasks /\ t.open
        /\ t.pos < Len(t.bytes) /\ t.bytes[2] \in Hashes(d)
    BY DEF WritersOK, WriteNext
  <2>2. t.bytes \in Seq(Cells) /\ t.pos \in Nat /\ d \in Digests
    BY <2>1 DEF Tasks
  <2>3. Len(t.bytes) \in Nat BY <2>2
  <2> QED BY <2>1, <2>2, <2>3
<1>2. /\ file \in Seq(Cells)
      /\ Len(file) > 1 => file[2] \in Hashes(d) \cup {Gap}
  BY <1>1 DEF WritersOK, FilesOK, IsFile
<1>3. /\ cacheFiles' = [cacheFiles EXCEPT ![d] = <<written>>]
      /\ cacheWriters' = (cacheWriters \ {t}) \cup
           (IF next = Len(t.bytes) THEN {} ELSE {u})
      /\ UNCHANGED <<cacheListed, cacheDir, cacheRun, loadVars>>
  BY DEF WriteNext
<1>4. IsFile(d, written)
  <2>1. size \in Nat \ {0} /\ Len(file) \in Nat /\ DOMAIN file = 1..Len(file)
        /\ next \in Nat
    BY <1>1, <1>2
  <2>2. /\ t.bytes[next] \in Cells /\ Gap \in Cells
        /\ \A n \in DOMAIN file : file[n] \in Cells
    <3>1. Gap \in Cells BY DEF Cells
    <3>2. next \in 1..Len(t.bytes) /\ t.bytes \in Seq(Cells) BY <1>1
    <3> HIDE DEF file, next
    <3> QED BY <1>2, <3>1, <3>2
  <2> HIDE DEF file, next, d
  <2>3. \A n \in 1..size : cell(n) \in Cells BY <2>2 DEF Gap
  <2>4. cell(2) \in Hashes(d) \cup {Gap} 
    <3>1. CASE next = 2 BY <1>1, <3>1
    <3>2. CASE next # 2 /\ 2 \in DOMAIN file
      <4>1. Len(file) > 1 BY <2>1, <3>2
      <4> QED BY <1>2, <3>2, <4>1
    <3>3. CASE next # 2 /\ 2 \notin DOMAIN file BY <3>3 DEF Gap
    <3> QED BY <3>1, <3>2, <3>3
  <2> HIDE DEF size, cell
  <2>5. written \in Seq(Cells) /\ Len(written) = size BY <2>1, <2>3
  <2>6. size > 1 => written[2] = cell(2) BY <2>1
  <2> QED BY <2>4, <2>5, <2>6 DEF IsFile
<1> HIDE DEF written
<1>5. FilesOK' BY <1>1, <1>3, <1>4 DEF FilesOK, IsFile
<1>6. WritersOK'
  <2>1. \A e \in Digests : cacheFiles[e] # <<>> => cacheFiles'[e] # <<>>
    BY <1>1, <1>3 DEF FilesOK
  <2>2. /\ u \in Tasks /\ u.pos = next /\ u.bytes = t.bytes
        /\ u.digest = t.digest /\ u.open = t.open
    <3>1. next \in Nat BY <1>1
    <3> HIDE DEF next
    <3> QED BY <1>1, <3>1 DEF Tasks
  <2>3. next # Len(t.bytes) => next < Len(t.bytes) BY <1>1
  <2> HIDE DEF u, next
  <2> QED BY <1>3, <2>1, <2>2, <2>3 DEF WritersOK, Tasks
<1>7. LoadsOK' BY <1>3 DEF LoadsOK
<1>8. ProgramsConsistent'
  BY <1>3 DEF ProgramsConsistent, LoadedAreWhole, LoadedOnce
<1> QED BY <1>5, <1>6, <1>7, <1>8

(* A writer gives up, the list is written or the directory is removed: no   *)
(* file gets a cell.                                                        *)
LEMMA LeaveInv ==
  ASSUME ProgramInv,
         \/ \E t \in cacheWriters : WriteFails(t)
         \/ set_startup_shaders \/ remove_disk_cache
         \/ try_load_startup_shaders_from_disk
         \/ UNCHANGED programVars
  PROVE  ProgramInv'
<1> USE DEF ProgramInv, diskVars, loadVars
<1>1. CASE \E t \in cacheWriters : WriteFails(t)
  BY <1>1 DEF WriteFails, FilesOK, IsFile, WritersOK, LoadsOK,
              ProgramsConsistent, LoadedAreWhole, LoadedOnce
<1>2. CASE set_startup_shaders
  BY <1>2 DEF set_startup_shaders, FilesOK, IsFile, WritersOK, LoadsOK,
              ProgramsConsistent, LoadedAreWhole, LoadedOnce
<1>3. CASE remove_disk_cache
  BY <1>3 DEF remove_disk_cache, FilesOK, IsFile, WritersOK, LoadsOK,
              ProgramsConsistent, LoadedAreWhole, LoadedOnce
<1>4. CASE try_load_startup_shaders_from_disk
  <2> USE <1>4 DEF try_load_startup_shaders_from_disk
  <2>1. FilesOK' BY DEF FilesOK, IsFile
  <2>2. WritersOK' BY DEF WritersOK
  <2>3. cacheLoaded' = <<>> /\ cacheRun' \in Runs /\ cacheRun'.loaded
    BY DEF LoadsOK, Runs
  <2>4. DOMAIN cacheLoaded' = {} /\ cacheLoaded' \in Seq(Loadeds) BY <2>3
  <2>5. LoadsOK' BY <2>3, <2>4 DEF LoadsOK
  <2>6. ProgramsConsistent'
    BY DEF ProgramsConsistent, LoadedAreWhole, LoadedOnce, LoadsOK, Runs
  <2> QED BY <2>1, <2>2, <2>5, <2>6
<1>5. CASE UNCHANGED programVars
  BY <1>5 DEF programVars, FilesOK, IsFile, WritersOK, LoadsOK,
              ProgramsConsistent, LoadedAreWhole, LoadedOnce
<1> QED BY <1>1, <1>2, <1>3, <1>4, <1>5

-----------------------------------------------------------------------------
(* A file that is accepted is a program of its name: its data has the hash  *)
(* that was written before it.                                              *)
LEMMA AcceptedFilesAreWhole ==
  ASSUME ProgramsAssumption, NEW d \in Digests, NEW file, IsFile(d, file),
         Accepted(file)
  PROVE  \E b \in Binaries : b.digest = d /\ b.data = Data(file)
<1>1. Len(file) > 2 /\ file[2] = <<"hash", Data(file)>>
  BY DEF Accepted, HEADER
<1>2. Len(file) \in Nat BY DEF IsFile
<1>3. file[2] \in Hashes(d) \cup {Gap} BY <1>1, <1>2 DEF IsFile
<1> DEFINE data == Data(file)
<1> HIDE DEF data
<1>4. file[2] = <<"hash", data>> BY <1>1 DEF data
<1>5. \E b \in Binaries : b.digest = d /\ b.data = data
  BY <1>3, <1>4 DEF Hashes, Gap
<1> QED BY <1>5 DEF data

(* What is loaded is whole, and is not loaded again.                        *)
LEMMA LoadInv ==
  ASSUME ProgramsAssumption, ProgramInv, cacheRun.loaded, NEW d \in Digests, Loads(d),
         d \notin cached_shader_filenames',
         cached_shader_filenames' \subseteq cached_shader_filenames,
         cacheStartup' \subseteq cacheStartup,
         UNCHANGED <<diskVars, cacheWriters, cacheRun>>
  PROVE  ProgramInv'
<1> USE DEF ProgramInv, diskVars
<1>1. FilesOK' BY DEF FilesOK, IsFile
<1>2. WritersOK' BY DEF WritersOK
<1>3. CASE cacheLoaded' = cacheLoaded
  BY <1>1, <1>2, <1>3 DEF LoadsOK, ProgramsConsistent, LoadedAreWhole,
                          LoadedOnce
<1>4. CASE cacheLoaded' # cacheLoaded
  <2> DEFINE file == cacheFiles[d][1]
             x == [digest |-> d, data |-> Data(file), version |-> file[1][2]]
  <2>1. /\ d \in cached_shader_filenames /\ cacheFiles[d] # <<>>
        /\ Accepted(file) /\ cacheLoaded' = Append(cacheLoaded, x)
    BY <1>4 DEF Loads
  <2>2. IsFile(d, file) BY <2>1 DEF FilesOK
  <2>3. PICK b \in Binaries : b.digest = d /\ b.data = Data(file)
    BY <2>1, <2>2, AcceptedFilesAreWhole
  <2>4. x.digest = d /\ x.data = b.data /\ x.version = cacheRun.version
    BY <2>1, <2>3 DEF Accepted
  <2>5. b \in [digest : Digests, data : Seq(Chunks)]
    BY DEF ProgramsAssumption
  <2>6. x \in Loadeds
    BY <2>3, <2>4, <2>5 DEF Loadeds, LoadsOK, Runs
  <2>7. [digest |-> x.digest, data |-> x.data] \in Binaries
    <3>1. b = [digest |-> b.digest, data |-> b.data] BY <2>5
    <3> QED BY <2>3, <2>4, <3>1
  <2> HIDE DEF x
  <2>8. /\ cacheLoaded' \in Seq(Loadeds)
        /\ Len(cacheLoaded') = Len(cacheLoaded) + 1
        /\ \A n \in 1..Len(cacheLoaded) : cacheLoaded'[n] = cacheLoaded[n]
        /\ cacheLoaded'[Len(cacheLoaded) + 1] = x
        /\ DOMAIN cacheLoaded = 1..Len(cacheLoaded)
        /\ Len(cacheLoaded) \in Nat
    BY <2>1, <2>6 DEF LoadsOK
  <2>9. /\ DOMAIN cacheLoaded' = 1..Len(cacheLoaded) + 1
        /\ \A n \in DOMAIN cacheLoaded' :
             \/ n = Len(cacheLoaded) + 1 /\ cacheLoaded'[n] = x
             \/ n \in DOMAIN cacheLoaded /\ cacheLoaded'[n] = cacheLoaded[n]
    BY <2>8
  <2>10. LoadsOK'
    BY <2>4, <2>8, <2>9 DEF LoadsOK
  <2>11. LoadedAreWhole'
    BY <2>4, <2>7, <2>9 DEF LoadedAreWhole, ProgramsConsistent
  <2>12. LoadedOnce'
    BY <2>1, <2>4, <2>9 DEF LoadedOnce, ProgramsConsistent, LoadsOK
  <2> QED BY <1>1, <1>2, <2>10, <2>11, <2>12 DEF ProgramsConsistent
<1> QED BY <1>3, <1>4

(* Every step of the programs keeps the invariant.                          *)
LEMMA ProgramNextInv ==
  ASSUME ProgramsAssumption, ProgramInv, [ProgramNext]_programVars
  PROVE  ProgramInv'
<1>1. CASE Restart BY <1>1, RestartInv
<1>2. CASE \E b \in Binaries : save_shaders_to_disk(b) BY <1>2, SaveInv
<1>3. CASE \E t \in cacheWriters :
             CreateFile(t) \/ WriteNext(t) \/ WriteFails(t)
  BY <1>3, CreateInv, WriteInv, LeaveInv
<1>4. CASE \/ set_startup_shaders \/ remove_disk_cache
           \/ try_load_startup_shaders_from_disk \/ UNCHANGED programVars
  BY <1>4, LeaveInv
<1>5. ASSUME NEW d \in cacheStartup, LoadStartup(d) PROVE ProgramInv'
  <2>1. d \in Digests /\ cacheRun.loaded BY DEF ProgramInv, LoadsOK, Runs
  <2>2. /\ Loads(d) /\ UNCHANGED <<diskVars, cacheWriters, cacheRun>>
        /\ d \notin cached_shader_filenames'
        /\ cached_shader_filenames' \subseteq cached_shader_filenames
        /\ cacheStartup' \subseteq cacheStartup
    BY <1>5 DEF LoadStartup, Tried
  <2> QED BY <2>1, <2>2, LoadInv
<1>6. ASSUME NEW d \in Digests, try_load_shader_from_disk(d) PROVE ProgramInv'
  <2>1. cacheRun.loaded
    BY <1>6 DEF try_load_shader_from_disk, ProgramInv, LoadsOK
  <2> QED BY <2>1, <1>6, LoadInv DEF try_load_shader_from_disk, Tried
<1> QED BY <1>1, <1>2, <1>3, <1>4, <1>5, <1>6 DEF ProgramNext

-----------------------------------------------------------------------------
(* Display lists.  The inductive invariant says what the builder and the     *)
(* list have to do with each other between two operations: the ids of views  *)
(* and clips, the place of the item, its scopes, its leaf and its group.     *)

Views == {g.view : g \in ClientItems}
Regions == SUBSET Pixels
Places == [space : Nat, chain : Nat]
Pushes == [space : Nat, chain : Nat, clip : Regions, shadow : BOOLEAN]
ScrollIds == UNION {[S -> Nat] : S \in SUBSET Views}
Members == [mCurrentSpaceAndClipChain : Places, mScrollIds : ScrollIds,
            mClipChainLeaf : Seq(Regions),
            mSuspended : Seq([current : Places, leaf : Seq(Regions)]),
            mCurrentCacheSlot : Seq(ClientItems), shadow : BOOLEAN]
WrLists == [spaces : Seq(Views), chains : Seq(Regions), items : Seq(Pushes),
            group : Seq(Pushes), grouping : BOOLEAN]
Shows == [view : Views, fixed : Regions, moved : Regions]

(* A view has one space, which the builder knows.                           *)
SpacesKnown(m, w) ==
  /\ DOMAIN m.mScrollIds = {w.spaces[i] : i \in 1..Len(w.spaces)}
  /\ \A i \in 1..Len(w.spaces) : m.mScrollIds[w.spaces[i]] = i

(* The place c is one of a view and a region.                               *)
IsPlace(w, c, view, region) ==
  /\ c \in Places
  /\ c.space \in 1..Len(w.spaces) /\ w.spaces[c.space] = view
  /\ c.chain \in 1..Len(w.chains) /\ w.chains[c.chain] = region

KnownIn(w, items) ==
  \A i \in 1..Len(items) : /\ items[i].space \in 1..Len(w.spaces)
                           /\ items[i].chain \in 1..Len(w.chains)

Sound(m, w) ==
  /\ m \in Members /\ w \in WrLists
  /\ SpacesKnown(m, w)
  /\ KnownIn(w, w.items) /\ KnownIn(w, w.group)

Askings == [regions : Seq(Regions), from : Nat, out : Seq(Shows)]
IsAskingOf(g, s) ==
  /\ s \in Askings
  /\ s.from <= Len(s.regions) /\ 1 <= Len(s.regions)
  /\ s.regions[1] = g.clip

(* Within shadows the leaf is a chain of its own.                           *)
RegionIn(g, s, i) ==
  IF s.from # 0 /\ s.from <= i THEN s.regions[i] \cap LeafOf(g)
                               ELSE s.regions[i]

LeafIsHeld(g, s, m, w) ==
  IF s.from # 0 /\ g.leaf # <<>>
  THEN /\ m.mClipChainLeaf = <<>>
       /\ Len(m.mSuspended) = 1 /\ m.mSuspended[1].leaf = g.leaf
       /\ IsPlace(w, m.mSuspended[1].current, g.view, s.regions[s.from])
  ELSE m.mClipChainLeaf = g.leaf /\ m.mSuspended = <<>>

ScopesAreHeld(g, s, w, scopes) ==
  /\ scopes \in Seq(Places) /\ Len(scopes) = Len(s.regions)
  /\ scopes[1] = RootScrollNodeWithChain
  /\ \A i \in 2..Len(scopes) : IsPlace(w, scopes[i], g.view,
                                       RegionIn(g, s, i - 1))

(* What is asked for has been pushed, into the group if there is one: then  *)
(* the item has defined no clip yet.                                        *)
HasPushed(g, s, m, w, asked) ==
  IF m.mCurrentCacheSlot = <<>>
  THEN /\ ~w.grouping /\ w.group = <<>>
       /\ WrShown(w, w.items) = asked \o s.out
  ELSE /\ m.mCurrentCacheSlot = <<g>> /\ w.grouping
       /\ WrShown(w, w.items) = asked /\ WrShown(w, w.group) = s.out
       /\ s.regions = <<g.clip>> /\ (g.leaf = <<>> \/ s.from = 0)
       /\ \A i \in 1..Len(w.group) :
            /\ w.group[i].space = m.mCurrentSpaceAndClipChain.space
            /\ w.group[i].chain = m.mCurrentSpaceAndClipChain.chain

Underway(g, s, m, w, scopes, asked) ==
  /\ Sound(m, w)
  /\ IsPlace(w, m.mCurrentSpaceAndClipChain, g.view,
             RegionIn(g, s, Len(s.regions)))
  /\ m.shadow = (s.from # 0)
  /\ LeafIsHeld(g, s, m, w)
  /\ ScopesAreHeld(g, s, w, scopes)
  /\ HasPushed(g, s, m, w, asked)

AtRest(m, w, scopes, asked) ==
  /\ Sound(m, w)
  /\ m = [Builder EXCEPT !.mScrollIds = m.mScrollIds]
  /\ ~w.grouping /\ w.group = <<>> /\ scopes = <<>>
  /\ WrShown(w, w.items) = asked

(* What items show that have all the same space and chain.                  *)
ShownAt(view, region, items) ==
  [i \in 1..Len(items) |-> Shown(view, region, items[i].clip, items[i].shadow)]

(* A group that is kept shows what its item asks for wherever its space and *)
(* chain are those of the item.                                             *)
Keeps(g, group, cached) ==
  /\ group \in Seq(Pushes)
  /\ cached \in Seq(Places) /\ Len(cached) <= 1
  /\ cached # <<>> =>
       /\ \A i \in 1..Len(group) : /\ group[i].space = cached[1].space
                                   /\ group[i].chain = cached[1].chain
       /\ ShownAt(g.view, g.clip, group) = Asked(g)

(* What an item has asked for when its operation n is next.                 *)
SoFar(g, n) == Asking(g)[IF n <= Len(g.ops) THEN n - 1 ELSE Len(g.ops)]

ItemIsUnderway ==
  /\ listShown # <<>>
  /\ listNext <= EndOf(Showing)
  /\ listNext = EndOf(Showing) => dl.mCurrentCacheSlot = <<>>
  /\ Underway(Showing, SoFar(Showing, listNext), dl, wr, listScopes, listAsked)

GroupsAreKept ==
  /\ wrRetained \in [ClientItems -> Seq(Pushes)]
  /\ itemCache \in [ClientItems -> Seq(Places)]
  /\ \A g \in ClientItems : Keeps(g, wrRetained[g], itemCache[g])

ListInv ==
  /\ listShown \in Seq(ClientItems) /\ listAsked \in Seq(Shows)
  /\ listNext \in Nat
  /\ GroupsAreKept
  /\ IF listNext = 0 THEN AtRest(dl, wr, listScopes, listAsked)
                     ELSE ItemIsUnderway

-----------------------------------------------------------------------------
(* The current region of what is asked for, and the chain of a region: with *)
(* the leaf while shadows are open, when it is not merged into rectangles.  *)
Here(s) == s.regions[Len(s.regions)]
ChainRegion(g, s, region) ==
  IF s.from # 0 THEN region \cap LeafOf(g) ELSE region
Merged(g, s, clip) == IF s.from # 0 THEN clip ELSE clip \cap LeafOf(g)

(* t asks for one item more than s.                                         *)
AsksFor(g, s, t, region, clip) ==
  /\ t.regions = s.regions /\ t.from = s.from
  /\ t.out = Append(s.out,
               Shown(g.view, region \cap LeafOf(g), clip, s.from # 0))

AsksNoMore(s, t) == t.regions = s.regions /\ t.from = s.from /\ t.out = s.out

(* The current place with another chain.                                    *)
PlaceAt(m, chain) ==
  [space |-> m.mCurrentSpaceAndClipChain.space, chain |-> chain]

(* The members after a scope is closed.                                     *)
HasLeft(m, scopes, leaf) ==
  [m EXCEPT !.mCurrentSpaceAndClipChain = Last(scopes), !.mClipChainLeaf = leaf]

-----------------------------------------------------------------------------
(* What has been asked for                                                  *)

(* What the assumption says of an item.                                     *)
LEMMA ItemsAreTyped ==
  ASSUME ListsAssumption, NEW g \in ClientItems
  PROVE  /\ g.clip \in Regions /\ g.view \in Views
         /\ g.leaf \in Seq(Regions) /\ Len(g.leaf) <= 1
         /\ g.ops \in Seq(Operations) /\ WellNested(g)
         /\ LeafOf(g) \in Regions
         /\ g.leaf # <<>> => g.leaf = <<LeafOf(g)>>
<1>1. /\ g.clip \in Regions /\ g.view \in Views
      /\ g.leaf \in Seq(Regions) /\ Len(g.leaf) <= 1
      /\ g.ops \in Seq(Operations) /\ WellNested(g)
  BY DEF ListsAssumption, Regions, Views
<1> HIDE DEF WellNested, Operations
<1>2. LeafOf(g) \in Regions /\ (g.leaf # <<>> => g.leaf = <<LeafOf(g)>>)
  BY <1>1 DEF LeafOf, Regions
<1> QED BY <1>1, <1>2

(* The shapes of the operations.                                            *)
LEMMA OperationsAreTyped ==
  ASSUME NEW op \in Operations
  PROVE  /\ op[1] \in {"push", "clip", "backdrop", "unclip", "shadow",
                       "unshadow"}
         /\ op[1] \in {"push", "clip", "backdrop"} => op[2] \in Regions
         /\ op[1] = "backdrop" => op[3] \in Regions
  BY DEF Operations, Regions

IsAsking(g, f, N) ==
  f = [n \in 0..N |->
         IF n = 0 THEN AskStart(g) ELSE AskStep(g, f[n - 1], g.ops[n])]

(* What an item asks for is defined after any number of its operations.     *)
LEMMA AskingExists ==
  ASSUME NEW g, NEW m \in Nat
  PROVE  \E f : IsAsking(g, f, m)
<1> DEFINE S == {k \in Nat : \E f : IsAsking(g, f, k)}
           start == AskStart(g)
           Step(s, n) == AskStep(g, s, g.ops[n])
<1>1. 0 \in S
  <2> DEFINE f == [n \in 0..0 |-> start]
  <2> HIDE DEF start
  <2>1. f = [n \in 0..0 |-> IF n = 0 THEN start ELSE Step(f[n - 1], n)]
    OBVIOUS
  <2> QED BY <2>1 DEF IsAsking, start
<1>2. ASSUME NEW k \in Nat, k \in S PROVE k + 1 \in S
  <2>1. PICK f : IsAsking(g, f, k)
    BY <1>2
  <2>2. f = [n \in 0..k |-> IF n = 0 THEN start ELSE Step(f[n - 1], n)]
    BY <2>1 DEF IsAsking
  <2> HIDE DEF Step, start
  <2>3. f[0] = start /\ \A n \in 1..k : f[n] = Step(f[n - 1], n)
    BY <2>2
  <2> DEFINE h == [n \in 0..k + 1 |->
                     IF n = k + 1 THEN Step(f[k], k + 1) ELSE f[n]]
  <2>4. (\A n \in 0..k : h[n] = f[n]) /\ h[k + 1] = Step(f[k], k + 1)
    OBVIOUS
  <2>5. h = [n \in 0..k + 1 |-> h[n]]
    OBVIOUS
  <2> HIDE DEF h
  <2>6. \A n \in 0..k + 1 : h[n] = IF n = 0 THEN start ELSE Step(h[n - 1], n)
    <3> TAKE n \in 0..k + 1
    <3>1. CASE n = 0
      BY <2>3, <2>4, <3>1
    <3>2. CASE n \in 1..k
      <4>1. n - 1 \in 0..k /\ n \in 0..k /\ n # 0
        BY <3>2
      <4> QED BY <2>3, <2>4, <3>2, <4>1
    <3>3. CASE n = k + 1
      <4>1. n - 1 = k /\ k \in 0..k /\ n # 0
        BY <3>3
      <4> QED BY <2>4, <3>3, <4>1
    <3> QED BY <3>1, <3>2, <3>3
  <2>7. h = [n \in 0..k + 1 |-> IF n = 0 THEN start ELSE Step(h[n - 1], n)]
    BY <2>5, <2>6
  <2>8. IsAsking(g, h, k + 1)
    BY <2>7 DEF IsAsking, Step, start
  <2> QED BY <2>8
<1>3. \A k \in Nat : k \in S => k + 1 \in S
  BY <1>2
<1> HIDE DEF S
<1>4. m \in S
  BY <1>1, <1>3, Induct
<1> QED BY <1>4 DEF S

(* Each operation goes on from what was asked for before it.                *)
LEMMA AskingSteps ==
  ASSUME NEW g, NEW N \in Nat, Len(g.ops) = N
  PROVE  /\ Asking(g)[0] = AskStart(g)
         /\ \A n \in 1..N :
              Asking(g)[n] = AskStep(g, Asking(g)[n - 1], g.ops[n])
<1> DEFINE f == CHOOSE h : IsAsking(g, h, Len(g.ops))
           start == AskStart(g)
           Step(s, n) == AskStep(g, s, g.ops[n])
<1>1. Asking(g) = f
  BY Zenon DEF Asking, IsAsking
<1>2. IsAsking(g, f, N)
  BY AskingExists
<1> HIDE DEF f
<1>3. f = [n \in 0..N |-> IF n = 0 THEN start ELSE Step(f[n - 1], n)]
  BY <1>2 DEF IsAsking
<1> HIDE DEF start, Step
<1>4. f[0] = start /\ \A n \in 1..N : f[n] = Step(f[n - 1], n)
  BY <1>3
<1> QED BY <1>1, <1>4 DEF start, Step

Nested(s, op) ==
  /\ op[1] = "unclip" => Len(s.regions) > 1 /\ Len(s.regions) > s.from
  /\ op[1] = "unshadow" => Len(s.regions) = s.from

(* A step of what has been asked for, one operation after the other.        *)
LEMMA AskPush ==
  ASSUME ListsAssumption, NEW g \in ClientItems, NEW s, IsAskingOf(g, s),
         NEW op \in Operations,
         op[1] = "push" \/ op[1] = "backdrop", NEW t, t = AskStep(g, s, op)
  PROVE  /\ IsAskingOf(g, t)
         /\ op[1] = "push" => AsksFor(g, s, t, Here(s), op[2])
         /\ op[1] = "backdrop" =>
              IF Merged(g, s, op[2]) = {} THEN AsksNoMore(s, t)
              ELSE AsksFor(g, s, t, op[3] \cap Here(s), op[2])
<1> DEFINE shadow == s.from # 0
           Ask(region) == [s EXCEPT !.out =
             Append(@, Shown(g.view, region \cap LeafOf(g), op[2], shadow))]
<1>1. ASSUME NEW region \in Regions
      PROVE  /\ Ask(region).out = Append(s.out,
                   Shown(g.view, region \cap LeafOf(g), op[2], shadow))
             /\ Ask(region).regions = s.regions /\ Ask(region).from = s.from
             /\ AsksFor(g, s, Ask(region), region, op[2])
             /\ IsAskingOf(g, Ask(region))
  <2> DEFINE x == Shown(g.view, region \cap LeafOf(g), op[2], shadow)
  <2>1. x \in Shows
    BY ItemsAreTyped, OperationsAreTyped DEF Shown, Shows, Regions
  <2> HIDE DEF x
  <2>2. Append(s.out, x) \in Seq(Shows)
    BY <2>1 DEF IsAskingOf, Askings
  <2> QED BY <2>2 DEF IsAskingOf, Askings, AsksFor, x
<1>2. Last(s.regions) = Here(s) /\ Last(s.regions) \in Regions
  BY DEF Last, Here, IsAskingOf, Askings
<1>3. CASE op[1] = "push"
  <2>1. t = Ask(Last(s.regions))
    BY <1>3 DEF AskStep
  <2> HIDE DEF Ask
  <2> QED BY <1>1, <1>2, <1>3, <2>1
<1>4. CASE op[1] = "backdrop"
  <2>1. op[3] \cap Last(s.regions) \in Regions
    BY <1>2 DEF Regions
  <2>2. t = IF Merged(g, s, op[2]) = {} THEN s
            ELSE Ask(op[3] \cap Last(s.regions))
    BY <1>4 DEF AskStep, Merged
  <2>3. AsksNoMore(s, s)
    BY DEF AsksNoMore
  <2> HIDE DEF Ask
  <2> QED BY <1>1, <1>2, <1>4, <2>1, <2>2, <2>3
<1> QED BY <1>3, <1>4

(* A scope that opens adds its region, one that closes takes it off.        *)
LEMMA AskScope ==
  ASSUME ListsAssumption, NEW g \in ClientItems, NEW s, IsAskingOf(g, s),
         NEW op \in Operations, Nested(s, op), NEW t, t = AskStep(g, s, op)
  PROVE  /\ op[1] = "clip" =>
              /\ IsAskingOf(g, t) /\ t.from = s.from /\ t.out = s.out
              /\ t.regions = Append(s.regions,
                               op[2] \cap s.regions[Len(s.regions)])
         /\ op[1] = "unclip" =>
              /\ IsAskingOf(g, t) /\ t.from = s.from /\ t.out = s.out
              /\ t.from < Len(s.regions)
              /\ Len(t.regions) = Len(s.regions) - 1
              /\ \A i \in 1..Len(t.regions) : t.regions[i] = s.regions[i]
<1>1. ASSUME op[1] = "clip"
      PROVE  /\ IsAskingOf(g, t) /\ t.from = s.from /\ t.out = s.out
             /\ t.regions = Append(s.regions,
                              op[2] \cap s.regions[Len(s.regions)])
  <2> DEFINE region == op[2] \cap s.regions[Len(s.regions)]
             regions == Append(s.regions, region)
  <2>1. region \in Regions
    BY <1>1, OperationsAreTyped DEF Regions
  <2>2. t = [s EXCEPT !.regions = regions]
    BY <1>1 DEF AskStep, Last
  <2> HIDE DEF region
  <2>3. /\ regions \in Seq(Regions) /\ Len(regions) = Len(s.regions) + 1
        /\ regions[1] = s.regions[1]
    BY <2>1 DEF IsAskingOf, Askings
  <2> HIDE DEF regions
  <2>4. /\ t.regions = regions
        /\ IsAskingOf(g, t)
        /\ t.from = s.from
        /\ t.out = s.out
    BY <2>2, <2>3 DEF IsAskingOf, Askings
  <2> QED BY <2>4 DEF regions, region
<1>2. ASSUME op[1] = "unclip"
      PROVE  /\ IsAskingOf(g, t) /\ t.from = s.from /\ t.out = s.out
             /\ t.from < Len(s.regions)
             /\ Len(t.regions) = Len(s.regions) - 1
             /\ \A i \in 1..Len(t.regions) : t.regions[i] = s.regions[i]
  <2> DEFINE regions == SubSeq(s.regions, 1, Len(s.regions) - 1)
  <2>1. t = [s EXCEPT !.regions = regions]
    BY <1>2 DEF AskStep, Front
  <2>2. /\ s.regions \in Seq(Regions)
        /\ Len(s.regions) > 1
        /\ Len(s.regions) > s.from
    BY <1>2 DEF Nested, IsAskingOf, Askings
  <2>3. /\ regions \in Seq(Regions) /\ Len(regions) = Len(s.regions) - 1
        /\ \A i \in 1..Len(regions) : regions[i] = s.regions[i]
    BY <2>2
  <2> HIDE DEF regions
  <2>4. t.regions = regions /\ t.from = s.from /\ t.out = s.out /\ t \in Askings
    BY <2>1, <2>3 DEF IsAskingOf, Askings
  <2>5. s.regions[1] = g.clip /\ s.from \in Nat
    BY DEF IsAskingOf, Askings
  <2>6. regions[1] = g.clip /\ s.from <= Len(regions) /\ 1 <= Len(regions)
    BY <2>2, <2>3, <2>5
  <2> QED BY <2>2, <2>3, <2>4, <2>6 DEF IsAskingOf
<1> QED BY <1>1, <1>2

(* The first shadow is noted with its scope, until the shadows are popped.  *)
LEMMA AskShadow ==
  ASSUME ListsAssumption, NEW g \in ClientItems, NEW s, IsAskingOf(g, s),
         NEW op \in Operations, Nested(s, op), NEW t, t = AskStep(g, s, op)
  PROVE  /\ op[1] = "shadow" =>
              /\ IsAskingOf(g, t) /\ t.out = s.out /\ t.regions = s.regions
              /\ t.from = IF s.from # 0 THEN s.from ELSE Len(s.regions)
         /\ op[1] = "unshadow" =>
              /\ IsAskingOf(g, t) /\ t.out = s.out /\ t.regions = s.regions
              /\ t.from = 0 /\ s.from = Len(s.regions)
<1> DEFINE n == Len(s.regions)
           o == 0
<1>1. s \in Askings /\ n \in Nat /\ s.from <= n /\ 1 <= n
  BY DEF IsAskingOf, Askings
<1> HIDE DEF n, o
<1>2. CASE op[1] = "shadow"
  <2>1. t = IF s.from # 0 THEN s ELSE [s EXCEPT !.from = n]
    BY <1>2 DEF AskStep, n
  <2>2. /\ t \in Askings /\ t.out = s.out /\ t.regions = s.regions
        /\ t.from = IF s.from # 0 THEN s.from ELSE n
    BY <1>1, <2>1 DEF Askings
  <2> QED BY <1>1, <1>2, <2>2 DEF n, IsAskingOf
<1>3. CASE op[1] = "unshadow"
  <2>1. t = [s EXCEPT !.from = o]
    BY <1>3 DEF AskStep, o
  <2>2. o \in Nat /\ o <= n
    BY <1>1 DEF o
  <2>3. t \in Askings /\ t.out = s.out /\ t.regions = s.regions /\ t.from = o
    BY <1>1, <2>1, <2>2 DEF Askings
  <2> QED BY <1>1, <1>3, <2>2, <2>3 DEF n, o, Nested, IsAskingOf
<1> QED BY <1>2, <1>3

(* Every operation leads to what an item can have asked for.                *)
LEMMA AskKeepsType ==
  ASSUME ListsAssumption, NEW g \in ClientItems, NEW s, IsAskingOf(g, s),
         NEW op \in Operations, Nested(s, op)
  PROVE  IsAskingOf(g, AskStep(g, s, op))
<1>1. op[1] \in {"push", "clip", "backdrop", "unclip", "shadow", "unshadow"}
  BY OperationsAreTyped
<1> QED BY <1>1, AskPush, AskScope, AskShadow

(* What an item asks for, at each of its operations and in the end.         *)
LEMMA AskingIsTyped ==
  ASSUME ListsAssumption, NEW g \in ClientItems, NEW N, N = Len(g.ops)
  PROVE  /\ N \in Nat
         /\ \A n \in 0..N : IsAskingOf(g, Asking(g)[n])
         /\ \A n \in 1..N : g.ops[n] \in Operations
                            /\ Nested(Asking(g)[n - 1], g.ops[n])
         /\ Len(Asking(g)[N].regions) = 1 /\ Asking(g)[N].from = 0
<1> DEFINE f == Asking(g)
<1>1. N \in Nat /\ \A n \in 1..N : g.ops[n] \in Operations
  <2> HIDE DEF Operations
  <2> QED BY ItemsAreTyped
<1>2. WellNested(g)
  BY ItemsAreTyped
<1>3. \A n \in 1..N : Nested(f[n - 1], g.ops[n])
  BY <1>2, Zenon DEF WellNested, Nested
<1>4. Len(f[N].regions) = 1 /\ f[N].from = 0
  BY <1>2, Zenon DEF WellNested
<1>5. f[0] = AskStart(g) /\ \A n \in 1..N : f[n] =
              AskStep(g, f[n - 1], g.ops[n])
  BY <1>1, AskingSteps
<1> HIDE DEF f
<1> DEFINE S == {n \in Nat : n <= N => IsAskingOf(g, f[n])}
<1>6. 0 \in S
  <2>1. g.clip \in Regions
    BY ItemsAreTyped
  <2>2. IsAskingOf(g, AskStart(g))
    <3> DEFINE none == <<>>
               regions == <<g.clip>>
               o == 0
    <3>1. none \in Seq(Shows) /\ regions \in Seq(Regions) /\ Len(regions) = 1
          /\ regions[1] = g.clip /\ o \in Nat /\ o <= 1
      BY <2>1
    <3>2. AskStart(g) = [regions |-> regions, from |-> o, out |-> none]
      BY DEF AskStart
    <3> HIDE DEF none, regions, o
    <3> DEFINE start == AskStart(g)
    <3>3. start = [regions |-> regions, from |-> o, out |-> none]
      BY <3>2
    <3> HIDE DEF start
    <3>4. start \in Askings /\ start.regions = regions /\ start.from = o
      BY <3>1, <3>3 DEF Askings
    <3>5. /\ start.from <= Len(start.regions) /\ 1 <= Len(start.regions)
          /\ start.regions[1] = g.clip
      <4>1. start.from <= 1 /\ Len(start.regions) = 1
        BY <3>1, <3>4
      <4>2. start.regions[1] = g.clip
        BY Zenon, <3>1, <3>4
      <4> QED BY <4>1, <4>2
    <3>6. IsAskingOf(g, start)
      BY <3>4, <3>5 DEF IsAskingOf
    <3> QED BY <3>6 DEF start
  <2> QED BY <1>5, <2>2
<1>7. ASSUME NEW n \in Nat, n \in S PROVE n + 1 \in S
  <2> SUFFICES ASSUME n + 1 <= N PROVE IsAskingOf(g, f[n + 1])
    OBVIOUS
  <2>1. n + 1 \in 1..N /\ (n + 1) - 1 = n
    BY <1>1
  <2>2. IsAskingOf(g, f[n])
    BY <1>1, <1>7
  <2>3. f[n + 1] = AskStep(g, f[n], g.ops[n + 1])
    BY <1>5, <2>1
  <2>4. Nested(f[n], g.ops[n + 1]) /\ g.ops[n + 1] \in Operations
    BY <1>1, <1>3, <2>1
  <2> QED BY <2>2, <2>3, <2>4, AskKeepsType
<1> HIDE DEF S
<1>8. Nat \subseteq S
  BY <1>6, <1>7, Induct
<1>9. \A n \in 0..N : IsAskingOf(g, f[n])
  BY <1>1, <1>8 DEF S
<1> QED BY <1>1, <1>3, <1>4, <1>9 DEF f

-----------------------------------------------------------------------------
(* What is shown                                                            *)

(* An item of known ids is shown in its space, within its chain.            *)
LEMMA ShownIsTyped ==
  ASSUME NEW w \in WrLists, NEW x \in Pushes,
         x.space \in 1..Len(w.spaces), x.chain \in 1..Len(w.chains)
  PROVE  /\ ShownOf(w, x) \in Shows
         /\ ShownOf(w, x) =
              Shown(w.spaces[x.space], w.chains[x.chain], x.clip, x.shadow)
<1>1. /\ w.spaces \in Seq(Views) /\ w.chains \in Seq(Regions)
      /\ x.clip \in Regions /\ x.shadow \in BOOLEAN
  BY DEF WrLists, Pushes
<1>2. SpaceOf(w, x.space) = w.spaces[x.space]
  BY <1>1 DEF SpaceOf
<1>3. RegionOf(w, x.chain) = w.chains[x.chain]
  BY <1>1 DEF RegionOf, ROOT
<1>4. w.spaces[x.space] \in Views /\ w.chains[x.chain] \in Regions
  BY <1>1
<1>5. ASSUME NEW v \in Views, NEW r \in Regions
      PROVE  Shown(v, r, x.clip, x.shadow) \in Shows
  BY <1>1 DEF Shown, Shows, Regions
<1> QED BY <1>2, <1>3, <1>4, <1>5 DEF ShownOf

(* What a list of known ids shows.                                          *)
LEMMA ShownList ==
  ASSUME NEW w \in WrLists, NEW a \in Seq(Pushes), KnownIn(w, a)
  PROVE  /\ WrShown(w, a) \in Seq(Shows) /\ Len(WrShown(w, a)) = Len(a)
         /\ \A n \in 1..Len(a) : WrShown(w, a)[n] = ShownOf(w, a[n])
<1>1. \A n \in 1..Len(a) : a[n] \in Pushes /\ ShownOf(w, a[n]) \in Shows
  BY ShownIsTyped DEF KnownIn
<1>2. WrShown(w, a) = [n \in 1..Len(a) |-> ShownOf(w, a[n])]
  BY DEF WrShown
<1> QED BY <1>1, <1>2

(* One more item is shown behind the others.                                *)
LEMMA ShownAppend ==
  ASSUME NEW w \in WrLists, NEW a \in Seq(Pushes), KnownIn(w, a),
         NEW x \in Pushes,
         x.space \in 1..Len(w.spaces), x.chain \in 1..Len(w.chains)
  PROVE  /\ KnownIn(w, Append(a, x))
         /\ WrShown(w, Append(a, x)) = Append(WrShown(w, a), ShownOf(w, x))
<1> DEFINE b == Append(a, x)
<1>1. /\ b \in Seq(Pushes) /\ Len(b) = Len(a) + 1
      /\ \A n \in 1..Len(a) : b[n] = a[n] /\ b[Len(a) + 1] = x
  OBVIOUS
<1>2. b[Len(a) + 1] = x
  OBVIOUS
<1> HIDE DEF b
<1>3. KnownIn(w, b)
  <2> SUFFICES ASSUME NEW i \in 1..Len(b)
               PROVE  /\ b[i].space \in 1..Len(w.spaces)
                      /\ b[i].chain \in 1..Len(w.chains)
    BY DEF KnownIn
  <2>1. i \in 1..Len(a) \/ i = Len(a) + 1
    BY <1>1
  <2> QED BY <1>1, <1>2, <2>1 DEF KnownIn
<1>4. /\ WrShown(w, a) \in Seq(Shows) /\ Len(WrShown(w, a)) = Len(a)
      /\ \A n \in 1..Len(a) : WrShown(w, a)[n] = ShownOf(w, a[n])
  BY ShownList
<1>5. /\ WrShown(w, b) \in Seq(Shows) /\ Len(WrShown(w, b)) = Len(b)
      /\ \A n \in 1..Len(b) : WrShown(w, b)[n] = ShownOf(w, b[n])
  BY <1>1, <1>3, ShownList
<1> DEFINE y == ShownOf(w, x)
           sa == WrShown(w, a)
           sb == WrShown(w, b)
<1>6. y \in Shows
  BY ShownIsTyped
<1>7. /\ sb[Len(a) + 1] = y
      /\ \A n \in 1..Len(a) : sb[n] = sa[n]
  BY <1>1, <1>2, <1>4, <1>5
<1> HIDE DEF y, sa, sb
<1>8. sa \in Seq(Shows) /\ sb \in Seq(Shows) /\ Len(sa) = Len(a)
      /\ Len(sb) = Len(a) + 1
  BY <1>1, <1>4, <1>5 DEF sa, sb
<1>9. sb = Append(sa, y)
  BY <1>6, <1>7, <1>8
<1> QED BY <1>3, <1>9 DEF b, sa, sb, y

(* Two lists, one behind the other, show what each of them shows.           *)
LEMMA ShownConcat ==
  ASSUME NEW w \in WrLists, NEW a \in Seq(Pushes), NEW c \in Seq(Pushes),
         KnownIn(w, a), KnownIn(w, c)
  PROVE  /\ KnownIn(w, a \o c)
         /\ WrShown(w, a \o c) = WrShown(w, a) \o WrShown(w, c)
<1> DEFINE b == a \o c
<1>1. /\ b \in Seq(Pushes) /\ Len(b) = Len(a) + Len(c)
      /\ \A n \in 1..Len(a) : b[n] = a[n]
      /\ \A n \in Len(a) + 1..Len(b) : b[n] = c[n - Len(a)]
  OBVIOUS
<1> HIDE DEF b
<1>2. KnownIn(w, b)
  <2> SUFFICES ASSUME NEW i \in 1..Len(b)
               PROVE  /\ b[i].space \in 1..Len(w.spaces)
                      /\ b[i].chain \in 1..Len(w.chains)
    BY DEF KnownIn
  <2>1. CASE i \in 1..Len(a)
    BY <1>1, <2>1 DEF KnownIn
  <2>2. CASE i \notin 1..Len(a)
    <3>1. i \in Len(a) + 1..Len(b) /\ i - Len(a) \in 1..Len(c)
      BY <1>1, <2>2
    <3> QED BY <1>1, <3>1 DEF KnownIn
  <2> QED BY <2>1, <2>2
<1> DEFINE sa == WrShown(w, a)
           sb == WrShown(w, b)
           sc == WrShown(w, c)
<1>3. /\ sa \in Seq(Shows) /\ Len(sa) = Len(a)
      /\ \A n \in 1..Len(a) : sa[n] = ShownOf(w, a[n])
  BY ShownList
<1>4. /\ sb \in Seq(Shows) /\ Len(sb) = Len(b)
      /\ \A n \in 1..Len(b) : sb[n] = ShownOf(w, b[n])
  BY <1>1, <1>2, ShownList
<1>5. /\ sc \in Seq(Shows) /\ Len(sc) = Len(c)
      /\ \A n \in 1..Len(c) : sc[n] = ShownOf(w, c[n])
  BY ShownList
<1> HIDE DEF sa, sb, sc
<1>6. \A n \in 1..Len(sa) : sb[n] = sa[n]
  BY <1>1, <1>3, <1>4
<1>7. \A n \in Len(sa) + 1..Len(sb) : sb[n] = sc[n - Len(sa)]
  <2> TAKE n \in Len(sa) + 1..Len(sb)
  <2>1. n \in 1..Len(b) /\ n \in Len(a) + 1..Len(b) /\ n - Len(a) \in 1..Len(c)
    BY <1>1, <1>3, <1>4
  <2> QED BY <1>1, <1>3, <1>4, <1>5, <2>1
<1>8. sb = sa \o sc
  <2>1. Len(sb) = Len(sa) + Len(sc)
    BY <1>1, <1>3, <1>4, <1>5
  <2> DEFINE cat == sa \o sc
  <2>2. /\ cat \in Seq(Shows) /\ Len(cat) = Len(sa) + Len(sc)
        /\ \A n \in 1..Len(sa) : cat[n] = sa[n]
        /\ \A n \in Len(sa) + 1..Len(cat) : cat[n] = sc[n - Len(sa)]
    <3>1. sa \in Seq(Shows) /\ sc \in Seq(Shows)
      BY <1>3, <1>5
    <3>2. /\ cat \in Seq(Shows) /\ Len(cat) = Len(sa) + Len(sc)
          /\ \A i \in 1..Len(sa) + Len(sc) :
               cat[i] = IF i <= Len(sa) THEN sa[i] ELSE sc[i - Len(sa)]
      BY <3>1, ConcatProperties
    <3>3. Len(sa) \in Nat /\ Len(sc) \in Nat
      BY <3>1
    <3> HIDE DEF cat
    <3>4. \A n \in 1..Len(sa) : cat[n] = sa[n]
      BY <3>2, <3>3
    <3>5. \A n \in Len(sa) + 1..Len(cat) : cat[n] = sc[n - Len(sa)]
      BY <3>2, <3>3
    <3> QED BY <3>2, <3>4, <3>5
  <2> HIDE DEF cat
  <2>3. Len(sb) = Len(cat) /\ Len(sa) \in Nat /\ Len(cat) \in Nat
    BY <1>3, <2>1, <2>2
  <2>4. \A n \in 1..Len(sb) : sb[n] = cat[n]
    <3> TAKE n \in 1..Len(sb)
    <3>1. n \in 1..Len(sa) \/ n \in Len(sa) + 1..Len(sb)
      BY <2>3
    <3> QED BY <1>6, <1>7, <2>2, <2>3, <3>1
  <2>5. sb = cat
    BY <1>4, <2>2, <2>3, <2>4, SeqEqual
  <2> QED BY <2>5 DEF cat
<1> QED BY <1>2, <1>8 DEF b, sa, sb, sc

(* A list that has grown: the ids it had mean what they meant.              *)
Grows(w, v) ==
  /\ Len(w.spaces) <= Len(v.spaces) /\ Len(w.chains) <= Len(v.chains)
  /\ \A i \in 1..Len(w.spaces) : v.spaces[i] = w.spaces[i]
  /\ \A i \in 1..Len(w.chains) : v.chains[i] = w.chains[i]

(* A place keeps its view and region while ids are added.                   *)
LEMMA GrownPlaces ==
  ASSUME NEW w \in WrLists, NEW v \in WrLists, Grows(w, v), NEW c, NEW view,
         NEW region, IsPlace(w, c, view, region)
  PROVE  IsPlace(v, c, view, region)
<1>1. /\ Len(w.spaces) \in Nat /\ Len(v.spaces) \in Nat
      /\ Len(w.chains) \in Nat /\ Len(v.chains) \in Nat
  BY DEF WrLists
<1> QED BY <1>1 DEF Grows, IsPlace, Places

(* And items show the same.                                                 *)
LEMMA GrownItems ==
  ASSUME NEW w \in WrLists, NEW v \in WrLists, Grows(w, v),
         NEW a \in Seq(Pushes), KnownIn(w, a)
  PROVE  KnownIn(v, a) /\ WrShown(v, a) = WrShown(w, a)
<1>1. /\ Len(w.spaces) \in Nat /\ Len(v.spaces) \in Nat
      /\ Len(w.chains) \in Nat /\ Len(v.chains) \in Nat
  BY DEF WrLists
<1>2. KnownIn(v, a)
  <2> SUFFICES ASSUME NEW i \in 1..Len(a)
               PROVE  /\ a[i].space \in 1..Len(v.spaces)
                      /\ a[i].chain \in 1..Len(v.chains)
    BY DEF KnownIn
  <2>1. /\ a[i].space \in 1..Len(w.spaces)
        /\ a[i].chain \in 1..Len(w.chains)
    BY DEF KnownIn
  <2>2. Len(w.spaces) <= Len(v.spaces) /\ Len(w.chains) <= Len(v.chains)
    BY DEF Grows
  <2> QED BY <1>1, <2>1, <2>2
<1>3. \A n \in 1..Len(a) : ShownOf(v, a[n]) = ShownOf(w, a[n])
  <2> TAKE n \in 1..Len(a)
  <2>1. a[n] \in Pushes /\ a[n].space \in 1..Len(w.spaces)
        /\ a[n].chain \in 1..Len(w.chains)
    BY DEF KnownIn
  <2>2. a[n].space \in 1..Len(v.spaces) /\ a[n].chain \in 1..Len(v.chains)
    BY <1>2 DEF KnownIn
  <2> QED BY <2>1, <2>2, ShownIsTyped DEF Grows
<1>4. /\ WrShown(w, a) = [n \in 1..Len(a) |-> ShownOf(w, a[n])]
      /\ WrShown(v, a) = [n \in 1..Len(a) |-> ShownOf(v, a[n])]
  BY DEF WrShown
<1> QED BY <1>2, <1>3, <1>4

-----------------------------------------------------------------------------
(* The builder's operations                                                 *)

(* The slot is occupied just while WebRender collects a group.              *)
Grouped(m, w) ==
  IF m.mCurrentCacheSlot = <<>> THEN ~w.grouping /\ w.group = <<>>
                                ELSE w.grouping

(* Defining a clip flushes the group.                                       *)
Flushed(w, region) ==
  [spaces |-> w.spaces, chains |-> Append(w.chains, region),
   items |-> w.items \o w.group, group |-> <<>>, grouping |-> FALSE]

(* DefineClipChain ends the group and adds the chain.                       *)
LEMMA DefineFlushes ==
  ASSUME NEW m \in Members, NEW w \in WrLists, Grouped(m, w), NEW clip,
         NEW region,
         region = clip \cap RegionOf(w, m.mCurrentSpaceAndClipChain.chain)
  PROVE  DefineClipChain(<<m, w>>, clip) =
           << [m EXCEPT !.mCurrentCacheSlot = <<>>], Flushed(w, region) >>
<1> DEFINE none == <<>>
           n == [m EXCEPT !.mCurrentCacheSlot = none]
           chains == Append(w.chains, region)
           no == FALSE
           items == w.items \o w.group
<1>1. w.items \in Seq(Pushes) /\ w.group \in Seq(Pushes)
  BY DEF WrLists
<1>2. w.group = none => items = w.items
  BY <1>1
<1>3. w = [spaces |-> w.spaces, chains |-> w.chains, items |-> w.items,
           group |-> w.group, grouping |-> w.grouping]
      /\ w.grouping \in BOOLEAN
  BY DEF WrLists
<1> DEFINE b == Defining(<<m, w>>)
<1>4. DefineClipChain(<<m, w>>, clip) =
        << b[1], [b[2] EXCEPT !.chains = Append(b[2].chains, region)] >>
  BY DEF DefineClipChain
<1> DEFINE flushed == [spaces |-> w.spaces, chains |-> chains, items |-> items,
                       group |-> none, grouping |-> no]
<1>7. Flushed(w, region) = flushed
  BY DEF Flushed
<1>8. chains = Append(w.chains, region)
  OBVIOUS
<1> HIDE DEF chains, b
<1>5. CASE m.mCurrentCacheSlot = none
  <2>1. b = <<m, w>>
    BY <1>5 DEF b, Defining, CancelGroup
  <2>2. n = m
    BY <1>5 DEF Members
  <2>3. w.group = none /\ w.grouping = no
    BY <1>3, <1>5 DEF Grouped
  <2> HIDE DEF none, no, items
  <2>4. [w EXCEPT !.chains = chains] = flushed
    BY <1>2, <1>3, <2>3
  <2> HIDE DEF n, flushed
  <2>5. DefineClipChain(<<m, w>>, clip) = <<m, [w EXCEPT !.chains = chains]>>
    BY <1>4, <1>8, <2>1
  <2>6. DefineClipChain(<<m, w>>, clip) = <<n, Flushed(w, region)>>
    BY <1>7, <2>2, <2>4, <2>5
  <2> QED BY <2>6 DEF n, none
<1>6. CASE m.mCurrentCacheSlot # none
  <2>1. b = << n, WrEndGroup(w) >>
    BY <1>6 DEF b, Defining, CancelGroup
  <2>2. WrEndGroup(w) = [spaces |-> w.spaces, chains |-> w.chains,
                         items |-> items, group |-> none, grouping |-> no]
    <3>1. WrEndGroup(w) = [w EXCEPT !.grouping = no, !.group = none,
                                    !.items = items]
      BY DEF WrEndGroup
    <3> HIDE DEF none, no, items
    <3> QED BY <1>3, <3>1
  <2> DEFINE e == WrEndGroup(w)
  <2>5. e.chains = w.chains
    BY <2>2
  <2> HIDE DEF none, no, items
  <2>3. [e EXCEPT !.chains = chains] = flushed
    BY <2>2
  <2> HIDE DEF n, flushed, e
  <2>6. DefineClipChain(<<m, w>>, clip) = <<n, [e EXCEPT !.chains = chains]>>
    BY <1>4, <1>8, <2>1, <2>5 DEF e
  <2>7. DefineClipChain(<<m, w>>, clip) = <<n, Flushed(w, region)>>
    BY <1>7, <2>3, <2>6
  <2> QED BY <2>7 DEF n, none
<1> QED BY <1>5, <1>6

IsFlushed(m, w, region, v) ==
  /\ v \in WrLists /\ Grows(w, v) /\ Sound(m, v) /\ v.spaces = w.spaces
  /\ ~v.grouping /\ v.group = <<>> /\ v.items = w.items \o w.group
  /\ Len(v.chains) = Len(w.chains) + 1 /\ v.chains[Len(v.chains)] = region

(* The list that is flushed has the items of the group and one more chain.  *)
LEMMA FlushedGrows ==
  ASSUME NEW m \in Members, NEW w \in WrLists, Sound(m, w),
         NEW region \in Regions, NEW v, v = Flushed(w, region)
  PROVE  IsFlushed(m, w, region, v)
<1> DEFINE none == <<>>
           no == FALSE
           items == w.items \o w.group
           chains == Append(w.chains, region)
<1>1. /\ w.spaces \in Seq(Views) /\ w.chains \in Seq(Regions)
      /\ w.items \in Seq(Pushes) /\ w.group \in Seq(Pushes)
  BY DEF WrLists
<1>2. /\ chains \in Seq(Regions) /\ Len(chains) = Len(w.chains) + 1
      /\ \A i \in 1..Len(w.chains) : chains[i] = w.chains[i]
      /\ chains[Len(w.chains) + 1] = region
  BY <1>1
<1>3. items \in Seq(Pushes) /\ none \in Seq(Pushes) /\ no \in BOOLEAN
  BY <1>1
<1>4. v = [spaces |-> w.spaces, chains |-> chains, items |-> items,
           group |-> none, grouping |-> no]
  BY DEF Flushed
<1>5. KnownIn(w, items)
  BY <1>1, ShownConcat DEF Sound
<1>6. none = <<>> /\ no = FALSE /\ Len(none) = 0
  OBVIOUS
<1>7. items = w.items \o w.group
  OBVIOUS
<1> HIDE DEF none, no, items, chains
<1>8. /\ v \in WrLists /\ v.spaces = w.spaces /\ v.chains = chains
      /\ v.items = items /\ v.group = none /\ v.grouping = no
  BY <1>1, <1>2, <1>3, <1>4 DEF WrLists
<1>9. Len(w.spaces) \in Nat /\ Len(w.chains) \in Nat
  BY <1>1
<1>10. Grows(w, v)
  BY <1>2, <1>8, <1>9 DEF Grows
<1>11. KnownIn(v, items)
  BY <1>3, <1>5, <1>8, <1>10, GrownItems
<1>12. Sound(m, v)
  BY <1>6, <1>8, <1>11 DEF Sound, SpacesKnown, KnownIn
<1> QED BY <1>2, <1>6, <1>7, <1>8, <1>10, <1>12 DEF IsFlushed

(* Ids that grow leave the leaf and the scopes as they were.                *)
LEMMA GrownLeaf ==
  ASSUME NEW g, NEW s, NEW m, NEW n, NEW w \in WrLists, NEW v \in WrLists,
         Grows(w, v), LeafIsHeld(g, s, m, w),
         n.mClipChainLeaf = m.mClipChainLeaf, n.mSuspended = m.mSuspended
  PROVE  LeafIsHeld(g, s, n, v)
  BY GrownPlaces DEF LeafIsHeld

(* The scopes that are open keep their regions.                             *)
LEMMA GrownScopes ==
  ASSUME NEW g, NEW s, NEW w \in WrLists, NEW v \in WrLists, Grows(w, v),
         NEW scopes, ScopesAreHeld(g, s, w, scopes)
  PROVE  ScopesAreHeld(g, s, v, scopes)
  BY GrownPlaces DEF ScopesAreHeld

(* A list has its own ids.                                                  *)
LEMMA GrowsItself ==
  ASSUME NEW w \in WrLists
  PROVE  Grows(w, w)
  BY DEF Grows, WrLists

(* What an item under way says of the members and the list.                 *)
LEMMA UnderwayIsGrouped ==
  ASSUME NEW g, NEW s, NEW m, NEW w, NEW scopes, NEW asked,
         Underway(g, s, m, w, scopes, asked)
  PROVE  /\ m \in Members /\ w \in WrLists /\ Sound(m, w) /\ Grouped(m, w)
         /\ KnownIn(w, w.items) /\ KnownIn(w, w.group)
         /\ w.items \in Seq(Pushes) /\ w.group \in Seq(Pushes)
         /\ IsPlace(w, m.mCurrentSpaceAndClipChain, g.view,
                    RegionIn(g, s, Len(s.regions)))
  <1>1. m \in Members /\ w \in WrLists /\ Sound(m, w)
        /\ KnownIn(w, w.items) /\ KnownIn(w, w.group)
    BY DEF Underway, Sound
  <1>2. w.items \in Seq(Pushes) /\ w.group \in Seq(Pushes)
    BY <1>1 DEF WrLists
  <1>3. Grouped(m, w)
    BY DEF Underway, HasPushed, Grouped
  <1> QED BY <1>1, <1>2, <1>3 DEF Underway

(* Members that differ in the slot only.                                    *)
SameButSlot(m, n) ==
  /\ n \in Members /\ n.mCurrentCacheSlot = <<>>
  /\ n.mCurrentSpaceAndClipChain = m.mCurrentSpaceAndClipChain
  /\ n.mScrollIds = m.mScrollIds /\ n.mClipChainLeaf = m.mClipChainLeaf
  /\ n.mSuspended = m.mSuspended /\ n.shadow = m.shadow

(* Leaving the slot changes nothing else.                                   *)
LEMMA WithoutSlot ==
  ASSUME NEW m \in Members
  PROVE  SameButSlot(m, [m EXCEPT !.mCurrentCacheSlot = <<>>])
<1> DEFINE none == <<>>
<1>1. none \in Seq(ClientItems)
  OBVIOUS
<1> HIDE DEF none
<1>2. SameButSlot(m, [m EXCEPT !.mCurrentCacheSlot = none]) <=> none = <<>>
  BY <1>1 DEF SameButSlot, Members
<1> QED BY <1>2 DEF none

(* d is what has become of m and its list when it defined a chain.          *)
HasDefined(g, s, m, d, scopes, asked, region) ==
  /\ Underway(g, s, d[1], d[2], scopes, asked)
  /\ SameButSlot(m, d[1]) /\ d = <<d[1], d[2]>>
  /\ IsPlace(d[2], PlaceAt(m, NewChain(d)), g.view, region)

(* An item that defines a clip is still under way, and has the clip.        *)
LEMMA DefineKeeps ==
  ASSUME NEW g, NEW s, NEW m, NEW w, NEW scopes, NEW asked \in Seq(Shows),
         Underway(g, s, m, w, scopes, asked), NEW clip \in Regions,
         NEW d, d = DefineClipChain(<<m, w>>, clip),
         NEW region, region = clip \cap RegionIn(g, s, Len(s.regions))
  PROVE  HasDefined(g, s, m, d, scopes, asked, region)
<1> DEFINE cur == m.mCurrentSpaceAndClipChain
           here == RegionIn(g, s, Len(s.regions))
           n == [m EXCEPT !.mCurrentCacheSlot = <<>>]
           v == Flushed(w, region)
<1>1. /\ m \in Members /\ w \in WrLists /\ Sound(m, w) /\ Grouped(m, w)
      /\ KnownIn(w, w.items) /\ KnownIn(w, w.group)
      /\ w.items \in Seq(Pushes) /\ w.group \in Seq(Pushes)
      /\ IsPlace(w, cur, g.view, here)
  BY UnderwayIsGrouped
<1>2. SameButSlot(m, n)
  BY <1>1, WithoutSlot
<1> HIDE DEF n
<1>3. here \in Regions /\ RegionOf(w, cur.chain) = here
  <2>1. w.chains \in Seq(Regions)
    BY <1>1 DEF WrLists
  <2> HIDE DEF here
  <2> QED BY <1>1, <2>1 DEF IsPlace, RegionOf, ROOT
<1>4. region \in Regions
  BY <1>3 DEF Regions
<1>5. d = <<n, v>>
  BY <1>1, <1>3, DefineFlushes DEF n
<1>16. v = Flushed(w, region)
  OBVIOUS
<1> HIDE DEF v
<1>6. /\ v \in WrLists /\ Grows(w, v) /\ Sound(m, v) /\ v.spaces = w.spaces
      /\ ~v.grouping /\ v.group = <<>> /\ v.items = w.items \o w.group
      /\ Len(v.chains) = Len(w.chains) + 1 /\ v.chains[Len(v.chains)] = region
  <2>1. IsFlushed(m, w, region, v)
    BY <1>1, <1>4, <1>16, FlushedGrows
  <2> QED BY <2>1 DEF IsFlushed
<1>7. Sound(n, v)
  BY <1>2, <1>6 DEF Sound, SameButSlot, SpacesKnown
<1>8. IsPlace(v, n.mCurrentSpaceAndClipChain, g.view, here)
  BY <1>1, <1>2, <1>6, GrownPlaces DEF SameButSlot
<1>9. LeafIsHeld(g, s, n, v) /\ ScopesAreHeld(g, s, v, scopes)
  BY <1>1, <1>2, <1>6, GrownLeaf, GrownScopes DEF SameButSlot, Underway
<1>10. WrShown(v, v.items) = asked \o s.out
  <2>1. WrShown(v, v.items) = WrShown(w, w.items) \o WrShown(w, w.group)
    <3>1. KnownIn(w, w.items \o w.group)
          /\ WrShown(w, w.items \o w.group) =
              WrShown(w, w.items) \o WrShown(w, w.group)
      BY <1>1, ShownConcat
    <3>2. w.items \o w.group \in Seq(Pushes)
      BY <1>1
    <3> DEFINE items == w.items \o w.group
    <3>3. v.items = items
      BY <1>6
    <3> HIDE DEF items
    <3>4. WrShown(v, items) = WrShown(w, items)
      BY <1>1, <1>6, <3>1, <3>2, GrownItems DEF items
    <3> QED BY <3>1, <3>3, <3>4 DEF items
  <2>2. CASE m.mCurrentCacheSlot = <<>>
    <3>1. w.group = <<>> /\ WrShown(w, w.items) = asked \o s.out
      BY <2>2 DEF Underway, HasPushed
    <3>2. WrShown(w, w.group) = <<>>
      BY <3>1 DEF WrShown
    <3>3. WrShown(w, w.items) \in Seq(Shows)
      BY <1>1, ShownList
    <3>4. WrShown(w, w.items) \o <<>> = WrShown(w, w.items)
      BY <3>3
    <3> QED BY <2>1, <3>1, <3>2, <3>4
  <2>3. CASE m.mCurrentCacheSlot # <<>>
    <3>1. WrShown(w, w.items) = asked /\ WrShown(w, w.group) = s.out
      BY <2>3 DEF Underway, HasPushed
    <3> QED BY <2>1, <3>1
  <2> QED BY <2>2, <2>3
<1>11. HasPushed(g, s, n, v, asked)
  BY <1>2, <1>6, <1>10 DEF HasPushed, SameButSlot
<1>12. n.shadow = (s.from # 0)
  BY <1>2 DEF Underway, SameButSlot
<1>13. Underway(g, s, n, v, scopes, asked)
  BY <1>7, <1>8, <1>9, <1>11, <1>12 DEF Underway
<1>14. /\ NewChain(d) = Len(v.chains)
       /\ IsPlace(v, PlaceAt(m, NewChain(d)), g.view, region)
  <2>1. /\ cur.space \in Nat
        /\ cur.space \in 1..Len(w.spaces)
        /\ w.spaces[cur.space] = g.view
    BY <1>1 DEF IsPlace, Places
  <2>2. w.chains \in Seq(Regions)
    BY <1>1 DEF WrLists
  <2>3. NewChain(d) = Len(v.chains)
    BY <1>5 DEF NewChain
  <2>4. NewChain(d) \in Nat /\ NewChain(d) \in 1..Len(v.chains)
        /\ v.chains[NewChain(d)] = region
    BY <1>6, <2>2, <2>3
  <2> QED BY <1>6, <2>1, <2>3, <2>4 DEF IsPlace, Places, PlaceAt
<1>15. d[1] = n /\ d[2] = v /\ d = <<d[1], d[2]>>
  BY <1>5
<1> QED BY <1>2, <1>13, <1>14, <1>15 DEF HasDefined

(* A list whose items and group alone may have changed.                     *)
SameIds(w, v) ==
  /\ v \in WrLists /\ v.spaces = w.spaces /\ v.chains = w.chains

(* With the same ids the members stay sound.                                *)
LEMMA SameIdsKeep ==
  ASSUME NEW m, NEW w, NEW v, Sound(m, w), SameIds(w, v),
         KnownIn(w, v.items), KnownIn(w, v.group)
  PROVE  Grows(w, v) /\ Sound(m, v)
<1>1. w \in WrLists /\ v \in WrLists
  BY DEF Sound, SameIds
<1>2. Grows(w, v)
  BY <1>1 DEF Grows, SameIds, WrLists
<1>3. KnownIn(v, v.items) /\ KnownIn(v, v.group)
  BY DEF KnownIn, SameIds
<1>4. SpacesKnown(m, v)
  BY DEF Sound, SpacesKnown, SameIds
<1> QED BY <1>1, <1>2, <1>3, <1>4 DEF Sound

(* A push goes to the group or to the list.                                 *)
LEMMA PushGoes ==
  ASSUME NEW w \in WrLists, NEW x \in Pushes
  PROVE  /\ SameIds(w, WrPush(w, x)) /\ WrPush(w, x).grouping = w.grouping
         /\ w.grouping => /\ WrPush(w, x).items = w.items
                          /\ WrPush(w, x).group = Append(w.group, x)
         /\ ~w.grouping => /\ WrPush(w, x).items = Append(w.items, x)
                           /\ WrPush(w, x).group = w.group
<1> DEFINE group == Append(w.group, x)
           items == Append(w.items, x)
<1>1. group \in Seq(Pushes) /\ items \in Seq(Pushes)
  BY DEF WrLists
<1>2. group = Append(w.group, x) /\ items = Append(w.items, x)
  OBVIOUS
<1> HIDE DEF group, items
<1>3. WrPush(w, x) = IF w.grouping THEN [w EXCEPT !.group = group]
                                   ELSE [w EXCEPT !.items = items]
  BY DEF WrPush, group, items
<1>4. CASE w.grouping
  <2>1. WrPush(w, x) = [w EXCEPT !.group = group]
    BY <1>3, <1>4
  <2> QED BY <1>1, <1>2, <1>4, <2>1 DEF WrLists, SameIds
<1>5. CASE ~w.grouping
  <2>1. WrPush(w, x) = [w EXCEPT !.items = items]
    BY <1>3, <1>5
  <2> QED BY <1>1, <1>2, <1>5, <2>1 DEF WrLists, SameIds
<1> QED BY <1>4, <1>5

Extends(a, c, y) == Append(a \o c, y) = a \o Append(c, y)

(* Appending to the second of two sequences appends to both.                *)
LEMMA AppendConcat ==
  ASSUME NEW S, NEW a \in Seq(S), NEW c \in Seq(S), NEW y \in S
  PROVE  Extends(a, c, y)
<1>1. a \o c \in Seq(S) /\ <<y>> \in Seq(S)
  OBVIOUS
<1>2. Append(a \o c, y) = (a \o c) \o <<y>> /\ Append(c, y) = c \o <<y>>
  BY <1>1, AppendIsConcat
<1> DEFINE last == <<y>>
<1> HIDE DEF last
<1>3. last \in Seq(S)
  BY <1>1 DEF last
<1>4. (a \o c) \o last = a \o (c \o last)
  BY <1>3, ConcatAssociative
<1> QED BY <1>2, <1>4 DEF last, Extends

(* A push of what is asked for keeps the item under way.                    *)
LEMMA PushKeeps ==
  ASSUME NEW g, NEW s \in Askings, NEW t, NEW m, NEW w, NEW scopes,
         NEW asked \in Seq(Shows), Underway(g, s, m, w, scopes, asked),
         NEW x \in Pushes, x.space = m.mCurrentSpaceAndClipChain.space,
         x.chain \in 1..Len(w.chains),
         m.mCurrentCacheSlot # <<>> =>
           x.chain = m.mCurrentSpaceAndClipChain.chain,
         t.regions = s.regions, t.from = s.from,
         t.out = Append(s.out, ShownOf(w, x))
  PROVE  Underway(g, t, m, WrPush(w, x), scopes, asked)
<1> DEFINE cur == m.mCurrentSpaceAndClipChain
           v == WrPush(w, x)
           y == ShownOf(w, x)
<1>1. /\ m \in Members /\ w \in WrLists /\ Sound(m, w) /\ Grouped(m, w)
      /\ KnownIn(w, w.items) /\ KnownIn(w, w.group)
      /\ w.items \in Seq(Pushes) /\ w.group \in Seq(Pushes)
      /\ IsPlace(w, cur, g.view, RegionIn(g, s, Len(s.regions)))
  BY UnderwayIsGrouped
<1>2. x.space \in 1..Len(w.spaces)
  BY <1>1 DEF IsPlace
<1>3. /\ SameIds(w, v) /\ v.grouping = w.grouping
      /\ w.grouping => v.items = w.items /\ v.group = Append(w.group, x)
      /\ ~w.grouping => v.items = Append(w.items, x) /\ v.group = w.group
  BY <1>1, PushGoes
<1> HIDE DEF v
<1>4. KnownIn(w, v.items) /\ KnownIn(w, v.group)
  BY <1>1, <1>2, <1>3, ShownAppend
<1>5. v \in WrLists /\ Grows(w, v) /\ Sound(m, v)
  BY <1>1, <1>3, <1>4, SameIdsKeep DEF SameIds
<1>6. v.items \in Seq(Pushes) /\ v.group \in Seq(Pushes)
  BY <1>5 DEF WrLists
<1>7. /\ WrShown(v, v.items) = WrShown(w, v.items)
      /\ WrShown(v, v.group) = WrShown(w, v.group)
  BY <1>1, <1>4, <1>5, <1>6, GrownItems
<1>8. y \in Shows
  BY <1>1, <1>2, ShownIsTyped
<1> HIDE DEF y
<1>9. HasPushed(g, t, m, v, asked)
  <2>1. CASE m.mCurrentCacheSlot = <<>>
    <3>1. ~w.grouping /\ w.group = <<>> /\ WrShown(w, w.items) = asked \o s.out
      BY <2>1 DEF Underway, HasPushed
    <3>2. WrShown(w, v.items) = Append(WrShown(w, w.items), y)
      BY <1>1, <1>2, <1>3, <3>1, ShownAppend DEF y
    <3>3. Append(asked \o s.out, y) = asked \o Append(s.out, y)
      <4>1. s.out \in Seq(Shows)
        BY DEF Askings
      <4> DEFINE o == s.out
      <4> HIDE DEF o
      <4>2. Extends(asked, o, y)
        BY <1>8, <4>1, AppendConcat DEF o
      <4> QED BY <4>2 DEF Extends, o
    <3>4. WrShown(v, v.items) = asked \o t.out
      BY <1>7, <3>1, <3>2, <3>3 DEF y
    <3> QED BY <1>3, <2>1, <3>1, <3>4 DEF HasPushed
  <2>2. CASE m.mCurrentCacheSlot # <<>>
    <3>1. /\ m.mCurrentCacheSlot = <<g>> /\ w.grouping
          /\ WrShown(w, w.items) = asked /\ WrShown(w, w.group) = s.out
          /\ s.regions = <<g.clip>> /\ (g.leaf = <<>> \/ s.from = 0)
          /\ \A i \in 1..Len(w.group) :
               w.group[i].space = cur.space /\ w.group[i].chain = cur.chain
      BY <2>2 DEF Underway, HasPushed
    <3>2. v.items = w.items /\ v.group = Append(w.group, x) /\ v.grouping
      BY <1>3, <3>1
    <3>3. WrShown(w, v.group) = Append(s.out, y)
      BY <1>1, <1>2, <3>1, <3>2, ShownAppend DEF y
    <3>4. WrShown(v, v.group) = t.out /\ WrShown(v, v.items) = asked
      BY <1>7, <3>1, <3>2, <3>3 DEF y
    <3>5. x.chain = cur.chain /\ x.space = cur.space
      BY <2>2
    <3> HIDE DEF cur
    <3>6. \A i \in 1..Len(v.group) :
            v.group[i].space = cur.space /\ v.group[i].chain = cur.chain
      <4>1. /\ Len(v.group) = Len(w.group) + 1
            /\ \A i \in 1..Len(w.group) : v.group[i] = w.group[i]
            /\ v.group[Len(w.group) + 1] = x
        BY <1>1, <3>2
      <4>2. Len(w.group) \in Nat
        BY <1>1
      <4> TAKE i \in 1..Len(v.group)
      <4>3. i \in 1..Len(w.group) \/ i = Len(w.group) + 1
        BY <4>1, <4>2
      <4> QED BY <3>1, <3>5, <4>1, <4>3
    <3> QED BY <2>2, <3>1, <3>2, <3>4, <3>6 DEF HasPushed, cur
  <2> QED BY <2>1, <2>2
<1>10. IsPlace(v, cur, g.view, RegionIn(g, t, Len(t.regions)))
  <2>1. RegionIn(g, t, Len(t.regions)) = RegionIn(g, s, Len(s.regions))
    BY DEF RegionIn
  <2> QED BY <1>1, <1>5, <2>1, GrownPlaces
<1>11. LeafIsHeld(g, t, m, v)
  <2>1. LeafIsHeld(g, s, m, v)
    BY <1>1, <1>5, GrownLeaf DEF Underway
  <2> QED BY <2>1 DEF LeafIsHeld
<1>12. ScopesAreHeld(g, t, v, scopes)
  <2>1. ScopesAreHeld(g, s, v, scopes)
    BY <1>1, <1>5, GrownScopes DEF Underway
  <2> QED BY <2>1 DEF ScopesAreHeld, RegionIn
<1>13. m.shadow = (t.from # 0)
  BY DEF Underway
<1>14. Underway(g, t, m, v, scopes, asked)
  BY <1>5, <1>9, <1>10, <1>11, <1>12, <1>13 DEF Underway
<1> QED BY <1>14 DEF v

(* The leaf is merged into a rectangle unless shadows are open.             *)
LEMMA MergeIsMerged ==
  ASSUME ListsAssumption, NEW g \in ClientItems, NEW s, NEW m, NEW w, NEW v,
         LeafIsHeld(g, s, m, w), NEW clip \in Regions
  PROVE  /\ MergeClipLeaf(<<m, v>>, clip) = Merged(g, s, clip)
         /\ Merged(g, s, clip) \in Regions
<1>1. clip \cap Pixels = clip
  BY DEF Regions
<1>2. Merged(g, s, clip) \in Regions
  BY DEF Merged, Regions
<1>3. MergeClipLeaf(<<m, v>>, clip) =
        IF m.mClipChainLeaf = <<>> THEN clip ELSE clip \cap m.mClipChainLeaf[1]
  BY DEF MergeClipLeaf
<1>4. CASE s.from # 0 /\ g.leaf # <<>>
  BY <1>2, <1>3, <1>4 DEF LeafIsHeld, Merged
<1>5. CASE g.leaf = <<>>
  <2>1. m.mClipChainLeaf = <<>> /\ LeafOf(g) = Pixels
    BY <1>5 DEF LeafIsHeld, LeafOf
  <2> QED BY <1>1, <1>2, <1>3, <2>1 DEF Merged
<1>6. CASE s.from = 0 /\ g.leaf # <<>>
  <2>1. m.mClipChainLeaf = g.leaf /\ LeafOf(g) = g.leaf[1]
    BY <1>6 DEF LeafIsHeld, LeafOf
  <2> QED BY <1>2, <1>3, <1>6, <2>1 DEF Merged
<1> QED BY <1>4, <1>5, <1>6

ShownAlike(g, s, there, region, clip) ==
  Shown(g.view, there, Merged(g, s, clip), s.from # 0) =
    Shown(g.view, region \cap LeafOf(g), clip, s.from # 0)

(* With its leaf merged or in its chain, an item shows the same.            *)
LEMMA MergedIsShown ==
  ASSUME NEW g, NEW s, NEW clip, NEW region
  PROVE  ShownAlike(g, s, ChainRegion(g, s, region), region, clip)
<1>1. CASE s.from # 0
  BY <1>1 DEF ShownAlike, Merged, Shown, ChainRegion
<1>2. CASE s.from = 0
  <2>1. region \cap (clip \cap LeafOf(g)) = (region \cap LeafOf(g)) \cap clip
    OBVIOUS
  <2> QED BY <1>2, <2>1 DEF ShownAlike, Merged, Shown, ChainRegion
<1> QED BY <1>1, <1>2

(* The region of the current place.                                         *)
LEMMA RegionHere ==
  ASSUME NEW g, NEW s, IsAskingOf(g, s)
  PROVE  /\ RegionIn(g, s, Len(s.regions)) = ChainRegion(g, s, Here(s))
         /\ Here(s) \in Regions
<1>1. /\ s.regions \in Seq(Regions)
      /\ s.from <= Len(s.regions)
      /\ 1 <= Len(s.regions)
  BY DEF IsAskingOf, Askings
<1>2. s.regions[Len(s.regions)] \in Regions
  BY <1>1
<1> QED BY <1>1, <1>2 DEF RegionIn, Here, ChainRegion

(* An item with a chain of that region.                                     *)
LEMMA PushedIsAsked ==
  ASSUME ListsAssumption, NEW g \in ClientItems, NEW s, IsAskingOf(g, s),
         NEW t, NEW m, NEW w, NEW scopes, NEW asked \in Seq(Shows),
         Underway(g, s, m, w, scopes, asked),
         NEW clip \in Regions, NEW chain \in Nat, NEW region \in Regions,
         m.mCurrentCacheSlot # <<>> =>
           chain = m.mCurrentSpaceAndClipChain.chain,
         IsPlace(w, PlaceAt(m, chain), g.view, ChainRegion(g, s, region)),
         AsksFor(g, s, t, region, clip),
         NEW b, b = PushWith(<<m, w>>, chain, Merged(g, s, clip))
  PROVE  b = <<b[1], b[2]>> /\ Underway(g, t, b[1], b[2], scopes, asked)
<1> DEFINE x == [space |-> m.mCurrentSpaceAndClipChain.space, chain |-> chain,
                 clip |-> Merged(g, s, clip), shadow |-> m.shadow]
           there == ChainRegion(g, s, region)
           place == PlaceAt(m, chain)
<1>1. b = <<m, WrPush(w, x)>>
  BY DEF PushWith
<1>2. m \in Members /\ w \in WrLists /\ m.shadow = (s.from # 0)
      /\ LeafIsHeld(g, s, m, w)
  BY UnderwayIsGrouped DEF Underway
<1>3. Merged(g, s, clip) \in Regions /\ m.shadow \in BOOLEAN
  BY <1>2, MergeIsMerged
<1>4. /\ place.space \in 1..Len(w.spaces) /\ w.spaces[place.space] = g.view
      /\ place.chain \in 1..Len(w.chains) /\ w.chains[place.chain] = there
      /\ place.space \in Nat
  BY DEF IsPlace, Places, PlaceAt
<1> HIDE DEF there
<1>5. /\ x \in Pushes /\ x.space = m.mCurrentSpaceAndClipChain.space
      /\ x.chain = chain /\ x.clip = Merged(g, s, clip) /\ x.shadow = m.shadow
  BY <1>3, <1>4 DEF Pushes, PlaceAt
<1>6. /\ x.space \in 1..Len(w.spaces) /\ w.spaces[x.space] = g.view
      /\ x.chain \in 1..Len(w.chains) /\ w.chains[x.chain] = there
  BY <1>4 DEF PlaceAt
<1> HIDE DEF x, place
<1>7. ShownOf(w, x) = Shown(g.view, there, Merged(g, s, clip), m.shadow)
  BY <1>2, <1>5, <1>6, ShownIsTyped
<1>8. ShownOf(w, x) = Shown(g.view, region \cap LeafOf(g), clip, s.from # 0)
  <2>1. ShownOf(w, x) = Shown(g.view, there, Merged(g, s, clip), s.from # 0)
    BY <1>2, <1>7
  <2>2. ShownAlike(g, s, there, region, clip)
    BY MergedIsShown DEF there
  <2> QED BY <2>1, <2>2 DEF ShownAlike
<1>9. s \in Askings
  BY DEF IsAskingOf
<1>10. Underway(g, t, m, WrPush(w, x), scopes, asked)
  BY <1>5, <1>6, <1>8, <1>9, PushKeeps DEF AsksFor
<1> QED BY <1>1, <1>10

-----------------------------------------------------------------------------
(* The operations of an item keep up with what it asks for                  *)

(* An operation that asks for nothing leaves the item under way.            *)
LEMMA SameAsking ==
  ASSUME NEW g, NEW s, NEW t, AsksNoMore(s, t), NEW m, NEW w, NEW scopes,
         NEW asked,
         Underway(g, s, m, w, scopes, asked)
  PROVE  Underway(g, t, m, w, scopes, asked)
<1>5. t.regions = s.regions /\ t.from = s.from /\ t.out = s.out
  BY DEF AsksNoMore
<1>1. \A i : RegionIn(g, t, i) = RegionIn(g, s, i)
  BY <1>5 DEF RegionIn
<1>2. LeafIsHeld(g, t, m, w)
  BY <1>5 DEF Underway, LeafIsHeld
<1>3. ScopesAreHeld(g, t, w, scopes)
  BY <1>1, <1>5 DEF Underway, ScopesAreHeld
<1>4. HasPushed(g, t, m, w, asked)
  BY <1>5 DEF Underway, HasPushed
<1> QED BY <1>1, <1>2, <1>3, <1>4, <1>5 DEF Underway

(* A place is its space and its chain.                                      *)
LEMMA PlaceIsRecord ==
  ASSUME NEW w, NEW c, NEW view, NEW region, IsPlace(w, c, view, region)
  PROVE  c = [space |-> c.space, chain |-> c.chain] /\ c.chain \in Nat
  BY DEF IsPlace, Places

(* Push keeps the item under way.                                           *)
LEMMA OpPush ==
  ASSUME ListsAssumption, NEW g \in ClientItems, NEW s, IsAskingOf(g, s),
         NEW op \in Operations, op[1] = "push", NEW t, t = AskStep(g, s, op),
         NEW m, NEW w, NEW scopes, NEW asked \in Seq(Shows),
         Underway(g, s, m, w, scopes, asked), NEW b, b = Push(<<m, w>>, op[2])
  PROVE  Underway(g, t, b[1], b[2], scopes, asked)
<1> DEFINE chain == m.mCurrentSpaceAndClipChain.chain
           region == Here(s)
           there == ChainRegion(g, s, region)
           clip == op[2]
<1>1. clip \in Regions
  BY OperationsAreTyped
<1>2. LeafIsHeld(g, s, m, w)
  BY DEF Underway
<1>3. MergeClipLeaf(<<m, w>>, clip) = Merged(g, s, clip)
  BY <1>1, <1>2, MergeIsMerged
<1>4. b = PushWith(<<m, w>>, chain, Merged(g, s, clip))
  BY <1>3 DEF Push
<1>5. /\ IsPlace(w, m.mCurrentSpaceAndClipChain, g.view, there)
      /\ region \in Regions
  BY UnderwayIsGrouped, RegionHere
<1>6. m.mCurrentSpaceAndClipChain = PlaceAt(m, chain) /\ chain \in Nat
  BY <1>5, PlaceIsRecord DEF PlaceAt
<1>7. IsPlace(w, PlaceAt(m, chain), g.view, there)
  BY <1>5, <1>6
<1>8. AsksFor(g, s, t, region, clip)
  BY AskPush
<1>9. m.mCurrentCacheSlot # <<>> => chain = m.mCurrentSpaceAndClipChain.chain
  OBVIOUS
<1> HIDE DEF clip, region, chain
<1> QED BY <1>1, <1>4, <1>5, <1>6, <1>7, <1>8, <1>9, PushedIsAsked

(* PushBackdropFilter does, whether or not it pushes.                       *)
LEMMA OpBackdrop ==
  ASSUME ListsAssumption, NEW g \in ClientItems, NEW s, IsAskingOf(g, s),
         NEW op \in Operations, op[1] = "backdrop",
         NEW t, t = AskStep(g, s, op),
         NEW m, NEW w, NEW scopes, NEW asked \in Seq(Shows),
         Underway(g, s, m, w, scopes, asked),
         NEW b, b = PushBackdropFilter(<<m, w>>, op[2], op[3])
  PROVE  Underway(g, t, b[1], b[2], scopes, asked)
<1> DEFINE d == DefineClipChain(<<m, w>>, op[3])
           here == Here(s)
           region == op[3] \cap here
           there == ChainRegion(g, s, region)
           clip == op[2]
           chain == NewChain(d)
           n == d[1]
           v == d[2]
<1>1. clip \in Regions /\ op[3] \in Regions /\ here \in Regions
  BY OperationsAreTyped, RegionHere
<1>2. region \in Regions
  BY <1>1 DEF Regions
<1>3. LeafIsHeld(g, s, m, w)
  BY DEF Underway
<1>4. MergeClipLeaf(<<m, w>>, clip) = Merged(g, s, clip)
  BY <1>1, <1>3, MergeIsMerged
<1>5. b = IF Merged(g, s, clip) = {} THEN d
          ELSE PushWith(d, chain, Merged(g, s, clip))
  BY <1>4 DEF PushBackdropFilter
<1>6. op[3] \cap RegionIn(g, s, Len(s.regions)) = there
  BY RegionHere DEF ChainRegion
<1>7. /\ Underway(g, s, n, v, scopes, asked)
      /\ SameButSlot(m, n) /\ d = <<n, v>>
      /\ IsPlace(v, PlaceAt(n, chain), g.view, there)
  <2>1. HasDefined(g, s, m, d, scopes, asked, there)
    BY <1>1, <1>6, DefineKeeps
  <2>2. SameButSlot(m, n) => PlaceAt(m, chain) = PlaceAt(n, chain)
    BY DEF SameButSlot, PlaceAt
  <2> QED BY <2>1, <2>2 DEF HasDefined
<1>8. IF Merged(g, s, clip) = {} THEN AsksNoMore(s, t)
      ELSE AsksFor(g, s, t, region, clip)
  BY AskPush
<1>9. chain \in Nat /\ n.mCurrentCacheSlot = <<>>
  BY <1>7 DEF IsPlace, Places, PlaceAt, SameButSlot
<1> HIDE DEF clip, region, chain, n, v, d, here
<1>10. CASE Merged(g, s, clip) = {}
  <2>1. b = <<n, v>>
    BY <1>5, <1>7, <1>10
  <2>2. Underway(g, t, n, v, scopes, asked)
    BY <1>7, <1>8, <1>10, SameAsking
  <2> QED BY <2>1, <2>2
<1>11. CASE Merged(g, s, clip) # {}
  <2>1. b = PushWith(<<n, v>>, chain, Merged(g, s, clip))
    BY <1>5, <1>7, <1>11
  <2>2. AsksFor(g, s, t, region, clip)
    BY <1>8, <1>11
  <2> QED BY <1>1, <1>2, <1>7, <1>9, <2>1, <2>2, PushedIsAsked
<1> QED BY <1>10, <1>11

(* Without a leaf a region does not depend on shadows.                      *)
LEMMA RegionWithoutLeaf ==
  ASSUME ListsAssumption, NEW g \in ClientItems, g.leaf = <<>>,
         NEW s, IsAskingOf(g, s), NEW i \in 1..Len(s.regions)
  PROVE  RegionIn(g, s, i) = s.regions[i]
<1>1. s.regions \in Seq(Regions)
  BY DEF IsAskingOf, Askings
<1>2. s.regions[i] \in Regions
  BY <1>1
<1>3. s.regions[i] \cap Pixels = s.regions[i]
  BY <1>2 DEF Regions
<1> QED BY <1>3 DEF RegionIn, LeafOf

(* Members that are those of the item while it has no leaf.                 *)
LEMMA OpShadowWithoutLeaf ==
  ASSUME ListsAssumption, NEW g \in ClientItems, g.leaf = <<>>,
         NEW s, IsAskingOf(g, s), NEW t, IsAskingOf(g, t),
         t.out = s.out, t.regions = s.regions,
         NEW m, NEW w, NEW scopes, NEW asked \in Seq(Shows),
         Underway(g, s, m, w, scopes, asked),
         NEW shadow \in BOOLEAN, shadow = (t.from # 0)
  PROVE  Underway(g, t, [m EXCEPT !.shadow = shadow], w, scopes, asked)
<1> DEFINE n == [m EXCEPT !.shadow = shadow]
<1>1. m \in Members /\ Sound(m, w)
  BY UnderwayIsGrouped
<1>2. /\ n \in Members /\ n.shadow = shadow
      /\ n.mCurrentSpaceAndClipChain = m.mCurrentSpaceAndClipChain
      /\ n.mScrollIds = m.mScrollIds /\ n.mClipChainLeaf = m.mClipChainLeaf
      /\ n.mSuspended = m.mSuspended
      /\ n.mCurrentCacheSlot = m.mCurrentCacheSlot
  BY <1>1 DEF Members
<1> HIDE DEF n
<1>3. Sound(n, w)
  BY <1>1, <1>2 DEF Sound, SpacesKnown
<1>4. Len(s.regions) \in Nat /\ 1 <= Len(s.regions)
  BY DEF IsAskingOf, Askings
<1>5. \A i \in 1..Len(s.regions) : RegionIn(g, t, i) = RegionIn(g, s, i)
  BY RegionWithoutLeaf
<1>6. IsPlace(w, n.mCurrentSpaceAndClipChain, g.view,
              RegionIn(g, t, Len(t.regions)))
  BY <1>2, <1>4, <1>5 DEF Underway
<1>7. LeafIsHeld(g, t, n, w)
  BY <1>2 DEF Underway, LeafIsHeld
<1>8. ScopesAreHeld(g, t, w, scopes)
  BY <1>4, <1>5 DEF Underway, ScopesAreHeld
<1>9. HasPushed(g, t, n, w, asked)
  BY <1>2 DEF Underway, HasPushed
<1>10. Underway(g, t, n, w, scopes, asked)
  BY <1>2, <1>3, <1>6, <1>7, <1>8, <1>9 DEF Underway
<1> QED BY <1>10 DEF n

(* The leaf becomes a chain below the current one.                          *)
LEMMA SuspendKeeps ==
  ASSUME ListsAssumption, NEW g \in ClientItems, g.leaf # <<>>,
         NEW s, IsAskingOf(g, s), s.from = 0,
         NEW t, IsAskingOf(g, t),
         t.out = s.out, t.regions = s.regions, t.from = Len(s.regions),
         NEW m, NEW w, NEW scopes, NEW asked \in Seq(Shows),
         Underway(g, s, m, w, scopes, asked), NEW b, b = PushShadow(<<m, w>>)
  PROVE  Underway(g, t, b[1], b[2], scopes, asked)
<1> DEFINE cur == m.mCurrentSpaceAndClipChain
           leaf == LeafOf(g)
           d == DefineClipChain(<<m, w>>, leaf)
           here == Here(s)
           place == PlaceAt(m, NewChain(d))
           held == << [current |-> cur, leaf |-> m.mClipChainLeaf] >>
           none == <<>>
           yes == TRUE
           n == d[1]
           v == d[2]
           next == [n EXCEPT !.mSuspended = held,
                             !.mCurrentSpaceAndClipChain = place,
                             !.mClipChainLeaf = none, !.shadow = yes]
<1>1. leaf \in Regions /\ g.leaf = <<leaf>> /\ g.leaf \in Seq(Regions)
  BY ItemsAreTyped
<1>2. m.mClipChainLeaf = g.leaf /\ m.mSuspended = <<>>
  BY DEF Underway, LeafIsHeld
<1>3. RegionIn(g, s, Len(s.regions)) = here
  BY DEF RegionIn, Here
<1>4. /\ Underway(g, s, n, v, scopes, asked)
      /\ SameButSlot(m, n) /\ d = <<n, v>>
      /\ IsPlace(v, place, g.view, leaf \cap here)
  <2> DEFINE region == leaf \cap here
  <2>1. region = leaf \cap RegionIn(g, s, Len(s.regions))
    BY <1>3
  <2> HIDE DEF region
  <2>2. HasDefined(g, s, m, d, scopes, asked, region)
    BY <1>1, <2>1, DefineKeeps
  <2> QED BY <2>2 DEF HasDefined, region
<1>5. b = <<next, v>>
  <2>1. m.mClipChainLeaf[1] = leaf /\ m.mClipChainLeaf # <<>>
    BY <1>1, <1>2
  <2>2. n.mCurrentSpaceAndClipChain = cur
    BY <1>4 DEF SameButSlot
  <2>3. SuspendClipLeafMerging(<<m, w>>) =
          << [d[1] EXCEPT !.mSuspended = held,
                          !.mCurrentSpaceAndClipChain.chain = NewChain(d),
                          !.mClipChainLeaf = <<>>], d[2] >>
    BY <2>1 DEF SuspendClipLeafMerging
  <2>4. n \in Members
    BY <1>4 DEF SameButSlot
  <2> DEFINE mid == [n EXCEPT !.mSuspended = held,
                              !.mCurrentSpaceAndClipChain.chain = NewChain(d),
                              !.mClipChainLeaf = none]
  <2> DEFINE suspended == SuspendClipLeafMerging(<<m, w>>)
  <2>7. suspended = <<mid, v>>
    BY <2>3
  <2>8. b = << [suspended[1] EXCEPT !.shadow = yes], suspended[2] >>
    BY DEF PushShadow
  <2> HIDE DEF suspended, mid
  <2>5. b = << [mid EXCEPT !.shadow = yes], v >>
    BY <2>7, <2>8
  <2>6. [mid EXCEPT !.shadow = yes] = next
    <3> USE DEF mid
    <3> DEFINE chain == NewChain(d)
    <3> HIDE DEF chain, held, none, yes, n
    <3>1. place = [n.mCurrentSpaceAndClipChain EXCEPT !.chain = chain]
      BY <2>2, <2>4 DEF chain, PlaceAt, Members, Places
    <3> HIDE DEF place
    <3> QED BY <2>4, <3>1 DEF Members, chain
  <2> QED BY <2>5, <2>6
<1>6. /\ Sound(n, v)
      /\ n \in Members
      /\ v \in WrLists
      /\ n.mCurrentCacheSlot = <<>>
      /\ n.mScrollIds = m.mScrollIds
      /\ IsPlace(v, cur, g.view, here)
      /\ ScopesAreHeld(g, s, v, scopes) /\ HasPushed(g, s, n, v, asked)
  BY <1>3, <1>4, UnderwayIsGrouped DEF Underway, SameButSlot
<1>7. /\ place \in Places /\ cur \in Places
  BY <1>4, <1>6 DEF IsPlace
<1>8. held \in Seq([current : Places, leaf : Seq(Regions)])
      /\ Len(held) = 1 /\ held[1].current = cur /\ held[1].leaf = g.leaf
  <2> HIDE DEF cur
  <2> QED BY <1>1, <1>2, <1>7
<1>9. none \in Seq(Regions) /\ yes \in BOOLEAN /\ none = <<>> /\ yes = TRUE
  OBVIOUS
<1> HIDE DEF n, v, d, place, held, none, yes, cur, leaf
<1>10. /\ next \in Members /\ next.shadow = yes
       /\ next.mCurrentSpaceAndClipChain = place
       /\ next.mScrollIds = n.mScrollIds /\ next.mClipChainLeaf = none
       /\ next.mSuspended = held
       /\ next.mCurrentCacheSlot = n.mCurrentCacheSlot
  BY <1>6, <1>7, <1>8, <1>9 DEF Members
<1> HIDE DEF next
<1>11. Sound(next, v)
  BY <1>6, <1>10 DEF Sound, SpacesKnown
<1>12. Len(s.regions) \in Nat /\ 1 <= Len(s.regions)
  BY DEF IsAskingOf, Askings
<1>13. RegionIn(g, t, Len(t.regions)) = leaf \cap here
  <2>1. RegionIn(g, t, Len(t.regions)) = here \cap leaf
    BY <1>12 DEF RegionIn, leaf, Here
  <2> QED BY <2>1
<1>14. \A i \in 2..Len(s.regions) :
         RegionIn(g, t, i - 1) = RegionIn(g, s, i - 1)
  BY <1>12 DEF RegionIn
<1>15. LeafIsHeld(g, t, next, v)
  BY <1>6, <1>8, <1>9, <1>10, <1>12 DEF LeafIsHeld, Here
<1>16. ScopesAreHeld(g, t, v, scopes)
  BY <1>6, <1>14 DEF ScopesAreHeld
<1>17. HasPushed(g, t, next, v, asked)
  BY <1>6, <1>10 DEF HasPushed
<1>18. next.shadow = (t.from # 0)
  <2>1. t.from # 0
    BY <1>12
  <2> QED BY <1>9, <1>10, <2>1
<1>19. IsPlace(v, next.mCurrentSpaceAndClipChain, g.view,
               RegionIn(g, t, Len(t.regions)))
  BY <1>4, <1>10, <1>13
<1>20. Underway(g, t, next, v, scopes, asked)
  BY <1>11, <1>15, <1>16, <1>17, <1>18, <1>19 DEF Underway
<1> QED BY <1>5, <1>20

(* PushShadow does, which may suspend the leaf.                             *)
LEMMA OpShadow ==
  ASSUME ListsAssumption, NEW g \in ClientItems, NEW s, IsAskingOf(g, s),
         NEW op \in Operations, op[1] = "shadow", NEW t, t = AskStep(g, s, op),
         Nested(s, op), NEW m, NEW w, NEW scopes, NEW asked \in Seq(Shows),
         Underway(g, s, m, w, scopes, asked), NEW b, b = PushShadow(<<m, w>>)
  PROVE  Underway(g, t, b[1], b[2], scopes, asked)
<1>1. /\ IsAskingOf(g, t) /\ t.out = s.out /\ t.regions = s.regions
      /\ t.from = IF s.from # 0 THEN s.from ELSE Len(s.regions)
  BY AskShadow
<1>2. Len(s.regions) \in Nat /\ 1 <= Len(s.regions) /\ t.from # 0
  BY <1>1 DEF IsAskingOf, Askings
<1> DEFINE yes == TRUE
<1>3. yes \in BOOLEAN /\ yes = TRUE
  OBVIOUS
<1>4. ASSUME m.mClipChainLeaf = <<>>
      PROVE  b = << [m EXCEPT !.shadow = yes], w >>
  BY <1>4 DEF PushShadow, SuspendClipLeafMerging
<1> HIDE DEF yes
<1>5. CASE g.leaf = <<>>
  <2>1. m.mClipChainLeaf = <<>>
    BY <1>5 DEF Underway, LeafIsHeld
  <2>2. yes = (t.from # 0)
    BY <1>2, <1>3
  <2>3. Underway(g, t, [m EXCEPT !.shadow = yes], w, scopes, asked)
    BY <1>1, <1>3, <1>5, <2>2, OpShadowWithoutLeaf
  <2> QED BY <1>4, <2>1, <2>3
<1>6. CASE g.leaf # <<>> /\ s.from = 0
  BY <1>1, <1>6, SuspendKeeps
<1>7. CASE g.leaf # <<>> /\ s.from # 0
  <2>1. m.mClipChainLeaf = <<>> /\ m.shadow = yes /\ m \in Members
    BY <1>3, <1>7, UnderwayIsGrouped DEF Underway, LeafIsHeld
  <2>2. [m EXCEPT !.shadow = yes] = m
    BY <2>1 DEF Members
  <2>3. Underway(g, t, m, w, scopes, asked)
    BY <1>1, <1>7, SameAsking DEF AsksNoMore
  <2> QED BY <1>4, <2>1, <2>2, <2>3
<1> QED BY <1>5, <1>6, <1>7

(* The current chain is again that in which the leaf was suspended.         *)
LEMMA ResumeKeeps ==
  ASSUME ListsAssumption, NEW g \in ClientItems, g.leaf # <<>>,
         NEW s, IsAskingOf(g, s), s.from = Len(s.regions),
         NEW t, IsAskingOf(g, t),
         t.out = s.out, t.regions = s.regions, t.from = 0,
         NEW m, NEW w, NEW scopes, NEW asked \in Seq(Shows),
         Underway(g, s, m, w, scopes, asked), NEW b, b = PopAllShadows(<<m, w>>)
  PROVE  Underway(g, t, b[1], b[2], scopes, asked)
<1> DEFINE none == <<>>
           no == FALSE
           place == m.mSuspended[1].current
           leaf == m.mSuspended[1].leaf
           n == [m EXCEPT !.shadow = no, !.mCurrentSpaceAndClipChain = place,
                          !.mClipChainLeaf = leaf, !.mSuspended = none]
<1>1. Len(s.regions) \in Nat /\ 1 <= Len(s.regions) /\ s.from # 0
  BY DEF IsAskingOf, Askings
<1>2. /\ Len(m.mSuspended) = 1 /\ leaf = g.leaf
      /\ IsPlace(w, place, g.view, s.regions[s.from])
  BY <1>1 DEF Underway, LeafIsHeld
<1>3. m \in Members /\ w \in WrLists /\ Sound(m, w)
  BY UnderwayIsGrouped
<1>4. m.mSuspended # <<>>
  BY <1>2
<1>5. b = <<n, w>>
  <2> DEFINE mid == [m EXCEPT !.shadow = no]
  <2>1. mid.mSuspended = m.mSuspended /\ mid \in Members
    <3>1. no \in BOOLEAN
      OBVIOUS
    <3> HIDE DEF no
    <3> QED BY <1>3, <3>1 DEF Members
  <2>2. b = <<ResumeClipLeafMerging(mid), w>>
    BY DEF PopAllShadows
  <2> HIDE DEF mid
  <2>3. ResumeClipLeafMerging(mid) =
          [mid EXCEPT !.mCurrentSpaceAndClipChain = place,
                      !.mClipChainLeaf = leaf, !.mSuspended = none]
    BY <1>4, <2>1 DEF ResumeClipLeafMerging
  <2> HIDE DEF place, leaf, none, no
  <2>4. [mid EXCEPT !.mCurrentSpaceAndClipChain = place,
                    !.mClipChainLeaf = leaf, !.mSuspended = none] = n
    BY <1>3 DEF Members, mid
  <2> QED BY <2>2, <2>3, <2>4
<1>6. /\ place \in Places /\ leaf \in Seq(Regions) /\ no \in BOOLEAN
      /\ none \in Seq([current : Places, leaf : Seq(Regions)])
      /\ none = <<>> /\ no = FALSE
  BY <1>2, ItemsAreTyped DEF IsPlace
<1> HIDE DEF place, leaf, none, no
<1>7. /\ n \in Members /\ n.shadow = no
      /\ n.mCurrentSpaceAndClipChain = place
      /\ n.mScrollIds = m.mScrollIds /\ n.mClipChainLeaf = leaf
      /\ n.mSuspended = none /\ n.mCurrentCacheSlot = m.mCurrentCacheSlot
  BY <1>3, <1>6 DEF Members
<1> HIDE DEF n
<1>8. Sound(n, w)
  BY <1>3, <1>7 DEF Sound, SpacesKnown
<1>9. RegionIn(g, t, Len(t.regions)) = s.regions[s.from]
  BY DEF RegionIn
<1>10. \A i \in 2..Len(s.regions) :
         RegionIn(g, t, i - 1) = RegionIn(g, s, i - 1)
  BY <1>1 DEF RegionIn
<1>11. LeafIsHeld(g, t, n, w)
  BY <1>2, <1>6, <1>7 DEF LeafIsHeld
<1>12. ScopesAreHeld(g, t, w, scopes)
  BY <1>10 DEF Underway, ScopesAreHeld
<1>13. m.mCurrentCacheSlot = <<>>
  BY <1>1 DEF Underway, HasPushed
<1>14. HasPushed(g, t, n, w, asked)
  BY <1>7, <1>13 DEF Underway, HasPushed
<1>15. IsPlace(w, n.mCurrentSpaceAndClipChain, g.view,
               RegionIn(g, t, Len(t.regions)))
  BY <1>2, <1>7, <1>9
<1>16. n.shadow = (t.from # 0)
  BY <1>6, <1>7
<1>17. Underway(g, t, n, w, scopes, asked)
  BY <1>8, <1>11, <1>12, <1>14, <1>15, <1>16 DEF Underway
<1> QED BY <1>5, <1>17

(* PopAllShadows does, which may resume it.                                 *)
LEMMA OpUnshadow ==
  ASSUME ListsAssumption, NEW g \in ClientItems, NEW s, IsAskingOf(g, s),
         NEW op \in Operations, op[1] = "unshadow", NEW t, t = AskStep(g, s,
         op),
         Nested(s, op), NEW m, NEW w, NEW scopes, NEW asked \in Seq(Shows),
         Underway(g, s, m, w, scopes, asked), NEW b, b = PopAllShadows(<<m, w>>)
  PROVE  Underway(g, t, b[1], b[2], scopes, asked)
<1>1. /\ IsAskingOf(g, t) /\ t.out = s.out /\ t.regions = s.regions
      /\ t.from = 0 /\ s.from = Len(s.regions)
  BY AskShadow
<1>2. CASE g.leaf # <<>>
  BY <1>1, <1>2, ResumeKeeps
<1>3. CASE g.leaf = <<>>
  <2> DEFINE no == FALSE
  <2>1. no \in BOOLEAN /\ no = (t.from # 0)
    BY <1>1
  <2>2. m.mSuspended = <<>> /\ m \in Members
    BY <1>3, UnderwayIsGrouped DEF Underway, LeafIsHeld
  <2>3. b = << ResumeClipLeafMerging([m EXCEPT !.shadow = no]), w >>
    BY DEF PopAllShadows
  <2> DEFINE mid == [m EXCEPT !.shadow = no]
  <2> HIDE DEF no
  <2>4. mid.mSuspended = <<>>
    BY <2>2 DEF Members
  <2>5. ResumeClipLeafMerging(mid) = mid
    BY <2>4 DEF ResumeClipLeafMerging
  <2>6. Underway(g, t, mid, w, scopes, asked)
    BY <1>1, <1>3, <2>1, OpShadowWithoutLeaf
  <2> QED BY <2>3, <2>5, <2>6
<1> QED BY <1>2, <1>3

(* Members that have entered a place.                                       *)
LEMMA EnterMoves ==
  ASSUME NEW m \in Members, NEW w, NEW space, NEW chain,
         NEW place, place = [space |-> space, chain |-> chain],
         place \in Places,
         NEW b, b = Enter(<<m, w>>, space, chain)
  PROVE  /\ b = <<b[1], w>> /\ b[1] \in Members
         /\ b[1].mCurrentSpaceAndClipChain = place
         /\ b[1].mScrollIds = m.mScrollIds
         /\ b[1].mClipChainLeaf = m.mClipChainLeaf
         /\ b[1].mSuspended = m.mSuspended /\ b[1].shadow = m.shadow
         /\ b[1].mCurrentCacheSlot = m.mCurrentCacheSlot
<1> DEFINE n == [m EXCEPT !.mCurrentSpaceAndClipChain = place]
<1>1. b = <<n, w>>
  BY DEF Enter
<1>2. /\ n \in Members /\ n.mCurrentSpaceAndClipChain = place
      /\ n.mScrollIds = m.mScrollIds /\ n.mClipChainLeaf = m.mClipChainLeaf
      /\ n.mSuspended = m.mSuspended /\ n.shadow = m.shadow
      /\ n.mCurrentCacheSlot = m.mCurrentCacheSlot
  BY DEF Members
<1> HIDE DEF n
<1> QED BY <1>1, <1>2

(* Opening a scope does.                                                    *)
LEMMA OpClip ==
  ASSUME ListsAssumption, NEW g \in ClientItems, NEW s, IsAskingOf(g, s),
         NEW op \in Operations, op[1] = "clip", NEW t, t = AskStep(g, s, op),
         Nested(s, op), NEW m, NEW w, NEW scopes, NEW asked \in Seq(Shows),
         Underway(g, s, m, w, scopes, asked),
         NEW d, d = DefineClipChain(<<m, w>>, op[2]),
         NEW b, b = Enter(d, m.mCurrentSpaceAndClipChain.space, NewChain(d)),
         NEW opened, opened = Append(scopes, m.mCurrentSpaceAndClipChain)
  PROVE  Underway(g, t, b[1], b[2], opened, asked)
<1> DEFINE cur == m.mCurrentSpaceAndClipChain
           here == RegionIn(g, s, Len(s.regions))
           region == op[2] \cap here
           place == PlaceAt(m, NewChain(d))
           n == d[1]
           v == d[2]
           next == b[1]
           N == Len(s.regions)
<1>1. /\ IsAskingOf(g, t) /\ t.from = s.from /\ t.out = s.out
      /\ t.regions = Append(s.regions, op[2] \cap s.regions[Len(s.regions)])
  BY AskScope
<1>2. op[2] \in Regions
  BY OperationsAreTyped
<1>3. region = op[2] \cap RegionIn(g, s, Len(s.regions))
  OBVIOUS
<1> HIDE DEF region
<1>4. /\ Underway(g, s, n, v, scopes, asked) /\ SameButSlot(m, n)
      /\ d = <<n, v>> /\ IsPlace(v, place, g.view, region)
  <2>1. HasDefined(g, s, m, d, scopes, asked, region)
    BY <1>2, <1>3, DefineKeeps
  <2> QED BY <2>1 DEF HasDefined
<1>5. place \in Places /\ n \in Members
      /\ place = [space |-> cur.space, chain |-> NewChain(d)]
  BY <1>4 DEF IsPlace, SameButSlot, PlaceAt
<1> HIDE DEF n, v, place
<1>6. b = Enter(<<n, v>>, cur.space, NewChain(d))
  BY <1>4
<1>7. /\ b = <<next, v>> /\ next \in Members
      /\ next.mCurrentSpaceAndClipChain = place
      /\ next.mScrollIds = n.mScrollIds
      /\ next.mClipChainLeaf = n.mClipChainLeaf
      /\ next.mSuspended = n.mSuspended /\ next.shadow = n.shadow
      /\ next.mCurrentCacheSlot = n.mCurrentCacheSlot
  BY <1>5, <1>6, EnterMoves
<1> HIDE DEF next
<1>8. /\ Sound(n, v) /\ v \in WrLists /\ IsPlace(v, cur, g.view, here)
      /\ LeafIsHeld(g, s, n, v) /\ ScopesAreHeld(g, s, v, scopes)
      /\ HasPushed(g, s, n, v, asked) /\ n.shadow = (s.from # 0)
      /\ n.mCurrentCacheSlot = <<>>
  BY <1>4 DEF Underway, SameButSlot, Sound
<1>9. Sound(next, v)
  BY <1>7, <1>8 DEF Sound, SpacesKnown
<1>10. /\ N \in Nat /\ 1 <= N /\ s.from \in Nat /\ s.from <= N
       /\ s.regions \in Seq(Regions)
  BY DEF IsAskingOf, Askings
<1>11. /\ Len(t.regions) = N + 1
       /\ t.regions[N + 1] = op[2] \cap s.regions[N]
       /\ \A i \in 1..N : t.regions[i] = s.regions[i]
  BY <1>1, <1>10
<1>12. RegionIn(g, t, Len(t.regions)) = region
  <2>1. s.from <= N + 1
    BY <1>10
  <2> QED BY <1>1, <1>3, <1>10, <1>11, <2>1 DEF RegionIn
<1>13. \A i \in 1..N : RegionIn(g, t, i) = RegionIn(g, s, i)
  BY <1>1, <1>11 DEF RegionIn
<1>14. LeafIsHeld(g, t, next, v)
  <2>1. s.from # 0 => t.regions[s.from] = s.regions[s.from]
    <3>1. s.from # 0 => s.from \in 1..N
      BY <1>10
    <3> QED BY <1>11, <3>1
  <2> QED BY <1>1, <1>7, <1>8, <2>1 DEF LeafIsHeld
<1>15. ScopesAreHeld(g, t, v, opened)
  <2>1. /\ scopes \in Seq(Places) /\ Len(scopes) = N
        /\ scopes[1] = RootScrollNodeWithChain
        /\ \A i \in 2..N : IsPlace(v, scopes[i], g.view, RegionIn(g, s, i - 1))
    BY <1>8 DEF ScopesAreHeld
  <2>2. cur \in Places
    BY <1>8 DEF IsPlace
  <2>3. /\ opened \in Seq(Places) /\ Len(opened) = N + 1
        /\ opened[N + 1] = cur
        /\ \A i \in 1..N : opened[i] = scopes[i]
    BY <2>1, <2>2
  <2>4. ASSUME NEW i \in 2..N + 1
        PROVE  IsPlace(v, opened[i], g.view, RegionIn(g, t, i - 1))
    <3>1. i - 1 \in 1..N
      BY <1>10
    <3>2. RegionIn(g, t, i - 1) = RegionIn(g, s, i - 1)
      BY <1>13, <3>1
    <3>3. CASE i = N + 1
      BY <1>8, <1>10, <2>3, <3>2, <3>3
    <3>4. CASE i # N + 1
      <4>1. i \in 2..N
        BY <1>10, <3>4
      <4> QED BY <2>1, <2>3, <3>2, <4>1
    <3> QED BY <3>3, <3>4
  <2>5. opened[1] = RootScrollNodeWithChain
    BY <1>10, <2>1, <2>3
  <2> QED BY <1>11, <2>3, <2>4, <2>5 DEF ScopesAreHeld
<1>16. HasPushed(g, t, next, v, asked)
  BY <1>1, <1>7, <1>8 DEF HasPushed
<1>17. IsPlace(v, next.mCurrentSpaceAndClipChain, g.view,
               RegionIn(g, t, Len(t.regions)))
  BY <1>4, <1>7, <1>12
<1>18. Underway(g, t, next, v, opened, asked)
  BY <1>1, <1>7, <1>8, <1>9, <1>14, <1>15, <1>16, <1>17 DEF Underway
<1> QED BY <1>7, <1>18

(* Closing one goes back to the place that was saved.                       *)
LEMMA OpUnclip ==
  ASSUME ListsAssumption, NEW g \in ClientItems, NEW s, IsAskingOf(g, s),
         NEW op \in Operations, op[1] = "unclip", NEW t, t = AskStep(g, s, op),
         Nested(s, op), NEW m, NEW w, NEW scopes, NEW asked \in Seq(Shows),
         Underway(g, s, m, w, scopes, asked),
         NEW n, n = HasLeft(m, scopes, m.mClipChainLeaf),
         NEW opened, opened = Front(scopes)
  PROVE  Underway(g, t, n, w, opened, asked)
<1> DEFINE N == Len(s.regions)
           last == Last(scopes)
<1>1. /\ IsAskingOf(g, t) /\ t.from = s.from /\ t.out = s.out
      /\ t.from < N /\ Len(t.regions) = N - 1
      /\ \A i \in 1..Len(t.regions) : t.regions[i] = s.regions[i]
  BY AskScope
<1>2. /\ N \in Nat /\ 1 <= N /\ s.from \in Nat /\ 2 <= N
      /\ s.regions \in Seq(Regions)
  BY DEF IsAskingOf, Askings, Nested
<1>3. /\ m \in Members /\ w \in WrLists /\ Sound(m, w)
      /\ LeafIsHeld(g, s, m, w) /\ ScopesAreHeld(g, s, w, scopes)
      /\ HasPushed(g, s, m, w, asked) /\ m.shadow = (s.from # 0)
  BY UnderwayIsGrouped DEF Underway
<1>4. /\ scopes \in Seq(Places) /\ Len(scopes) = N
      /\ scopes[1] = RootScrollNodeWithChain
      /\ \A i \in 2..N : IsPlace(w, scopes[i], g.view, RegionIn(g, s, i - 1))
  BY <1>3 DEF ScopesAreHeld
<1>5. last = scopes[N] /\ IsPlace(w, last, g.view, RegionIn(g, s, N - 1))
  BY <1>2, <1>4 DEF Last
<1> HIDE DEF last
<1>6. last \in Places
  BY <1>5 DEF IsPlace
<1>7. /\ n \in Members /\ n.mCurrentSpaceAndClipChain = last
      /\ n.mScrollIds = m.mScrollIds /\ n.mClipChainLeaf = m.mClipChainLeaf
      /\ n.mSuspended = m.mSuspended /\ n.shadow = m.shadow
      /\ n.mCurrentCacheSlot = m.mCurrentCacheSlot
  BY <1>3, <1>6 DEF Members, HasLeft, last
<1>8. Sound(n, w)
  BY <1>3, <1>7 DEF Sound, SpacesKnown
<1>9. \A i \in 1..N - 1 : RegionIn(g, t, i) = RegionIn(g, s, i)
  BY <1>1 DEF RegionIn
<1>10. RegionIn(g, t, Len(t.regions)) = RegionIn(g, s, N - 1)
  <2>1. N - 1 \in 1..N - 1
    BY <1>2
  <2> QED BY <1>1, <1>9, <2>1
<1>11. LeafIsHeld(g, t, n, w)
  <2>1. s.from # 0 => t.regions[s.from] = s.regions[s.from]
    <3>1. s.from # 0 => s.from \in 1..Len(t.regions)
      BY <1>1, <1>2
    <3> QED BY <1>1, <3>1
  <2> QED BY <1>1, <1>3, <1>7, <2>1 DEF LeafIsHeld
<1>12. ScopesAreHeld(g, t, w, opened)
  <2>1. opened = SubSeq(scopes, 1, N - 1)
    BY <1>4 DEF Front
  <2>2. /\ opened \in Seq(Places) /\ Len(opened) = N - 1
        /\ \A i \in 1..N - 1 : opened[i] = scopes[i]
    BY <1>2, <1>4, <2>1
  <2>3. ASSUME NEW i \in 2..N - 1
        PROVE  IsPlace(w, opened[i], g.view, RegionIn(g, t, i - 1))
    <3>1. i \in 2..N /\ i \in 1..N - 1 /\ i - 1 \in 1..N - 1
      BY <1>2
    <3> QED BY <1>4, <1>9, <2>2, <3>1
  <2>4. 1 \in 1..N - 1
    BY <1>2
  <2> QED BY <1>1, <1>4, <2>2, <2>3, <2>4 DEF ScopesAreHeld
<1>13. m.mCurrentCacheSlot = <<>>
  <2> SUFFICES ASSUME m.mCurrentCacheSlot # <<>> PROVE FALSE
    OBVIOUS
  <2>1. s.regions = <<g.clip>>
    BY <1>3 DEF HasPushed
  <2>2. N = 1
    BY <2>1
  <2> QED BY <1>2, <2>2
<1>14. HasPushed(g, t, n, w, asked)
  BY <1>1, <1>3, <1>7, <1>13 DEF HasPushed
<1>15. IsPlace(w, n.mCurrentSpaceAndClipChain, g.view,
               RegionIn(g, t, Len(t.regions)))
  BY <1>5, <1>7, <1>10
<1> QED BY <1>1, <1>3, <1>7, <1>8, <1>11, <1>12, <1>14, <1>15 DEF Underway

-----------------------------------------------------------------------------
(* The start and the end of an item                                         *)

(* What has been asked for when an item is done.                            *)
IsWhole(g, s) ==
  /\ IsAskingOf(g, s) /\ Len(s.regions) = 1 /\ s.from = 0
  /\ s.out = Asked(g)

(* After its last operation an item has asked for everything.               *)
LEMMA WholeItem ==
  ASSUME ListsAssumption, NEW g \in ClientItems
  PROVE  IsWhole(g, Asking(g)[Len(g.ops)])
  BY AskingIsTyped DEF IsWhole, Asked

(* Then it is in no scope but its own.                                      *)
LEMMA WholeRegion ==
  ASSUME NEW g, NEW s, IsWhole(g, s)
  PROVE  /\ RegionIn(g, s, Len(s.regions)) = g.clip
         /\ Asked(g) \in Seq(Shows) /\ s.out = Asked(g)
  BY DEF IsWhole, IsAskingOf, Askings, RegionIn

(* Items of a space and chain show the same wherever these mean the same.   *)
LEMMA ItemsOfPlace ==
  ASSUME NEW w \in WrLists, NEW c, NEW view, NEW region,
         IsPlace(w, c, view, region), NEW a \in Seq(Pushes),
         \A i \in 1..Len(a) : a[i].space = c.space /\ a[i].chain = c.chain
  PROVE  /\ KnownIn(w, a)
         /\ WrShown(w, a) = ShownAt(view, region, a)
<1>1. KnownIn(w, a)
  BY DEF KnownIn, IsPlace
<1>2. \A i \in 1..Len(a) :
        ShownOf(w, a[i]) = Shown(view, region, a[i].clip, a[i].shadow)
  <2> TAKE i \in 1..Len(a)
  <2>1. /\ a[i] \in Pushes /\ a[i].space \in 1..Len(w.spaces)
        /\ a[i].chain \in 1..Len(w.chains)
    BY <1>1 DEF KnownIn
  <2>2. w.spaces[a[i].space] = view /\ w.chains[a[i].chain] = region
    BY DEF IsPlace
  <2> QED BY <2>1, <2>2, ShownIsTyped
<1>3. WrShown(w, a) = [i \in 1..Len(a) |-> ShownOf(w, a[i])]
  BY DEF WrShown
<1> QED BY <1>1, <1>2, <1>3 DEF ShownAt

(* The group that ends goes to the list.                                    *)
LEMMA EndGroupGoes ==
  ASSUME NEW w \in WrLists
  PROVE  /\ SameIds(w, WrEndGroup(w)) /\ ~WrEndGroup(w).grouping
         /\ WrEndGroup(w).group = <<>>
         /\ WrEndGroup(w).items = w.items \o w.group
<1> DEFINE none == <<>>
           no == FALSE
           items == w.items \o w.group
<1>1. none \in Seq(Pushes) /\ no \in BOOLEAN /\ items \in Seq(Pushes)
      /\ none = <<>> /\ no = FALSE
  BY DEF WrLists
<1>2. items = w.items \o w.group
  OBVIOUS
<1>3. WrEndGroup(w) = [w EXCEPT !.grouping = no, !.group = none, !.items =
              items]
  BY DEF WrEndGroup
<1> HIDE DEF none, no, items
<1>4. /\ SameIds(w, WrEndGroup(w)) /\ WrEndGroup(w).grouping = no
      /\ WrEndGroup(w).group = none /\ WrEndGroup(w).items = items
  BY <1>1, <1>3 DEF WrLists, SameIds
<1> QED BY <1>1, <1>2, <1>4

(* A group that is finished shows what its item asks for.                   *)
LEMMA FinishKeeps ==
  ASSUME ListsAssumption, NEW g \in ClientItems, NEW s, IsWhole(g, s),
         NEW m, NEW w, NEW scopes, NEW asked \in Seq(Shows),
         Underway(g, s, m, w, scopes, asked), m.mCurrentCacheSlot # <<>>,
         NEW n, n = [m EXCEPT !.mCurrentCacheSlot = <<>>]
  PROVE  /\ Underway(g, s, n, WrEndGroup(w), scopes, asked)
         /\ n.mCurrentCacheSlot = <<>>
         /\ m.mCurrentCacheSlot = <<g>>
         /\ w.group \in Seq(Pushes)
         /\ m.mCurrentSpaceAndClipChain \in Places
         /\ Keeps(g, w.group, << m.mCurrentSpaceAndClipChain >>)
<1> DEFINE cur == m.mCurrentSpaceAndClipChain
           v == WrEndGroup(w)
           shown == ShownAt(g.view, g.clip, w.group)
<1>1. /\ m \in Members /\ w \in WrLists /\ Sound(m, w)
      /\ KnownIn(w, w.items) /\ KnownIn(w, w.group)
      /\ w.items \in Seq(Pushes) /\ w.group \in Seq(Pushes)
      /\ IsPlace(w, cur, g.view, g.clip)
  BY UnderwayIsGrouped, WholeRegion
<1>2. SameButSlot(m, n)
  BY <1>1, WithoutSlot
<1>3. /\ m.mCurrentCacheSlot = <<g>>
      /\ WrShown(w, w.items) = asked /\ WrShown(w, w.group) = s.out
      /\ \A i \in 1..Len(w.group) :
           w.group[i].space = cur.space /\ w.group[i].chain = cur.chain
  BY DEF Underway, HasPushed
<1>4. /\ SameIds(w, v) /\ ~v.grouping /\ v.group = <<>>
      /\ v.items = w.items \o w.group
  BY <1>1, EndGroupGoes
<1>5. cur \in Places
  BY <1>1 DEF IsPlace
<1> HIDE DEF v, cur
<1>6. WrShown(w, w.group) = shown
  BY <1>1, <1>3, ItemsOfPlace
<1>7. shown = Asked(g)
  BY <1>3, <1>6, WholeRegion
<1>8. Keeps(g, w.group, <<cur>>)
  <2> DEFINE one == <<cur>>
  <2>1. one \in Seq(Places) /\ Len(one) = 1 /\ one[1] = cur
    BY <1>5
  <2> HIDE DEF one, shown
  <2>2. Keeps(g, w.group, one)
    BY <1>1, <1>3, <1>7, <2>1 DEF Keeps, shown
  <2> QED BY <2>2 DEF one
<1>9. Underway(g, s, n, v, scopes, asked)
  <2>1. KnownIn(w, v.items) /\ WrShown(w, v.items) = asked \o s.out
    BY <1>1, <1>3, <1>4, ShownConcat
  <2>2. KnownIn(w, v.group)
    BY <1>4 DEF KnownIn
  <2>3. Grows(w, v) /\ Sound(m, v)
    BY <1>1, <1>4, <2>1, <2>2, SameIdsKeep
  <2>4. v \in WrLists /\ v.items \in Seq(Pushes)
    BY <1>4 DEF SameIds, WrLists
  <2>5. WrShown(v, v.items) = asked \o s.out
    BY <1>1, <2>1, <2>3, <2>4, GrownItems
  <2>6. Sound(n, v)
    BY <1>2, <2>3 DEF Sound, SpacesKnown, SameButSlot
  <2>7. HasPushed(g, s, n, v, asked)
    BY <1>2, <1>4, <2>5 DEF HasPushed, SameButSlot
  <2>8. IsPlace(v, n.mCurrentSpaceAndClipChain, g.view,
                RegionIn(g, s, Len(s.regions)))
    BY <1>1, <1>2, <2>3, <2>4, GrownPlaces, WholeRegion DEF SameButSlot, cur
  <2>9. LeafIsHeld(g, s, n, v) /\ ScopesAreHeld(g, s, v, scopes)
    BY <1>1, <1>2, <2>3, <2>4, GrownLeaf, GrownScopes DEF SameButSlot, Underway
  <2>10. n.shadow = (s.from # 0)
    BY <1>2 DEF Underway, SameButSlot
  <2> QED BY <2>6, <2>7, <2>8, <2>9, <2>10 DEF Underway
<1> QED BY <1>1, <1>2, <1>3, <1>5, <1>8, <1>9 DEF SameButSlot, v, cur

(* After an item nothing of it is left over.                                *)
LEMMA EndRests ==
  ASSUME ListsAssumption, NEW g \in ClientItems, NEW s, IsWhole(g, s),
         NEW m, NEW w, NEW scopes, NEW asked \in Seq(Shows),
         Underway(g, s, m, w, scopes, asked), m.mCurrentCacheSlot = <<>>,
         NEW n, n = HasLeft(m, scopes, <<>>)
  PROVE  AtRest(n, w, Front(scopes), asked \o Asked(g))
<1> DEFINE none == <<>>
           no == FALSE
           last == Last(scopes)
<1>1. /\ m \in Members /\ w \in WrLists /\ Sound(m, w)
      /\ m.mSuspended = <<>> /\ m.shadow = no
      /\ ~w.grouping /\ w.group = <<>>
      /\ WrShown(w, w.items) = asked \o s.out
      /\ scopes \in Seq(Places) /\ Len(scopes) = 1
      /\ scopes[1] = RootScrollNodeWithChain
  <2>1. s.from = 0 /\ Len(s.regions) = 1
    BY DEF IsWhole
  <2> QED BY <2>1, UnderwayIsGrouped
          DEF Underway, LeafIsHeld, ScopesAreHeld, HasPushed
<1>2. last = RootScrollNodeWithChain /\ Front(scopes) = <<>>
  BY <1>1 DEF Last, Front
<1>3. /\ last \in Places /\ none \in Seq(Regions) /\ none = <<>>
  BY <1>2 DEF RootScrollNodeWithChain, ROOT, Places
<1>4. n = [m EXCEPT !.mCurrentSpaceAndClipChain = last, !.mClipChainLeaf = none]
  BY DEF HasLeft
<1> HIDE DEF last, none, no
<1>5. /\ n \in Members /\ n.mCurrentSpaceAndClipChain = last
      /\ n.mClipChainLeaf = none /\ n.mScrollIds = m.mScrollIds
      /\ n.mSuspended = m.mSuspended /\ n.shadow = m.shadow
      /\ n.mCurrentCacheSlot = m.mCurrentCacheSlot
  BY <1>1, <1>3, <1>4 DEF Members
<1>6. Sound(n, w)
  BY <1>1, <1>5 DEF Sound, SpacesKnown
<1>7. n = [Builder EXCEPT !.mScrollIds = n.mScrollIds]
  <2> DEFINE nothing == <<>>
             ids == n.mScrollIds
             root == RootScrollNodeWithChain
  <2>1. n = [mCurrentSpaceAndClipChain |-> n.mCurrentSpaceAndClipChain,
             mScrollIds |-> n.mScrollIds, mClipChainLeaf |-> n.mClipChainLeaf,
             mSuspended |-> n.mSuspended,
             mCurrentCacheSlot |-> n.mCurrentCacheSlot, shadow |-> n.shadow]
    BY <1>5 DEF Members
  <2>2. /\ n.mCurrentSpaceAndClipChain = root /\ n.mClipChainLeaf = nothing
        /\ n.mSuspended = nothing /\ n.mCurrentCacheSlot = nothing
        /\ n.shadow = no
    BY <1>1, <1>2, <1>3, <1>5
  <2>3. Builder = [mCurrentSpaceAndClipChain |-> root, mScrollIds |-> nothing,
                   mClipChainLeaf |-> nothing, mSuspended |-> nothing,
                   mCurrentCacheSlot |-> nothing, shadow |-> no]
    BY DEF Builder, no
  <2> HIDE DEF nothing, root, ids
  <2>4. [Builder EXCEPT !.mScrollIds = ids] =
          [mCurrentSpaceAndClipChain |-> root, mScrollIds |-> ids,
           mClipChainLeaf |-> nothing, mSuspended |-> nothing,
           mCurrentCacheSlot |-> nothing, shadow |-> no]
    BY <2>3
  <2> QED BY <2>1, <2>2, <2>4 DEF ids
<1>8. s.out = Asked(g)
  BY DEF IsWhole
<1> QED BY <1>1, <1>2, <1>6, <1>7, <1>8 DEF AtRest

-----------------------------------------------------------------------------
(* An item is prepared, and begun or reused                                 *)

(* A builder with the space, chain and leaf of g.                           *)
IsReady(g, m, w, asked) ==
  /\ Sound(m, w)
  /\ IsPlace(w, m.mCurrentSpaceAndClipChain, g.view, g.clip)
  /\ m.mClipChainLeaf = g.leaf /\ m.mSuspended = <<>>
  /\ m.mCurrentCacheSlot = <<>> /\ ~m.shadow
  /\ ~w.grouping /\ w.group = <<>>
  /\ WrShown(w, w.items) = asked

(* Members at rest.                                                         *)
IsFresh(m) ==
  /\ m.mCurrentSpaceAndClipChain = RootScrollNodeWithChain
  /\ m.mClipChainLeaf = <<>> /\ m.mSuspended = <<>>
  /\ m.mCurrentCacheSlot = <<>> /\ ~m.shadow

(* A builder at rest has nothing of an item.                                *)
LEMMA RestIsFresh ==
  ASSUME NEW m, NEW w, NEW scopes, NEW asked, AtRest(m, w, scopes, asked)
  PROVE  IsFresh(m)
<1> DEFINE nothing == <<>>
           ids == m.mScrollIds
           root == RootScrollNodeWithChain
           no == FALSE
<1>1. m = [Builder EXCEPT !.mScrollIds = ids]
  BY DEF AtRest
<1>2. Builder = [mCurrentSpaceAndClipChain |-> root, mScrollIds |-> nothing,
                 mClipChainLeaf |-> nothing, mSuspended |-> nothing,
                 mCurrentCacheSlot |-> nothing, shadow |-> no]
  BY DEF Builder
<1> HIDE DEF nothing, root, ids, no
<1>3. m = [mCurrentSpaceAndClipChain |-> root, mScrollIds |-> ids,
           mClipChainLeaf |-> nothing, mSuspended |-> nothing,
           mCurrentCacheSlot |-> nothing, shadow |-> no]
  BY <1>1, <1>2
<1>4. /\ m.mCurrentSpaceAndClipChain = root /\ m.mClipChainLeaf = nothing
      /\ m.mSuspended = nothing /\ m.mCurrentCacheSlot = nothing
      /\ m.shadow = no
  BY <1>3
<1> QED BY <1>4 DEF IsFresh, nothing, root, no

(* Defining a view's space.                                                 *)
HasSpace(m, w, view, n, v) ==
  /\ Sound(n, v) /\ Grows(w, v) /\ IsFresh(n)
  /\ v.chains = w.chains /\ v.items = w.items /\ v.group = w.group
  /\ v.grouping = w.grouping
  /\ n.mScrollIds[view] \in 1..Len(v.spaces)
  /\ v.spaces[n.mScrollIds[view]] = view

(* After DefineScrollLayer the view has a space, the others theirs.         *)
LEMMA ScrollLayerIsDefined ==
  ASSUME NEW m, NEW w, Sound(m, w), IsFresh(m), NEW view \in Views,
         NEW b, b = DefineScrollLayer(<<m, w>>, view)
  PROVE  b = <<b[1], b[2]>> /\ HasSpace(m, w, view, b[1], b[2])
<1>1. m \in Members /\ w \in WrLists /\ SpacesKnown(m, w)
  BY DEF Sound
<1>2. CASE view \in DOMAIN m.mScrollIds
  <2>1. b = <<m, w>>
    BY <1>2 DEF DefineScrollLayer
  <2>2. PICK i \in 1..Len(w.spaces) : view = w.spaces[i]
    BY <1>1, <1>2 DEF SpacesKnown
  <2>3. m.mScrollIds[view] = i
    BY <1>1, <2>2 DEF SpacesKnown
  <2>4. Grows(w, w)
    BY <1>1, GrowsItself
  <2> QED BY <2>1, <2>2, <2>3, <2>4 DEF HasSpace
<1>3. CASE view \notin DOMAIN m.mScrollIds
  <2> DEFINE old == m.mScrollIds
             spaces == Append(w.spaces, view)
             N == Len(w.spaces)
             ids == [x \in DOMAIN old \cup {view} |->
                       IF x = view THEN Len(spaces) ELSE old[x]]
             n == [m EXCEPT !.mScrollIds = ids]
             v == [w EXCEPT !.spaces = spaces]
  <2>1. b = <<n, v>>
    BY <1>3 DEF DefineScrollLayer
  <2>2. w.spaces \in Seq(Views) /\ N \in Nat
    BY <1>1 DEF WrLists
  <2>3. /\ spaces \in Seq(Views) /\ Len(spaces) = N + 1
        /\ spaces[N + 1] = view
        /\ \A i \in 1..N : spaces[i] = w.spaces[i]
    BY <2>2
  <2>4. /\ DOMAIN old = {w.spaces[i] : i \in 1..N}
        /\ \A i \in 1..N : old[w.spaces[i]] = i
    BY <1>1 DEF SpacesKnown
  <2> HIDE DEF spaces, old
  <2>5. /\ DOMAIN ids = DOMAIN old \cup {view}
        /\ ids[view] = N + 1
        /\ \A x \in DOMAIN old : ids[x] = old[x]
    BY <1>3, <2>3 DEF old
  <2>6. ids \in ScrollIds
    <3>1. DOMAIN old \subseteq Views
      BY <2>2, <2>4
    <3>2. \A x \in DOMAIN old : old[x] \in Nat
      BY <2>2, <2>4
    <3>3. DOMAIN old \cup {view} \in SUBSET Views
      BY <3>1
    <3>4. ids \in [DOMAIN old \cup {view} -> Nat]
      BY <2>2, <2>3, <3>2
    <3> QED BY <3>3, <3>4 DEF ScrollIds
  <2> HIDE DEF ids
  <2>7. /\ n \in Members /\ n.mScrollIds = ids
        /\ n.mCurrentSpaceAndClipChain = m.mCurrentSpaceAndClipChain
        /\ n.mClipChainLeaf = m.mClipChainLeaf
        /\ n.mSuspended = m.mSuspended /\ n.shadow = m.shadow
        /\ n.mCurrentCacheSlot = m.mCurrentCacheSlot
    BY <1>1, <2>6 DEF Members
  <2>8. /\ v \in WrLists /\ v.spaces = spaces /\ v.chains = w.chains
        /\ v.items = w.items /\ v.group = w.group /\ v.grouping = w.grouping
    BY <1>1, <2>3 DEF WrLists
  <2> HIDE DEF n, v
  <2>9. Grows(w, v)
    <3>1. Len(w.chains) \in Nat
      BY <1>1 DEF WrLists
    <3> QED BY <2>2, <2>3, <2>8, <3>1 DEF Grows
  <2>10. SpacesKnown(n, v)
    <3>1. DOMAIN ids = {spaces[i] : i \in 1..N + 1}
      <4>1. 1..N + 1 = 1..N \cup {N + 1}
        BY <2>2
      <4>2. {spaces[i] : i \in 1..N + 1}
              = {spaces[i] : i \in 1..N} \cup {spaces[N + 1]}
        BY <4>1
      <4>3. {spaces[i] : i \in 1..N} = {w.spaces[i] : i \in 1..N}
        BY <2>3
      <4> HIDE DEF ids
      <4> QED BY <2>3, <2>4, <2>5, <4>2, <4>3
    <3>2. ASSUME NEW i \in 1..N + 1 PROVE ids[spaces[i]] = i
      <4>1. CASE i = N + 1
        BY <2>3, <2>5, <4>1
      <4>2. CASE i # N + 1
        <5>1. i \in 1..N
          BY <2>2, <4>2
        <5> QED BY <2>3, <2>4, <2>5, <5>1
      <4> QED BY <4>1, <4>2
    <3> QED BY <2>3, <2>7, <2>8, <3>1, <3>2 DEF SpacesKnown
  <2>11. KnownIn(v, v.items) /\ KnownIn(v, v.group)
    <3>1. /\ w.items \in Seq(Pushes) /\ w.group \in Seq(Pushes)
          /\ KnownIn(w, w.items) /\ KnownIn(w, w.group)
      BY <1>1 DEF Sound, WrLists
    <3> QED BY <1>1, <2>8, <2>9, <3>1, GrownItems
  <2>12. Sound(n, v)
    BY <2>7, <2>8, <2>10, <2>11 DEF Sound
  <2>13. n.mScrollIds[view] = N + 1
    BY <2>5, <2>7
  <2>14. /\ n.mScrollIds[view] \in 1..Len(v.spaces)
         /\ v.spaces[n.mScrollIds[view]] = view
    BY <2>2, <2>3, <2>8, <2>13
  <2>15. IsFresh(n)
    BY <2>7 DEF IsFresh
  <2> QED BY <2>1, <2>8, <2>9, <2>12, <2>14, <2>15 DEF HasSpace
<1> QED BY <1>2, <1>3

(* A builder that has entered an item's place and taken its leaf.           *)
LEMMA LeafedIsReady ==
  ASSUME ListsAssumption, NEW g \in ClientItems, NEW m, NEW w, Sound(m, w),
         m.mSuspended = <<>>, m.mCurrentCacheSlot = <<>>, ~m.shadow,
         ~w.grouping, w.group = <<>>, NEW asked, WrShown(w, w.items) = asked,
         NEW space, NEW chain, NEW place,
         place = [space |-> space, chain |-> chain],
         IsPlace(w, place, g.view, g.clip),
         NEW b, b = Leafed(Enter(<<m, w>>, space, chain), g)
  PROVE  b = <<b[1], b[2]>> /\ IsReady(g, b[1], b[2], asked)
<1> DEFINE e == Enter(<<m, w>>, space, chain)
           n == e[1]
           next == [n EXCEPT !.mClipChainLeaf = g.leaf]
<1>1. m \in Members /\ place \in Places
  BY DEF Sound, IsPlace
<1>2. /\ e = <<n, w>> /\ n \in Members
      /\ n.mCurrentSpaceAndClipChain = place
      /\ n.mScrollIds = m.mScrollIds
      /\ n.mSuspended = m.mSuspended /\ n.shadow = m.shadow
      /\ n.mCurrentCacheSlot = m.mCurrentCacheSlot
  BY <1>1, EnterMoves
<1>3. b = <<next, w>>
  BY <1>2 DEF Leafed
<1>4. g.leaf \in Seq(Regions)
  BY ItemsAreTyped
<1> HIDE DEF n, e
<1>5. /\ next \in Members /\ next.mCurrentSpaceAndClipChain = place
      /\ next.mScrollIds = m.mScrollIds /\ next.mClipChainLeaf = g.leaf
      /\ next.mSuspended = m.mSuspended /\ next.shadow = m.shadow
      /\ next.mCurrentCacheSlot = m.mCurrentCacheSlot
  BY <1>2, <1>4 DEF Members
<1> HIDE DEF next
<1>6. Sound(next, w)
  BY <1>5 DEF Sound, SpacesKnown
<1>7. IsReady(g, next, w, asked)
  BY <1>5, <1>6 DEF IsReady
<1> QED BY <1>3, <1>7

(* Whichever chain is taken, the client's item has its place and leaf.      *)
LEMMA PreparedIsReady ==
  ASSUME ListsAssumption, NEW g \in ClientItems,
         AtRest(dl, wr, listScopes, listAsked), NEW b \in Prepared(g)
  PROVE  b = <<b[1], b[2]>> /\ IsReady(g, b[1], b[2], listAsked)
<1> DEFINE a == DefineScrollLayer(<<dl, wr>>, g.view)
           m == a[1]
           w == a[2]
           space == m.mScrollIds[g.view]
           d == DefineClipChain(a, g.clip)
<1>1. /\ Sound(dl, wr) /\ IsFresh(dl) /\ ~wr.grouping /\ wr.group = <<>>
      /\ WrShown(wr, wr.items) = listAsked
  BY RestIsFresh DEF AtRest
<1>2. g.view \in Views /\ g.clip \in Regions
  BY ItemsAreTyped
<1>3. a = <<m, w>> /\ HasSpace(dl, wr, g.view, m, w)
  BY <1>1, <1>2, ScrollLayerIsDefined
<1>4. \/ \E c \in {n \in DOMAIN wr.chains : wr.chains[n] = g.clip} :
           b = Leafed(Enter(a, space, c), g)
      \/ b = Leafed(Enter(d, space, NewChain(d)), g)
  BY DEF Prepared
<1>5. /\ Sound(m, w) /\ Grows(wr, w) /\ IsFresh(m)
      /\ w.chains = wr.chains /\ w.items = wr.items
      /\ ~w.grouping /\ w.group = <<>>
      /\ space \in 1..Len(w.spaces) /\ w.spaces[space] = g.view
  BY <1>1, <1>3 DEF HasSpace
<1>6. /\ wr \in WrLists
      /\ w \in WrLists
      /\ m \in Members
      /\ w.items \in Seq(Pushes)
      /\ KnownIn(wr, wr.items) /\ wr.items \in Seq(Pushes)
      /\ w.chains \in Seq(Regions)
  BY <1>1, <1>5 DEF Sound, WrLists
<1>7. WrShown(w, w.items) = listAsked
  BY <1>1, <1>5, <1>6, GrownItems
<1>8. /\ m.mCurrentSpaceAndClipChain = RootScrollNodeWithChain
      /\ m.mClipChainLeaf = <<>> /\ m.mSuspended = <<>>
      /\ m.mCurrentCacheSlot = <<>> /\ ~m.shadow
  BY <1>5 DEF IsFresh
<1>9. space \in Nat
  <2>1. Len(w.spaces) \in Nat
    BY <1>6 DEF WrLists
  <2> QED BY <1>5, <2>1
<1> HIDE DEF a, m, w, space, d
<1>10. CASE \E c \in {n \in DOMAIN wr.chains : wr.chains[n] = g.clip} :
              b = Leafed(Enter(a, space, c), g)
  <2>1. PICK c \in {n \in DOMAIN wr.chains : wr.chains[n] = g.clip} :
               b = Leafed(Enter(a, space, c), g)
    BY <1>10
  <2>2. c \in 1..Len(w.chains) /\ w.chains[c] = g.clip /\ c \in Nat
    BY <1>5, <1>6, <2>1
  <2> DEFINE place == [space |-> space, chain |-> c]
  <2>3. IsPlace(w, place, g.view, g.clip)
    BY <1>5, <1>9, <2>2 DEF IsPlace, Places
  <2>4. place = [space |-> space, chain |-> c]
    OBVIOUS
  <2> HIDE DEF place
  <2>5. b = Leafed(Enter(<<m, w>>, space, c), g)
    BY <1>3, <2>1
  <2> QED BY <1>5, <1>7, <1>8, <2>3, <2>4, <2>5, LeafedIsReady
<1>11. CASE b = Leafed(Enter(d, space, NewChain(d)), g)
  <2> DEFINE n == [m EXCEPT !.mCurrentCacheSlot = <<>>]
             v == Flushed(w, g.clip)
             place == [space |-> space, chain |-> NewChain(d)]
  <2>1. g.clip = g.clip \cap RegionOf(w, m.mCurrentSpaceAndClipChain.chain)
    <3>1. RegionOf(w, m.mCurrentSpaceAndClipChain.chain) = Pixels
      BY <1>8 DEF RegionOf, RootScrollNodeWithChain
    <3> QED BY <1>2, <3>1 DEF Regions
  <2>2. Grouped(m, w)
    BY <1>5, <1>8 DEF Grouped
  <2>3. d = <<n, v>>
    <3> DEFINE clip == g.clip
               region == clip
               there == RegionOf(w, m.mCurrentSpaceAndClipChain.chain)
    <3>1. region = clip \cap there
      BY <2>1
    <3>2. d = DefineClipChain(<<m, w>>, clip)
      BY <1>3 DEF d
    <3>3. /\ v = Flushed(w, region)
          /\ there = RegionOf(w, m.mCurrentSpaceAndClipChain.chain)
      OBVIOUS
    <3> HIDE DEF clip, region, there, v
    <3>4. m \in Members /\ w \in WrLists
      BY <1>6
    <3>5. DefineClipChain(<<m, w>>, clip) = <<n, Flushed(w, region)>>
      BY <2>2, <3>1, <3>3, <3>4, DefineFlushes
    <3> QED BY <3>2, <3>3, <3>5
  <2>4. SameButSlot(m, n)
    BY <1>6, WithoutSlot
  <2>5. v = Flushed(w, g.clip)
    OBVIOUS
  <2> HIDE DEF n, v
  <2>6. IsFlushed(m, w, g.clip, v)
    BY <1>2, <1>5, <1>6, <2>5, FlushedGrows
  <2>7. /\ v \in WrLists /\ Grows(w, v) /\ Sound(m, v) /\ v.spaces = w.spaces
        /\ ~v.grouping /\ v.group = <<>> /\ v.items = w.items \o w.group
        /\ Len(v.chains) = Len(w.chains) + 1 /\ v.chains[Len(v.chains)] = g.clip
    BY <2>6 DEF IsFlushed
  <2>8. v.items = w.items
    BY <1>5, <1>6, <2>7
  <2>9. KnownIn(w, w.items)
    BY <1>5 DEF Sound
  <2>10. WrShown(v, v.items) = listAsked
    BY <1>6, <1>7, <2>7, <2>8, <2>9, GrownItems
  <2>11. /\ Sound(n, v) /\ n.mSuspended = <<>> /\ n.mCurrentCacheSlot = <<>>
         /\ ~n.shadow
    BY <1>8, <2>4, <2>7 DEF SameButSlot, Sound, SpacesKnown
  <2>12. NewChain(d) = Len(v.chains)
    BY <2>3 DEF NewChain
  <2>13. /\ NewChain(d) \in Nat /\ NewChain(d) \in 1..Len(v.chains)
         /\ v.chains[NewChain(d)] = g.clip
    BY <1>6, <2>7, <2>12
  <2>14. IsPlace(v, place, g.view, g.clip)
    BY <1>5, <1>9, <2>7, <2>13 DEF IsPlace, Places
  <2>15. place = [space |-> space, chain |-> NewChain(d)]
    OBVIOUS
  <2> HIDE DEF place
  <2> DEFINE chain == NewChain(d)
  <2>16. b = Leafed(Enter(<<n, v>>, space, chain), g)
    BY <1>11, <2>3
  <2>17. place = [space |-> space, chain |-> chain]
    BY <2>15
  <2> HIDE DEF chain
  <2>18. /\ ~v.grouping /\ v.group = <<>> /\ Sound(n, v) /\ n.mSuspended = <<>>
         /\ n.mCurrentCacheSlot = <<>> /\ ~n.shadow
    BY <2>7, <2>11
  <2> QED BY <2>10, <2>14, <2>16, <2>17, <2>18, LeafedIsReady
<1> QED BY <1>4, <1>10, <1>11

(* An item is under way, as yet in no scope.                                *)
LEMMA ReadyIsUnderway ==
  ASSUME ListsAssumption, NEW g \in ClientItems, NEW s, s.from = 0,
         Len(s.regions) = 1, s.regions[1] = g.clip,
         NEW m, NEW w, NEW asked, Sound(m, w),
         IsPlace(w, m.mCurrentSpaceAndClipChain, g.view, g.clip),
         m.mClipChainLeaf = g.leaf, m.mSuspended = <<>>, ~m.shadow,
         HasPushed(g, s, m, w, asked), NEW scopes,
         scopes = <<RootScrollNodeWithChain>>
  PROVE  Underway(g, s, m, w, scopes, asked)
<1>1. RegionIn(g, s, Len(s.regions)) = g.clip
  BY DEF RegionIn
<1>2. LeafIsHeld(g, s, m, w)
  BY DEF LeafIsHeld
<1>3. ScopesAreHeld(g, s, w, scopes)
  <2> DEFINE root == RootScrollNodeWithChain
  <2>1. root \in Places
    BY DEF RootScrollNodeWithChain, ROOT, Places
  <2> HIDE DEF root
  <2>2. scopes = <<root>>
    BY DEF root
  <2>3. scopes \in Seq(Places) /\ Len(scopes) = 1 /\ scopes[1] = root
    BY <2>1, <2>2
  <2>4. 2..1 = {}
    OBVIOUS
  <2> QED BY <2>3, <2>4 DEF ScopesAreHeld, root
<1>4. m.shadow = (s.from # 0)
  <2>1. m.shadow \in BOOLEAN
    BY DEF Sound, Members
  <2> QED BY <2>1
<1> QED BY <1>1, <1>2, <1>3, <1>4 DEF Underway

(* An item is under way with its group, or without one.                     *)
LEMMA StartIsUnderway ==
  ASSUME ListsAssumption, NEW g \in ClientItems, NEW m, NEW w,
         NEW asked \in Seq(Shows), IsReady(g, m, w, asked),
         NEW scopes, scopes = <<RootScrollNodeWithChain>>,
         NEW n, NEW v,
         \/ n = [m EXCEPT !.mCurrentCacheSlot = <<g>>]
            /\ v = [w EXCEPT !.grouping = TRUE]
         \/ n = m /\ v = w
  PROVE  Underway(g, AskStart(g), n, v, scopes, asked)
<1> DEFINE s == AskStart(g)
<1>1. s.from = 0 /\ s.out = <<>> /\ s.regions = <<g.clip>>
  BY DEF AskStart
<1> HIDE DEF s
<1>2. Len(s.regions) = 1 /\ s.regions[1] = g.clip
  BY <1>1
<1>3. /\ Sound(m, w) /\ m \in Members /\ w \in WrLists
      /\ IsPlace(w, m.mCurrentSpaceAndClipChain, g.view, g.clip)
      /\ m.mClipChainLeaf = g.leaf /\ m.mSuspended = <<>>
      /\ m.mCurrentCacheSlot = <<>> /\ ~m.shadow
      /\ ~w.grouping /\ w.group = <<>>
      /\ WrShown(w, w.items) = asked
  BY DEF IsReady, Sound
<1>4. CASE n = m /\ v = w
  <2>1. asked \o <<>> = asked
    OBVIOUS
  <2>2. HasPushed(g, s, n, v, asked)
    BY <1>1, <1>3, <1>4, <2>1 DEF HasPushed
  <2> QED BY <1>1, <1>2, <1>3, <1>4, <2>2, ReadyIsUnderway DEF s
<1>5. CASE n = [m EXCEPT !.mCurrentCacheSlot = <<g>>]
           /\ v = [w EXCEPT !.grouping = TRUE]
  <2> DEFINE one == <<g>>
             yes == TRUE
  <2>1. one \in Seq(ClientItems) /\ yes \in BOOLEAN /\ one # <<>> /\ yes
    OBVIOUS
  <2>2. /\ n = [m EXCEPT !.mCurrentCacheSlot = one]
        /\ v = [w EXCEPT !.grouping = yes]
    BY <1>5
  <2>3. one = <<g>>
    OBVIOUS
  <2> HIDE DEF one, yes
  <2>4. /\ n \in Members /\ n.mScrollIds = m.mScrollIds
        /\ n.mCurrentSpaceAndClipChain = m.mCurrentSpaceAndClipChain
        /\ n.mClipChainLeaf = m.mClipChainLeaf
        /\ n.mSuspended = m.mSuspended /\ n.shadow = m.shadow
        /\ n.mCurrentCacheSlot = one
    BY <1>3, <2>1, <2>2 DEF Members
  <2>5. /\ v \in WrLists /\ v.spaces = w.spaces /\ v.chains = w.chains
        /\ v.items = w.items /\ v.group = w.group /\ v.grouping = yes
    BY <1>3, <2>1, <2>2 DEF WrLists
  <2>6. SameIds(w, v) /\ KnownIn(w, v.items) /\ KnownIn(w, v.group)
    BY <1>3, <2>5 DEF SameIds, Sound
  <2>7. Grows(w, v) /\ Sound(m, v)
    BY <1>3, <2>6, SameIdsKeep
  <2>8. Sound(n, v)
    BY <2>4, <2>7 DEF Sound, SpacesKnown
  <2>9. IsPlace(v, n.mCurrentSpaceAndClipChain, g.view, g.clip)
    BY <1>3, <2>4, <2>5, <2>7, GrownPlaces
  <2>10. WrShown(v, v.items) = asked
    <3>1. w.items \in Seq(Pushes) /\ KnownIn(w, w.items)
      BY <1>3 DEF WrLists, Sound
    <3> QED BY <1>3, <2>5, <2>7, <3>1, GrownItems
  <2>11. WrShown(v, v.group) = <<>> /\ Len(v.group) = 0
    BY <1>3, <2>5 DEF WrShown
  <2>12. HasPushed(g, s, n, v, asked)
    BY <1>1, <2>1, <2>3, <2>4, <2>5, <2>10, <2>11 DEF HasPushed
  <2> QED BY <1>1, <1>2, <1>3, <2>4, <2>8, <2>9, <2>12, ReadyIsUnderway DEF s
<1> QED BY <1>4, <1>5

(* The items of a group that is reused show what the item asks for, in the  *)
(* list that has its space and chain.                                       *)
LEMMA ReusedIsUnderway ==
  ASSUME ListsAssumption, NEW g \in ClientItems, NEW m, NEW w,
         NEW asked \in Seq(Shows), IsReady(g, m, w, asked),
         NEW scopes, scopes = <<RootScrollNodeWithChain>>,
         NEW group, NEW cached, Keeps(g, group, cached),
         cached = << m.mCurrentSpaceAndClipChain >>,
         NEW s, IsWhole(g, s), NEW v, v = [w EXCEPT !.items = @ \o group]
  PROVE  Underway(g, s, m, v, scopes, asked)
<1> DEFINE cur == m.mCurrentSpaceAndClipChain
           items == w.items \o group
<1>1. /\ Sound(m, w) /\ m \in Members /\ w \in WrLists
      /\ IsPlace(w, cur, g.view, g.clip)
      /\ m.mClipChainLeaf = g.leaf /\ m.mSuspended = <<>>
      /\ m.mCurrentCacheSlot = <<>> /\ ~m.shadow
      /\ ~w.grouping /\ w.group = <<>>
      /\ WrShown(w, w.items) = asked
  BY DEF IsReady, Sound
<1>2. /\ group \in Seq(Pushes)
      /\ \A i \in 1..Len(group) :
           group[i].space = cur.space /\ group[i].chain = cur.chain
      /\ ShownAt(g.view, g.clip, group) = Asked(g)
  BY DEF Keeps
<1> HIDE DEF cur
<1>3. KnownIn(w, group) /\ WrShown(w, group) = Asked(g)
  BY <1>1, <1>2, ItemsOfPlace
<1>4. w.items \in Seq(Pushes) /\ KnownIn(w, w.items) /\ KnownIn(w, w.group)
  BY <1>1 DEF WrLists, Sound
<1>5. /\ KnownIn(w, items)
      /\ WrShown(w, items) = asked \o Asked(g)
      /\ items \in Seq(Pushes)
  <2>1. /\ KnownIn(w, items)
        /\ WrShown(w, items) = WrShown(w, w.items) \o WrShown(w, group)
    BY <1>1, <1>2, <1>3, <1>4, ShownConcat
  <2> QED BY <1>1, <1>2, <1>3, <1>4, <2>1
<1>6. v = [w EXCEPT !.items = items]
  OBVIOUS
<1> HIDE DEF items
<1>7. /\ v \in WrLists /\ v.spaces = w.spaces /\ v.chains = w.chains
      /\ v.items = items /\ v.group = w.group /\ v.grouping = w.grouping
  BY <1>1, <1>5, <1>6 DEF WrLists
<1>8. SameIds(w, v) /\ KnownIn(w, v.items) /\ KnownIn(w, v.group)
  BY <1>4, <1>5, <1>7 DEF SameIds
<1>9. Grows(w, v) /\ Sound(m, v)
  BY <1>1, <1>8, SameIdsKeep
<1>10. WrShown(v, v.items) = asked \o Asked(g)
  BY <1>1, <1>5, <1>7, <1>9, GrownItems
<1>11. /\ s.from = 0 /\ Len(s.regions) = 1 /\ s.regions[1] = g.clip
       /\ s.out = Asked(g)
  BY DEF IsWhole, IsAskingOf
<1>12. HasPushed(g, s, m, v, asked)
  BY <1>1, <1>7, <1>10, <1>11 DEF HasPushed
<1>13. IsPlace(v, m.mCurrentSpaceAndClipChain, g.view, g.clip)
  BY <1>1, <1>7, <1>9, GrownPlaces DEF cur
<1> QED BY <1>1, <1>9, <1>11, <1>12, <1>13, ReadyIsUnderway

-----------------------------------------------------------------------------
(* The actions keep the invariant                                           *)

(* The item that is shown is one of the client's.                           *)
LEMMA ShowingIsItem ==
  ASSUME ListInv, listNext # 0
  PROVE  Showing \in ClientItems /\ Showing = listShown[Len(listShown)]
<1>1. listShown \in Seq(ClientItems) /\ listShown # <<>>
  BY DEF ListInv, ItemIsUnderway
<1> QED BY <1>1 DEF Showing, Last

(* The next operation of an item and what came before it.                   *)
NextIs(g, s, op, m, w, scopes, asked) ==
  /\ g \in ClientItems /\ IsAskingOf(g, s)
  /\ op \in Operations /\ Nested(s, op)
  /\ asked \in Seq(Shows) /\ Underway(g, s, m, w, scopes, asked)

(* The invariant gives what is next.                                        *)
LEMMA NextOperation ==
  ASSUME ListsAssumption, ListInv, listNext # 0, listNext <= Len(Showing.ops)
  PROVE  NextIs(Showing, SoFar(Showing, listNext), Showing.ops[listNext],
                dl, wr, listScopes, listAsked)
<1> DEFINE g == Showing
           N == Len(g.ops)
           n == listNext
<1>1. g \in ClientItems
  BY ShowingIsItem
<1>2. /\ n \in Nat /\ listAsked \in Seq(Shows)
      /\ Underway(g, SoFar(g, n), dl, wr, listScopes, listAsked)
  BY DEF ListInv, ItemIsUnderway
<1> HIDE DEF g
<1>3. /\ N \in Nat
      /\ \A i \in 0..N : IsAskingOf(g, Asking(g)[i])
      /\ \A i \in 1..N : g.ops[i] \in Operations
                         /\ Nested(Asking(g)[i - 1], g.ops[i])
  BY <1>1, AskingIsTyped
<1>4. n <= N /\ n # 0
  BY DEF g
<1> HIDE DEF n, N
<1>5. n \in 1..N /\ n - 1 \in 0..N
  BY <1>2, <1>3, <1>4
<1>6. SoFar(g, n) = Asking(g)[n - 1]
  BY <1>4 DEF SoFar, N
<1>7. IsAskingOf(g, SoFar(g, n))
  BY <1>3, <1>5, <1>6
<1>8. g.ops[n] \in Operations /\ Nested(SoFar(g, n), g.ops[n])
  BY <1>3, <1>5, <1>6
<1>9. NextIs(g, SoFar(g, n), g.ops[n], dl, wr, listScopes, listAsked)
  BY <1>1, <1>2, <1>7, <1>8 DEF NextIs
<1> QED BY <1>9 DEF g, n

(* An operation of the item is done.                                        *)
LEMMA DoingKeeps ==
  ASSUME ListsAssumption, ListInv, listNext # 0, listNext <= Len(Showing.ops),
         listNext' = listNext + 1,
         UNCHANGED <<wrRetained, itemCache, listShown, listAsked>>,
         Underway(Showing, AskStep(Showing, SoFar(Showing, listNext),
                                   Showing.ops[listNext]),
                  dl', wr', listScopes', listAsked)
  PROVE  ListInv'
<1> DEFINE g == Showing
           N == Len(g.ops)
           n == listNext
           t == AskStep(g, SoFar(g, n), g.ops[n])
<1>1. g \in ClientItems
  BY ShowingIsItem
<1>2. /\ n \in Nat /\ listAsked \in Seq(Shows) /\ listShown \in Seq(ClientItems)
      /\ GroupsAreKept /\ listShown # <<>>
  BY DEF ListInv, ItemIsUnderway
<1>3. Underway(g, t, dl', wr', listScopes', listAsked) /\ n <= N /\ n # 0
      /\ listNext' = n + 1
  OBVIOUS
<1>4. Showing' = g
  BY DEF Showing
<1> HIDE DEF g
<1>5. N \in Nat
  BY <1>1, AskingIsTyped
<1>6. /\ n \in 1..N /\ SoFar(g, n) = Asking(g)[n - 1]
  BY <1>2, <1>3, <1>5 DEF SoFar
<1>7. Asking(g)[n] = AskStep(g, Asking(g)[n - 1], g.ops[n])
  BY <1>5, <1>6, AskingSteps
<1> HIDE DEF N, n, t
<1>8. SoFar(g, n + 1) = Asking(g)[n]
  <2>1. CASE n + 1 <= N
    BY <1>6, <2>1 DEF SoFar, N
  <2>2. CASE ~(n + 1 <= N)
    <3>1. n = N
      BY <1>5, <1>6, <2>2
    <3> QED BY <2>2, <3>1 DEF SoFar, N
  <2> QED BY <2>1, <2>2
<1>9. SoFar(g, n + 1) = t
  BY <1>6, <1>7, <1>8 DEF t
<1>10. EndOf(g) = N + 2
  BY DEF EndOf, N
<1>11. ItemIsUnderway'
  <2>1. listNext' <= EndOf(g) /\ listNext' # EndOf(g)
    BY <1>3, <1>5, <1>6, <1>10
  <2>2. Underway(g, SoFar(g, listNext'), dl', wr', listScopes', listAsked')
    BY <1>3, <1>9
  <2> QED BY <1>2, <1>4, <2>1, <2>2 DEF ItemIsUnderway
<1>12. GroupsAreKept'
  BY <1>2 DEF GroupsAreKept
<1>13. listNext' \in Nat /\ listNext' # 0
  BY <1>2, <1>3
<1> QED BY <1>2, <1>11, <1>12, <1>13 DEF ListInv

(* Push, by OpPush.                                                         *)
LEMMA DoPushKeeps ==
  ASSUME ListsAssumption, ListInv, DoPush
  PROVE  ListInv'
<1> DEFINE g == Showing
           s == SoFar(Showing, listNext)
           op == Showing.ops[listNext]
<1>1. /\ listNext # 0 /\ listNext <= Len(Showing.ops) /\ op[1] = "push"
      /\ listNext' = listNext + 1
      /\ UNCHANGED <<wrRetained, itemCache, listShown, listAsked, listScopes>>
  BY DEF DoPush, Doing
<1>2. dl' = Push(<<dl, wr>>, op[2])[1] /\ wr' = Push(<<dl, wr>>, op[2])[2]
  <2>1. Operand(1) = op[2]
    BY DEF Operand
  <2> HIDE DEF op
  <2> QED BY <2>1 DEF DoPush, Become
<1>3. NextIs(g, s, op, dl, wr, listScopes, listAsked)
  BY <1>1, NextOperation
<1> HIDE DEF g, s, op
<1>4. Underway(g, AskStep(g, s, op), dl', wr', listScopes', listAsked)
  BY <1>1, <1>2, <1>3, OpPush DEF NextIs
<1> QED BY <1>1, <1>4, DoingKeeps DEF g, s, op

(* PushBackdropFilter, by OpBackdrop.                                       *)
LEMMA DoBackdropKeeps ==
  ASSUME ListsAssumption, ListInv, DoBackdrop
  PROVE  ListInv'
<1> DEFINE g == Showing
           s == SoFar(Showing, listNext)
           op == Showing.ops[listNext]
<1>1. /\ listNext # 0 /\ listNext <= Len(Showing.ops) /\ op[1] = "backdrop"
      /\ listNext' = listNext + 1
      /\ UNCHANGED <<wrRetained, itemCache, listShown, listAsked, listScopes>>
  BY DEF DoBackdrop, Doing
<1> DEFINE b == PushBackdropFilter(<<dl, wr>>, op[2], op[3])
<1>2. dl' = b[1] /\ wr' = b[2]
  <2>1. Operand(1) = op[2] /\ Operand(2) = op[3]
    BY DEF Operand
  <2> HIDE DEF op
  <2> QED BY <2>1 DEF DoBackdrop, Become
<1>3. NextIs(g, s, op, dl, wr, listScopes, listAsked)
  BY <1>1, NextOperation
<1>4. b = PushBackdropFilter(<<dl, wr>>, op[2], op[3])
  OBVIOUS
<1> HIDE DEF g, s, op, b
<1>5. Underway(g, AskStep(g, s, op), dl', wr', listScopes', listAsked)
  BY <1>1, <1>2, <1>3, <1>4, OpBackdrop DEF NextIs
<1> QED BY <1>1, <1>5, DoingKeeps DEF g, s, op

(* PushShadow and PopAllShadows, by OpShadow and OpUnshadow.                *)
LEMMA DoShadowKeeps ==
  ASSUME ListsAssumption, ListInv, DoShadow
  PROVE  ListInv'
<1> DEFINE g == Showing
           s == SoFar(Showing, listNext)
           op == Showing.ops[listNext]
<1>1. /\ listNext # 0 /\ listNext <= Len(Showing.ops)
      /\ listNext' = listNext + 1
      /\ UNCHANGED <<wrRetained, itemCache, listShown, listAsked, listScopes>>
      /\ \/ /\ op[1] = "shadow"
            /\ dl' = PushShadow(<<dl, wr>>)[1]
            /\ wr' = PushShadow(<<dl, wr>>)[2]
         \/ /\ op[1] = "unshadow"
            /\ dl' = PopAllShadows(<<dl, wr>>)[1]
            /\ wr' = PopAllShadows(<<dl, wr>>)[2]
  BY DEF DoShadow, Doing, Become
<1>3. NextIs(g, s, op, dl, wr, listScopes, listAsked)
  BY <1>1, NextOperation
<1> HIDE DEF g, s, op
<1>4. Underway(g, AskStep(g, s, op), dl', wr', listScopes', listAsked)
  <2>1. CASE op[1] = "shadow" /\ dl' = PushShadow(<<dl, wr>>)[1]
             /\ wr' = PushShadow(<<dl, wr>>)[2]
    BY <1>1, <1>3, <2>1, OpShadow DEF NextIs
  <2>2. CASE op[1] = "unshadow" /\ dl' = PopAllShadows(<<dl, wr>>)[1]
             /\ wr' = PopAllShadows(<<dl, wr>>)[2]
    BY <1>1, <1>3, <2>2, OpUnshadow DEF NextIs
  <2> QED BY <1>1, <2>1, <2>2
<1> QED BY <1>1, <1>4, DoingKeeps DEF g, s, op

(* A scope that opens, by OpClip.                                           *)
LEMMA DoClipKeeps ==
  ASSUME ListsAssumption, ListInv, DoClip
  PROVE  ListInv'
<1> DEFINE g == Showing
           s == SoFar(Showing, listNext)
           op == Showing.ops[listNext]
           d == DefineClipChain(<<dl, wr>>, op[2])
           b == Enter(d, dl.mCurrentSpaceAndClipChain.space, NewChain(d))
           opened == Append(listScopes, dl.mCurrentSpaceAndClipChain)
<1>1. /\ listNext # 0 /\ listNext <= Len(Showing.ops) /\ op[1] = "clip"
      /\ listNext' = listNext + 1
      /\ UNCHANGED <<wrRetained, itemCache, listShown, listAsked>>
  BY DEF DoClip, Doing
<1>2. dl' = b[1] /\ wr' = b[2] /\ listScopes' = opened
  <2>1. Operand(1) = op[2]
    BY DEF Operand
  <2> HIDE DEF op
  <2> QED BY <2>1 DEF DoClip, Become
<1>3. NextIs(g, s, op, dl, wr, listScopes, listAsked)
  BY <1>1, NextOperation
<1>4. /\ d = DefineClipChain(<<dl, wr>>, op[2])
      /\ b = Enter(d, dl.mCurrentSpaceAndClipChain.space, NewChain(d))
      /\ opened = Append(listScopes, dl.mCurrentSpaceAndClipChain)
  OBVIOUS
<1> HIDE DEF g, s, op, d, b, opened
<1>5. Underway(g, AskStep(g, s, op), b[1], b[2], opened, listAsked)
  BY <1>1, <1>3, <1>4, OpClip DEF NextIs
<1> QED BY <1>1, <1>2, <1>5, DoingKeeps DEF g, s, op

(* A scope that closes, by OpUnclip.                                        *)
LEMMA DoLeaveKeeps ==
  ASSUME ListsAssumption, ListInv, DoLeave
  PROVE  ListInv'
<1> DEFINE g == Showing
           s == SoFar(Showing, listNext)
           op == Showing.ops[listNext]
           n == HasLeft(dl, listScopes, dl.mClipChainLeaf)
           opened == Front(listScopes)
<1>1. /\ listNext # 0 /\ listNext <= Len(Showing.ops) /\ op[1] = "unclip"
      /\ listNext' = listNext + 1
      /\ UNCHANGED <<wrRetained, itemCache, listShown, listAsked>>
  BY DEF DoLeave, Doing
<1>2. dl' = n /\ wr' = wr /\ listScopes' = opened
  BY DEF DoLeave, Leave, HasLeft
<1>3. NextIs(g, s, op, dl, wr, listScopes, listAsked)
  BY <1>1, NextOperation
<1>4. /\ n = HasLeft(dl, listScopes, dl.mClipChainLeaf)
      /\ opened = Front(listScopes)
  OBVIOUS
<1> HIDE DEF g, s, op, n, opened
<1>5. Underway(g, AskStep(g, s, op), n, wr, opened, listAsked)
  BY <1>1, <1>3, <1>4, OpUnclip DEF NextIs
<1> QED BY <1>1, <1>2, <1>5, DoingKeeps DEF g, s, op

(* The item is whole when its group is finished and when it ends.           *)
LEMMA DoneIsWhole ==
  ASSUME ListsAssumption, ListInv, listNext # 0,
         listNext = FinishOf(Showing) \/ listNext = EndOf(Showing)
  PROVE  /\ Showing \in ClientItems
         /\ IsWhole(Showing, SoFar(Showing, listNext))
         /\ Underway(Showing, SoFar(Showing, listNext), dl, wr, listScopes,
                     listAsked)
         /\ SoFar(Showing, FinishOf(Showing)) = SoFar(Showing, listNext)
         /\ SoFar(Showing, EndOf(Showing)) = SoFar(Showing, listNext)
<1> DEFINE g == Showing
           N == Len(g.ops)
<1>1. g \in ClientItems
  BY ShowingIsItem
<1>2. Underway(g, SoFar(g, listNext), dl, wr, listScopes, listAsked)
  BY DEF ListInv, ItemIsUnderway
<1>3. listNext = FinishOf(g) \/ listNext = EndOf(g)
  OBVIOUS
<1> HIDE DEF g
<1>4. N \in Nat
  BY <1>1, AskingIsTyped
<1>5. IsWhole(g, Asking(g)[N])
  BY <1>1, WholeItem
<1>6. FinishOf(g) = N + 1 /\ EndOf(g) = N + 2
  BY DEF FinishOf, EndOf
<1>7. SoFar(g, N + 1) = Asking(g)[N] /\ SoFar(g, N + 2) = Asking(g)[N]
  <2>1. ~(N + 1 <= N) /\ ~(N + 2 <= N)
    BY <1>4
  <2> QED BY <2>1 DEF SoFar
<1> HIDE DEF N
<1>8. /\ IsWhole(g, SoFar(g, listNext))
      /\ SoFar(g, FinishOf(g)) = SoFar(g, listNext)
      /\ SoFar(g, EndOf(g)) = SoFar(g, listNext)
  BY <1>3, <1>5, <1>6, <1>7
<1> QED BY <1>1, <1>2, <1>8 DEF g

(* The group that is finished shows what its item asks for.                 *)
LEMMA FinishGroupKeeps ==
  ASSUME ListsAssumption, ListInv, FinishGroup
  PROVE  ListInv'
<1> DEFINE g == Showing
           s == SoFar(Showing, listNext)
<1>1. /\ listNext # 0 /\ listNext = FinishOf(g) /\ listNext' = EndOf(g)
      /\ UNCHANGED <<listShown, listScopes, listAsked>>
  BY DEF FinishGroup
<1>2. /\ g \in ClientItems /\ IsWhole(g, s)
      /\ Underway(g, s, dl, wr, listScopes, listAsked)
      /\ SoFar(g, EndOf(g)) = s
  BY <1>1, DoneIsWhole
<1>3. /\ listNext \in Nat /\ listAsked \in Seq(Shows)
      /\ listShown \in Seq(ClientItems)
      /\ GroupsAreKept /\ listShown # <<>>
  BY <1>1 DEF ListInv, ItemIsUnderway
<1>4. Showing' = g
  BY <1>1 DEF Showing
<1>5. dl.mCurrentCacheSlot = <<>> =>
        /\ dl' = dl /\ wr' = wr
        /\ wrRetained' = wrRetained /\ itemCache' = itemCache
  BY DEF FinishGroup
<1>6. dl.mCurrentCacheSlot # <<>> =>
        /\ dl' = [dl EXCEPT !.mCurrentCacheSlot = <<>>]
        /\ wr' = WrEndGroup(wr)
        /\ \/ wrRetained' = wrRetained /\ itemCache' = itemCache
           \/ /\ wrRetained' =
                   [wrRetained EXCEPT ![dl.mCurrentCacheSlot[1]] = wr.group]
              /\ itemCache' = [itemCache EXCEPT ![dl.mCurrentCacheSlot[1]] =
                                 << dl.mCurrentSpaceAndClipChain >>]
  BY DEF FinishGroup
<1>7. EndOf(g) \in Nat /\ EndOf(g) # 0
  <2> HIDE DEF g
  <2>1. Len(g.ops) \in Nat
    BY <1>2, AskingIsTyped
  <2> QED BY <2>1 DEF EndOf
<1> HIDE DEF g, s
<1>8. CASE dl.mCurrentCacheSlot = <<>>
  <2>1. ItemIsUnderway'
    BY <1>1, <1>2, <1>3, <1>4, <1>5, <1>7, <1>8 DEF ItemIsUnderway
  <2>2. GroupsAreKept'
    BY <1>3, <1>5, <1>8 DEF GroupsAreKept
  <2> QED BY <1>1, <1>3, <1>7, <2>1, <2>2 DEF ListInv
<1>9. CASE dl.mCurrentCacheSlot # <<>>
  <2> DEFINE n == [dl EXCEPT !.mCurrentCacheSlot = <<>>]
             place == dl.mCurrentSpaceAndClipChain
  <2>1. /\ Underway(g, s, n, WrEndGroup(wr), listScopes, listAsked)
        /\ n.mCurrentCacheSlot = <<>> /\ dl.mCurrentCacheSlot = <<g>>
        /\ wr.group \in Seq(Pushes) /\ place \in Places
        /\ Keeps(g, wr.group, <<place>>)
    BY <1>2, <1>3, <1>9, FinishKeeps
  <2>2. dl' = n /\ wr' = WrEndGroup(wr) /\ dl.mCurrentCacheSlot[1] = g
    BY <1>6, <1>9, <2>1
  <2> HIDE DEF n, place
  <2>3. \/ wrRetained' = wrRetained /\ itemCache' = itemCache
        \/ /\ wrRetained' = [wrRetained EXCEPT ![g] = wr.group]
           /\ itemCache' = [itemCache EXCEPT ![g] = <<place>>]
    BY <1>6, <1>9, <2>2 DEF place
  <2>4. ItemIsUnderway'
    <3>1. Underway(g, s, dl', wr', listScopes', listAsked')
      BY <1>1, <2>1, <2>2
    <3>2. dl'.mCurrentCacheSlot = <<>>
      BY <2>1, <2>2
    <3> QED BY <1>1, <1>2, <1>3, <1>4, <1>7, <3>1, <3>2 DEF ItemIsUnderway
  <2>5. GroupsAreKept'
    <3>1. CASE wrRetained' = wrRetained /\ itemCache' = itemCache
      BY <1>3, <3>1 DEF GroupsAreKept
    <3>2. CASE /\ wrRetained' = [wrRetained EXCEPT ![g] = wr.group]
               /\ itemCache' = [itemCache EXCEPT ![g] = <<place>>]
      <4> DEFINE group == wr.group
                 cached == <<place>>
      <4>1. /\ group \in Seq(Pushes)
            /\ cached \in Seq(Places)
            /\ Keeps(g, group, cached)
        BY <2>1
      <4>2. /\ wrRetained' = [wrRetained EXCEPT ![g] = group]
            /\ itemCache' = [itemCache EXCEPT ![g] = cached]
        BY <3>2
      <4> HIDE DEF group, cached
      <4>3. /\ wrRetained' \in [ClientItems -> Seq(Pushes)]
            /\ itemCache' \in [ClientItems -> Seq(Places)]
        BY <1>2, <1>3, <4>1, <4>2 DEF GroupsAreKept
      <4>4. ASSUME NEW h \in ClientItems
            PROVE  Keeps(h, wrRetained'[h], itemCache'[h])
        <5>1. h = g => wrRetained'[h] = group /\ itemCache'[h] = cached
          BY <1>2, <1>3, <4>2 DEF GroupsAreKept
        <5>2. h # g => /\ wrRetained'[h] = wrRetained[h]
                       /\ itemCache'[h] = itemCache[h]
          BY <1>2, <1>3, <4>2 DEF GroupsAreKept
        <5>3. Keeps(h, wrRetained[h], itemCache[h])
          BY <1>3 DEF GroupsAreKept
        <5> QED BY <4>1, <5>1, <5>2, <5>3
      <4> QED BY <4>3, <4>4 DEF GroupsAreKept
    <3> QED BY <2>3, <3>1, <3>2
  <2> QED BY <1>1, <1>3, <1>7, <2>4, <2>5 DEF ListInv
<1> QED BY <1>8, <1>9

(* The item that ends leaves the builder at rest.                           *)
LEMMA EndItemKeeps ==
  ASSUME ListsAssumption, ListInv, EndItem
  PROVE  ListInv'
<1> DEFINE g == Showing
           s == SoFar(Showing, listNext)
           n == HasLeft(dl, listScopes, <<>>)
           opened == Front(listScopes)
           asked == listAsked \o Asked(g)
<1>1. /\ listNext # 0 /\ listNext = EndOf(g) /\ listNext' = 0
      /\ UNCHANGED <<wrRetained, itemCache, listShown>>
  BY DEF EndItem
<1>2. /\ g \in ClientItems /\ IsWhole(g, s)
      /\ Underway(g, s, dl, wr, listScopes, listAsked)
  BY <1>1, DoneIsWhole
<1>3. /\ listNext \in Nat /\ listAsked \in Seq(Shows)
      /\ listShown \in Seq(ClientItems)
      /\ GroupsAreKept /\ dl.mCurrentCacheSlot = <<>>
  BY <1>1 DEF ListInv, ItemIsUnderway
<1>4. dl' = n /\ wr' = wr /\ listScopes' = opened /\ listAsked' = asked
  BY DEF EndItem, Leave, HasLeft
<1>5. n = HasLeft(dl, listScopes, <<>>)
  OBVIOUS
<1> HIDE DEF g, s, n
<1>6. AtRest(n, wr, opened, asked)
  BY <1>2, <1>3, <1>5, EndRests
<1>7. asked \in Seq(Shows)
  <2>1. Asked(g) \in Seq(Shows)
    BY <1>2, WholeRegion
  <2> QED BY <1>3, <2>1
<1> HIDE DEF opened, asked
<1>8. GroupsAreKept'
  BY <1>1, <1>3 DEF GroupsAreKept
<1>9. AtRest(dl', wr', listScopes', listAsked')
  BY <1>4, <1>6
<1> QED BY <1>1, <1>3, <1>4, <1>7, <1>8, <1>9 DEF ListInv

(* Nothing is shown in a list that begins.                                  *)
LEMMA NothingIsSound ==
  AtRest(Builder, WrBegin, <<>>, <<>>)
<1> DEFINE none == <<>>
           no == FALSE
           root == RootScrollNodeWithChain
<1>1. /\ Builder = [mCurrentSpaceAndClipChain |-> root, mScrollIds |-> none,
                    mClipChainLeaf |-> none, mSuspended |-> none,
                    mCurrentCacheSlot |-> none, shadow |-> no]
      /\ WrBegin = [spaces |-> none, chains |-> none, items |-> none,
                    group |-> none, grouping |-> no]
  BY DEF Builder, WrBegin
<1>2. /\ none \in ScrollIds /\ DOMAIN none = {} /\ Len(none) = 0
      /\ none \in Seq(Views) /\ none \in Seq(Regions) /\ none \in Seq(Pushes)
      /\ none \in Seq(ClientItems) /\ none \in Seq(Places)
      /\ none \in Seq([current : Places, leaf : Seq(Regions)])
      /\ no \in BOOLEAN /\ ~no /\ root \in Places
  <2>1. none \in [{} -> Nat]
    OBVIOUS
  <2>2. none \in ScrollIds
    <3>1. {} \in SUBSET Views
      OBVIOUS
    <3> HIDE DEF none
    <3> QED BY <2>1, <3>1 DEF ScrollIds
  <2>3. root \in Places
    BY DEF RootScrollNodeWithChain, ROOT, Places
  <2> QED BY <2>2, <2>3
<1>3. none = <<>>
  OBVIOUS
<1> HIDE DEF none, no, root
<1>4. /\ Builder \in Members /\ Builder.mScrollIds = none
      /\ WrBegin \in WrLists
      /\ WrBegin.spaces = none /\ WrBegin.chains = none
      /\ WrBegin.items = none /\ WrBegin.group = none /\ ~WrBegin.grouping
  BY <1>1, <1>2 DEF Members, WrLists
<1>5. Sound(Builder, WrBegin)
  <2>1. SpacesKnown(Builder, WrBegin)
    BY <1>2, <1>4 DEF SpacesKnown
  <2>2. KnownIn(WrBegin, none)
    BY <1>2 DEF KnownIn
  <2> QED BY <1>4, <2>1, <2>2 DEF Sound
<1>6. [Builder EXCEPT !.mScrollIds = none] = Builder
  BY <1>1
<1>7. WrShown(WrBegin, WrBegin.items) = none
  <2>1. WrShown(WrBegin, <<>>) = <<>>
    BY DEF WrShown
  <2> QED BY <1>3, <1>4, <2>1
<1> QED BY <1>3, <1>4, <1>5, <1>6, <1>7 DEF AtRest

(* A list that begins is at rest.                                           *)
LEMMA BeginKeeps ==
  ASSUME ListInv, Begin
  PROVE  ListInv'
<1>1. /\ listNext = 0 /\ AtRest(dl, wr, listScopes, listAsked)
      /\ listShown' = <<>> /\ listAsked' = <<>>
      /\ UNCHANGED <<wrRetained, itemCache, listScopes, listNext>>
      /\ GroupsAreKept
  BY DEF ListInv, Begin
<1>2. dl' = Builder /\ wr' = WrBegin
  BY DEF Begin, Become
<1>3. listScopes = <<>>
  BY <1>1 DEF AtRest
<1>4. AtRest(dl', wr', listScopes', listAsked')
  BY <1>1, <1>2, <1>3, NothingIsSound
<1>5. GroupsAreKept'
  BY <1>1 DEF GroupsAreKept
<1>6. listShown' \in Seq(ClientItems) /\ listAsked' \in Seq(Shows)
      /\ listNext' = 0 /\ listNext' \in Nat
  BY <1>1
<1> QED BY <1>4, <1>5, <1>6 DEF ListInv

(* An item that has been shown: its group was begun or reused.              *)
LEMMA ShownKeeps ==
  ASSUME ListsAssumption, ListInv, NEW g \in ClientItems,
         listShown' = Append(listShown, g),
         listNext' = 1 \/ listNext' = EndOf(g),
         listNext' = EndOf(g) => dl'.mCurrentCacheSlot = <<>>,
         Underway(g, SoFar(g, listNext'), dl', wr', listScopes', listAsked),
         listAsked' = listAsked, GroupsAreKept'
  PROVE  ListInv'
<1>1. listAsked \in Seq(Shows) /\ listShown \in Seq(ClientItems)
  BY DEF ListInv
<1>2. /\ listShown' \in Seq(ClientItems) /\ listShown' # <<>>
      /\ listShown'[Len(listShown')] = g
  BY <1>1
<1>3. Showing' = g
  BY <1>2 DEF Showing, Last
<1>4. Len(g.ops) \in Nat
  BY AskingIsTyped
<1>5. EndOf(g) \in Nat /\ 1 <= EndOf(g)
  BY <1>4 DEF EndOf
<1>6. listNext' \in Nat /\ listNext' # 0 /\ listNext' <= EndOf(g)
  BY <1>5
<1>7. ItemIsUnderway'
  BY <1>2, <1>3, <1>6 DEF ItemIsUnderway
<1> QED BY <1>1, <1>2, <1>6, <1>7 DEF ListInv

(* An item is shown anew or from the group that is kept.                    *)
LEMMA ShowItemKeeps ==
  ASSUME ListsAssumption, ListInv, NEW g \in ClientItems, ShowItem(g)
  PROVE  ListInv'
<1>1. /\ listNext = 0 /\ listShown' = Append(listShown, g)
      /\ listScopes' = <<dl.mCurrentSpaceAndClipChain>>
      /\ wrRetained' = wrRetained /\ listAsked' = listAsked
  BY DEF ShowItem
<1>2. PICK b \in Prepared(g) : ReuseItem(g, b) \/ StartGroup(g, b)
  BY DEF ShowItem
<1>3. /\ AtRest(dl, wr, listScopes, listAsked) /\ GroupsAreKept
      /\ listAsked \in Seq(Shows)
  BY <1>1 DEF ListInv
<1> DEFINE m == b[1]
           w == b[2]
           scopes == listScopes'
<1>4. b = <<m, w>> /\ IsReady(g, m, w, listAsked)
  BY <1>3, PreparedIsReady
<1>5. scopes = <<RootScrollNodeWithChain>>
  <2>1. IsFresh(dl)
    BY <1>3, RestIsFresh
  <2> QED BY <1>1, <2>1 DEF IsFresh
<1>6. Len(g.ops) \in Nat
  BY AskingIsTyped
<1>7. /\ wrRetained \in [ClientItems -> Seq(Pushes)]
      /\ itemCache \in [ClientItems -> Seq(Places)]
      /\ \A h \in ClientItems : Keeps(h, wrRetained[h], itemCache[h])
  BY <1>3 DEF GroupsAreKept
<1>8. CASE ReuseItem(g, b)
  <2> DEFINE group == wrRetained[g]
             cached == itemCache[g]
             v == [w EXCEPT !.items = @ \o group]
             s == SoFar(g, EndOf(g))
  <2>1. /\ cached = << m.mCurrentSpaceAndClipChain >>
        /\ dl' = m /\ wr' = v /\ listNext' = EndOf(g) /\ itemCache' = itemCache
    BY <1>8 DEF ReuseItem, Reusable, Become
  <2>2. Keeps(g, group, cached)
    BY <1>7
  <2>3. IsWhole(g, s)
    <3>1. ~(EndOf(g) <= Len(g.ops))
      BY <1>6 DEF EndOf
    <3>2. s = Asking(g)[Len(g.ops)]
      BY <3>1 DEF SoFar
    <3> QED BY <3>2, WholeItem
  <2>4. v = [w EXCEPT !.items = @ \o group]
    OBVIOUS
  <2>5. m.mCurrentCacheSlot = <<>>
    BY <1>4 DEF IsReady
  <2>6. GroupsAreKept'
    BY <1>1, <1>7, <2>1 DEF GroupsAreKept
  <2> HIDE DEF m, w, scopes, group, cached, v, s
  <2>7. Underway(g, s, m, v, scopes, listAsked)
    BY <1>3, <1>4, <1>5, <2>1, <2>2, <2>3, <2>4, ReusedIsUnderway
  <2>8. Underway(g, SoFar(g, listNext'), dl', wr', listScopes', listAsked)
    BY <2>1, <2>7 DEF s, scopes
  <2> QED BY <1>1, <2>1, <2>5, <2>6, <2>8, ShownKeeps
<1>9. CASE StartGroup(g, b)
  <2> DEFINE n == dl'
             v == wr'
  <2>1. /\ listNext' = 1
        /\ \/ /\ n = [m EXCEPT !.mCurrentCacheSlot = <<g>>]
              /\ v = [w EXCEPT !.grouping = TRUE]
           \/ n = m /\ v = w
        /\ itemCache' = [itemCache EXCEPT ![g] = <<>>] \/ itemCache' = itemCache
    BY <1>9 DEF StartGroup, Become
  <2>2. SoFar(g, 1) = AskStart(g)
    <3>1. CASE 1 <= Len(g.ops)
      BY <1>6, <3>1, AskingSteps DEF SoFar
    <3>2. CASE ~(1 <= Len(g.ops))
      <4>1. Len(g.ops) = 0
        BY <1>6, <3>2
      <4> QED BY <1>6, <3>2, <4>1, AskingSteps DEF SoFar
    <3> QED BY <3>1, <3>2
  <2>3. 1 # EndOf(g)
    BY <1>6 DEF EndOf
  <2>4. GroupsAreKept'
    <3> DEFINE none == <<>>
    <3>1. none \in Seq(Places) /\ none = <<>> /\ Len(none) = 0
      OBVIOUS
    <3>2. itemCache' = [itemCache EXCEPT ![g] = none] \/ itemCache' = itemCache
      BY <2>1
    <3> HIDE DEF none
    <3>3. itemCache' \in [ClientItems -> Seq(Places)]
      BY <1>7, <3>1, <3>2
    <3>4. ASSUME NEW h \in ClientItems
          PROVE  Keeps(h, wrRetained[h], itemCache'[h])
      <4>1. itemCache'[h] = itemCache[h] \/ itemCache'[h] = none
        BY <1>7, <3>2
      <4>2. Keeps(h, wrRetained[h], itemCache[h])
        BY <1>7
      <4>3. Keeps(h, wrRetained[h], none)
        BY <1>7, <3>1 DEF Keeps
      <4> QED BY <4>1, <4>2, <4>3
    <3> QED BY <1>1, <1>7, <3>3, <3>4 DEF GroupsAreKept
  <2> HIDE DEF m, w, scopes, n, v
  <2>5. Underway(g, AskStart(g), n, v, scopes, listAsked)
    BY <1>3, <1>4, <1>5, <2>1, StartIsUnderway
  <2>6. Underway(g, SoFar(g, listNext'), dl', wr', listScopes', listAsked)
    BY <2>1, <2>2, <2>5 DEF n, v, scopes
  <2> QED BY <1>1, <2>1, <2>3, <2>4, <2>6, ShownKeeps
<1> QED BY <1>2, <1>8, <1>9

(* At first there is no list.                                               *)
LEMMA ListInitInv ==
  ASSUME ListInit
  PROVE  ListInv
<1>1. /\ dl = Builder /\ wr = WrBegin /\ listScopes = <<>> /\ listNext = 0
      /\ listAsked = <<>> /\ listShown = <<>>
      /\ wrRetained = [g \in ClientItems |-> <<>>]
      /\ itemCache = [g \in ClientItems |-> <<>>]
  BY DEF ListInit
<1>2. AtRest(dl, wr, listScopes, listAsked)
  BY <1>1, NothingIsSound
<1>3. GroupsAreKept
  <2> DEFINE none == <<>>
  <2>1. /\ none \in Seq(Places) /\ none \in Seq(Pushes) /\ none = <<>>
        /\ Len(none) = 0
    OBVIOUS
  <2>2. /\ wrRetained = [g \in ClientItems |-> none]
        /\ itemCache = [g \in ClientItems |-> none]
    BY <1>1
  <2> HIDE DEF none
  <2> QED BY <2>1, <2>2 DEF GroupsAreKept, Keeps
<1>4. /\ listShown \in Seq(ClientItems) /\ listAsked \in Seq(Shows)
      /\ listNext \in Nat
  BY <1>1
<1> QED BY <1>1, <1>2, <1>3, <1>4 DEF ListInv

(* Every step of the lists keeps the invariant.                             *)
LEMMA ListNextInv ==
  ASSUME ListsAssumption, ListInv, [ListNext]_listVars
  PROVE  ListInv'
<1>1. CASE Begin
  BY <1>1, BeginKeeps
<1>2. CASE \E g \in ClientItems : ShowItem(g)
  BY <1>2, ShowItemKeeps
<1>3. CASE DoPush
  BY <1>3, DoPushKeeps
<1>4. CASE DoBackdrop
  BY <1>4, DoBackdropKeeps
<1>5. CASE DoShadow
  BY <1>5, DoShadowKeeps
<1>6. CASE DoClip
  BY <1>6, DoClipKeeps
<1>7. CASE DoLeave
  BY <1>7, DoLeaveKeeps
<1>8. CASE FinishGroup
  BY <1>8, FinishGroupKeeps
<1>9. CASE EndItem
  BY <1>9, EndItemKeeps
<1>10. CASE UNCHANGED listVars
  BY <1>10 DEF listVars, ListInv, ItemIsUnderway, GroupsAreKept, Showing
<1> QED BY <1>1, <1>2, <1>3, <1>4, <1>5, <1>6, <1>7, <1>8, <1>9, <1>10
        DEF ListNext

(* The invariant states that the lists are consistent.                      *)
LEMMA ListInvIsConsistent ==
  ASSUME ListInv
  PROVE  ListsConsistent
<1>1. Sound(dl, wr)
  BY DEF ListInv, ItemIsUnderway, AtRest, Underway
<1>2. IsInjective(wr.spaces)
  <2>1. wr.spaces \in Seq(Views) /\ SpacesKnown(dl, wr)
    BY <1>1 DEF Sound, WrLists
  <2>2. DOMAIN wr.spaces = 1..Len(wr.spaces)
    BY <2>1
  <2> QED BY <2>1, <2>2 DEF SpacesKnown, IsInjective
<1>3. ShowsWhatIsAsked
  BY DEF ListInv, AtRest, ShowsWhatIsAsked
<1>4. NothingIsLeftOver
  <2>1. listNext = 0 =>
          dl = [Builder EXCEPT !.mScrollIds = dl.mScrollIds] /\ wr.group = <<>>
    BY DEF ListInv, AtRest
  <2> QED BY <1>2, <2>1 DEF NothingIsLeftOver
<1> QED BY <1>3, <1>4 DEF ListsConsistent

-----------------------------------------------------------------------------
(* The parts together                                                       *)

ContentInv == BlobInv /\ FontInv /\ ListInv /\ ProgramInv

(* Every step is one of a part and leaves the others as they were.          *)
LEMMA ContentInvariant == Spec => []ContentInv
<1>1. Init => ContentInv
  BY BlobInitInv, FontInitInv, ListInitInv, ProgramsAssumption,
     ProgramInitInv
     DEF Init, ContentInv
<1>2. ContentInv /\ [Next]_vars => ContentInv'
  <2> SUFFICES ASSUME ContentInv, [Next]_vars PROVE ContentInv'
    OBVIOUS
  <2>1. /\ [BlobNext]_blobVars /\ [FontNext]_fontVars
        /\ [ListNext]_listVars /\ [ProgramNext]_programVars
    BY DEF Next, vars, BlobStep, FontStep, ListStep, ProgramStep
  <2>2. BlobInv' /\ FontInv'
    BY <2>1, BlobNextInv, FontNextInv DEF ContentInv
  <2>3. ListInv'
    BY <2>1, ListsAssumption, ListNextInv DEF ContentInv
  <2>4. ProgramInv'
    BY <2>1, ProgramsAssumption, ProgramNextInv DEF ContentInv
  <2> QED BY <2>2, <2>3, <2>4 DEF ContentInv
<1> QED BY <1>1, <1>2, PTL DEF Spec

(* For all items, rectangles and fonts, and any order of calls: however     *)
(* many partial recordings were merged, the handler's is that of the last   *)
(* display list, no thread panics, and a rasterizer replays its own list    *)
(* (merge_blob_images, CachedReader, Moz2DRenderCallback).  The instances   *)
(* prepared for it and their fonts are in the tables unless they were       *)
(* deleted since, data is held once, and the log of deletions tells the     *)
(* last reason why a font is missing, though it wraps around                *)
(* (process_fonts, ~FontTemplate, FontDeleteLog).                           *)
THEOREM BlobImagesAreConsistent == Spec => []BlobImagesConsistent
<1>1. ContentInv => BlobImagesConsistent
  BY BlobInvConsistent, FontInvConsistent DEF ContentInv, BlobImagesConsistent
<1> QED BY <1>1, ContentInvariant, PTL

(* For all items of the client, lists, rectangles and places, and whatever  *)
(* was kept of earlier lists: a list shows what its items ask, in their     *)
(* order, whether they were pushed or reused, with the ids this list gave   *)
(* (MergeClipLeaf, SuspendClipLeafMerging, CancelGroup, FinishGroup,        *)
(* ReuseItem).  A view has one space in it, and nothing of an item is left  *)
(* for the next one (DefineScrollLayer, ~SpaceAndClipChainHelper).          *)
THEOREM ListsAreConsistent == Spec => []ListsConsistent
<1>1. ContentInv => ListsConsistent
  BY ListInvIsConsistent DEF ContentInv
<1> QED BY <1>1, ContentInvariant, PTL

(* For all programs, saves and runs: what is loaded from the disk is a      *)
(* program that this version saved under that name, whole, and is loaded    *)
(* once (deserialize_program_binary, swap_remove).                          *)
THEOREM ProgramsAreConsistent == Spec => []ProgramsConsistent
<1>1. ContentInv => ProgramsConsistent
  BY DEF ContentInv, ProgramInv
<1> QED BY <1>1, ContentInvariant, PTL
=============================================================================
