-------------------------- MODULE DurableLogProofs --------------------------
(***************************************************************************)
(* The log on disk keeps what it has acknowledged, whenever the power      *)
(* fails, for every length of the log and every set of entries.            *)
(***************************************************************************)
EXTENDS DurableLog, TLAPS

-----------------------------------------------------------------------------
(* Images of the file *)

LEMMA ValueHasTorn == Torn \in Value /\ Entry \subseteq Value
BY DEF Value

(* An entry put into an image is read at its place and nowhere else. *)
LEMMA PutAt ==
    ASSUME NEW img \in Seq(Value), NEW k \in Nat, NEW e \in Value
    PROVE  /\ Put(img, k, e) \in Seq(Value)
           /\ \A j \in Nat \ {0} :
                 At(Put(img, k, e), j) = IF j = k + 1 THEN e ELSE At(img, j)
<1> DEFINE n == IF Len(img) > k THEN Len(img) ELSE k + 1
<1>1. n \in Nat /\ n >= k + 1 /\ n >= Len(img)
  OBVIOUS
<1>2. \A j \in 1 .. n : At(img, j) \in Value
  BY ValueHasTorn, <1>1 DEF At
<1>3. Put(img, k, e) = [j \in 1 .. n |-> IF j = k + 1 THEN e ELSE At(img, j)]
  BY DEF Put
<1> HIDE DEF n
<1>4. Put(img, k, e) \in Seq(Value) /\ Len(Put(img, k, e)) = n
  BY <1>1, <1>2, <1>3
<1>5. ASSUME NEW j \in Nat \ {0}
      PROVE  At(Put(img, k, e), j) = IF j = k + 1 THEN e ELSE At(img, j)
  <2>1. CASE j <= n
    BY <1>1, <1>3, <1>4, <2>1 DEF At
  <2>2. CASE ~ (j <= n)
    <3>1. At(Put(img, k, e), j) = Torn
      BY <1>4, <2>2 DEF At
    <3>2. j # k + 1 /\ At(img, j) = Torn
      BY <1>1, <2>2 DEF At
    <3>3. QED
      BY <3>1, <3>2
  <2>3. QED
    BY <2>1, <2>2
<1>6. QED
  BY <1>4, <1>5

(* Cutting an image leaves what comes before. *)
LEMMA CutAt ==
    ASSUME NEW img \in Seq(Value), NEW k \in Nat
    PROVE  /\ Cut(img, k) \in Seq(Value)
           /\ Len(Cut(img, k)) <= k /\ Len(Cut(img, k)) <= Len(img)
           /\ Len(img) <= k => Cut(img, k) = img
           /\ \A j \in 1 .. Len(Cut(img, k)) : Cut(img, k)[j] = img[j]
           /\ \A j \in 1 .. k : At(Cut(img, k), j) = At(img, j)
<1>1. CASE Len(img) > k
  <2>1. Cut(img, k) = SubSeq(img, 1, k)
    BY <1>1 DEF Cut
  <2>2. /\ SubSeq(img, 1, k) \in Seq(Value) /\ Len(SubSeq(img, 1, k)) = k
        /\ \A j \in 1 .. k : SubSeq(img, 1, k)[j] = img[j]
    BY <1>1
  <2>3. \A j \in 1 .. k : At(Cut(img, k), j) = At(img, j)
    BY <1>1, <2>1, <2>2 DEF At
  <2>4. QED
    BY <1>1, <2>1, <2>2, <2>3
<1>2. CASE ~ (Len(img) > k)
  BY <1>2 DEF Cut
<1>3. QED
  BY <1>1, <1>2

LEMMA LogOfAt ==
    ASSUME NEW img \in Seq(Value), NEW n \in Nat
    PROVE  /\ LogOf(img, n) \in Seq(Value) /\ Len(LogOf(img, n)) = n
           /\ \A j \in 1 .. n : LogOf(img, n)[j] = At(img, j)
<1>1. \A j \in 1 .. n : At(img, j) \in Value
  BY ValueHasTorn DEF At
<1>2. QED
  BY <1>1 DEF LogOf

(* Two sequences with the same elements are equal. *)
LEMMA SameSeq ==
    ASSUME NEW s \in Seq(Value), NEW t \in Seq(Value), Len(s) = Len(t),
           \A j \in 1 .. Len(s) : s[j] = t[j]
    PROVE  s = t
OBVIOUS

LEMMA PrefixElements ==
    ASSUME NEW s \in Seq(Value), NEW t \in Seq(Value)
    PROVE  IsPrefix(s, t) <=> Len(s) <= Len(t) /\ \A j \in 1 .. Len(s) : s[j] = t[j]
<1>1. CASE Len(s) <= Len(t)
  <2> DEFINE a == SubSeq(s, 1, Len(s))
             b == SubSeq(t, 1, Len(s))
  <2>1. /\ a \in Seq(Value) /\ Len(a) = Len(s) /\ \A j \in 1 .. Len(s) : a[j] = s[j]
    OBVIOUS
  <2>2. /\ b \in Seq(Value) /\ Len(b) = Len(s) /\ \A j \in 1 .. Len(s) : b[j] = t[j]
    BY <1>1
  <2>3. IsPrefix(s, t) <=> a = b
    BY <1>1 DEF IsPrefix
  <2> HIDE DEF a, b
  <2>4. (\A j \in 1 .. Len(s) : s[j] = t[j]) => a = b
    BY <2>1, <2>2, SameSeq
  <2>5. a = b => \A j \in 1 .. Len(s) : s[j] = t[j]
    BY <2>1, <2>2
  <2>6. QED
    BY <1>1, <2>3, <2>4, <2>5
<1>2. CASE ~ (Len(s) <= Len(t))
  BY <1>2 DEF IsPrefix
<1>3. QED
  BY <1>1, <1>2

-----------------------------------------------------------------------------
(* The invariant, one system call at a time *)

LEMMA InitInv == Init => DurableInv
<1> SUFFICES ASSUME Init PROVE DurableInv
  OBVIOUS
<1>1. <<>> \in Seq(Value) /\ <<>> \in Seq(Entry) /\ Len(<<>>) = 0
  OBVIOUS
<1>2. TypeOK
  <2>1. killed \in BOOLEAN
    BY Zenon DEF Init
  <2>2. QED
    BY <2>1, BoundAssumption, <1>1 DEF Init, TypeOK
<1>3. Cursor /\ Reads
  BY BoundAssumption, <1>1 DEF Init, Cursor, Reads, Removing, Writing
<1>4. Images
  BY BoundAssumption, <1>1 DEF Init, Images, Agree
<1>5. Acked
  BY <1>1 DEF Init, Acked
<1>6. QED
  BY <1>2, <1>3, <1>4, <1>5 DEF DurableInv

(* A system call that fails disturbs the history for good. *)
LEMMA FailDisturbs ==
    ASSUME TypeOK, Fail
    PROVE  errors' \in 0 .. MaxErrors /\ killed' = killed /\ ~ Undisturbed'
BY BoundAssumption DEF Fail, TypeOK, Undisturbed

LEMMA ReceiveInv ==
    ASSUME DurableInv, NEW k \in 0 .. MaxLength, NEW entries \in Seq(Entry),
           Receive(k, entries)
    PROVE  DurableInv'
<1> DEFINE conflict == entries # <<>> /\ k < length
<1>1. /\ pc = "idle" /\ k <= length /\ k + Len(entries) <= MaxLength
      /\ keep' = k /\ new' = entries /\ next' = k /\ base' = Visible
      /\ acked' = IF conflict THEN Cut(acked, k) ELSE acked
      /\ pc' = IF conflict THEN "remove" ELSE "write"
      /\ file' = file /\ fileImages' = fileImages /\ meta' = meta /\ metaImages' = metaImages
      /\ length' = length /\ errors' = errors /\ killed' = killed
  BY DEF Receive, files, faults
<1>2. /\ file \in Seq(Value) /\ length \in Nat /\ k \in Nat /\ acked \in Seq(Value)
      /\ Undisturbed' = Undisturbed
  BY <1>1, BoundAssumption DEF DurableInv, TypeOK, Acked, Undisturbed
<1>3. /\ Visible \in Seq(Value) /\ Len(Visible) = length
      /\ \A j \in 1 .. length : Visible[j] = At(file, j)
  BY <1>2, LogOfAt DEF Visible
<1> HIDE DEF conflict
<1>4. TypeOK'
  BY <1>1, <1>2 DEF DurableInv, TypeOK
<1>5. Cursor'
  BY <1>1, <1>2, <1>3 DEF Cursor, Removing, Writing, conflict
<1>6. Reads'
  <2>1. ~ conflict /\ entries # <<>> => length = k
    BY <1>1, <1>2 DEF conflict
  <2>2. QED
    BY <1>1, <1>2, <1>3, <2>1 DEF Reads, Wanted, conflict
<1>7. Images'
  BY <1>1, <1>2 DEF DurableInv, Images, Agree, conflict
<1>8. Acked'
  <2>1. CASE conflict
    BY <1>1, <1>2, <2>1, CutAt DEF DurableInv, Acked
  <2>2. CASE ~ conflict
    BY <1>1, <1>2, <2>2 DEF DurableInv, Acked, conflict
  <2>3. QED
    BY <2>1, <2>2
<1>9. QED
  BY <1>4, <1>5, <1>6, <1>7, <1>8 DEF DurableInv

LEMMA RemoveLengthInv ==
    ASSUME DurableInv, RemoveLength
    PROVE  DurableInv'
<1>1. /\ pc = "remove" /\ length' = keep /\ pc' \in {"remove_sync", "write"}
      /\ file' = file /\ fileImages' = fileImages /\ keep' = keep /\ new' = new
      /\ base' = base /\ next' = next /\ acked' = acked
      /\ \/ /\ meta' = keep /\ metaImages' = metaImages \cup {keep} /\ pc' = "remove_sync"
            /\ errors' = errors /\ killed' = killed /\ Undisturbed' = Undisturbed
         \/ Fail /\ pc' = "write" /\ meta' = meta /\ metaImages' = metaImages
  BY DEF RemoveLength, request, faults, Undisturbed
<1>2. /\ errors' \in 0 .. MaxErrors /\ killed' \in BOOLEAN /\ (Undisturbed' => Undisturbed)
      /\ Undisturbed' => pc' = "remove_sync" /\ metaImages' = metaImages \cup {keep}
  BY <1>1, FailDisturbs DEF DurableInv, TypeOK
<1>3. /\ keep \in 0 .. MaxLength /\ keep <= Len(base) /\ next = keep /\ new # <<>>
      /\ length = Len(base) /\ \A j \in 1 .. length : At(file, j) = base[j]
      /\ new \in Seq(Entry) /\ base \in Seq(Value) /\ Len(base) \in Nat
      /\ file \in fileImages
  BY <1>1 DEF DurableInv, TypeOK, Cursor, Reads, Removing
<1>4. TypeOK'
  BY <1>1, <1>2, <1>3, BoundAssumption DEF DurableInv, TypeOK
<1>5. Cursor'
  BY <1>1, <1>3, BoundAssumption DEF DurableInv, Cursor, Removing, Writing
<1>6. Reads'
  BY <1>1, <1>3, BoundAssumption DEF Reads, Wanted
<1>7. Images'
  <2>1. metaImages' \subseteq 0 .. MaxLength /\ fileImages' \subseteq Seq(Value)
    BY <1>1, <1>3 DEF DurableInv, Images
  <2>2. Undisturbed' => metaImages = {length} /\ Agree(length)
    BY <1>1, <1>2 DEF DurableInv, Images
  <2>3. ASSUME Undisturbed', NEW img \in fileImages, NEW j \in 1 .. Len(base)
        PROVE  At(img, j) = base[j]
    BY <1>3, <2>2, <2>3 DEF Agree
  <2>4. Undisturbed' => Agree(length)'
    BY <1>1, <1>3, <2>2, BoundAssumption DEF Agree
  <2>5. QED
    BY <1>1, <1>2, <1>3, <2>1, <2>2, <2>3, <2>4 DEF Images
<1>8. Acked'
  BY <1>1, <1>2, <1>3 DEF DurableInv, Acked
<1>9. QED
  BY <1>4, <1>5, <1>6, <1>7, <1>8 DEF DurableInv

LEMMA RemoveSyncInv ==
    ASSUME DurableInv, RemoveSync
    PROVE  DurableInv'
<1>1. /\ pc = "remove_sync" /\ pc' = "truncate"
      /\ file' = file /\ fileImages' = fileImages /\ keep' = keep /\ new' = new
      /\ base' = base /\ next' = next /\ acked' = acked /\ meta' = meta /\ length' = length
      /\ \/ /\ metaImages' = {meta}
            /\ errors' = errors /\ killed' = killed /\ Undisturbed' = Undisturbed
         \/ Fail /\ metaImages' = metaImages
  BY DEF RemoveSync, request, faults, Undisturbed
<1>2. /\ errors' \in 0 .. MaxErrors /\ killed' \in BOOLEAN /\ (Undisturbed' => Undisturbed)
      /\ Undisturbed' => metaImages' = {meta}
  BY <1>1, FailDisturbs DEF DurableInv, TypeOK
<1>3. TypeOK'
  BY <1>1, <1>2 DEF DurableInv, TypeOK
<1>4. Cursor' /\ Reads'
  BY <1>1 DEF DurableInv, Cursor, Reads, Removing, Writing, Wanted
<1>5. Images'
  <2>1. metaImages' \subseteq 0 .. MaxLength /\ fileImages' \subseteq Seq(Value)
    BY <1>1 DEF DurableInv, Images, TypeOK
  <2>2. Undisturbed' => meta' = length' /\ metaImages' = {length'} /\ Agree(length)'
    BY <1>1, <1>2 DEF DurableInv, Images, Agree
  <2>3. QED
    BY <1>1, <2>1, <2>2 DEF Images
<1>6. Acked'
  BY <1>1, <1>2 DEF DurableInv, Acked
<1>7. QED
  BY <1>3, <1>4, <1>5, <1>6 DEF DurableInv

LEMMA RemoveTailInv ==
    ASSUME DurableInv, RemoveTail
    PROVE  DurableInv'
<1>1. /\ pc = "truncate" /\ pc' = "write"
      /\ keep' = keep /\ new' = new /\ metaImages' = metaImages
      /\ base' = base /\ next' = next /\ acked' = acked /\ meta' = meta /\ length' = length
      /\ \/ /\ file' = Cut(file, length)
            /\ fileImages' = fileImages \cup {Cut(img, length) : img \in fileImages}
            /\ errors' = errors /\ killed' = killed /\ Undisturbed' = Undisturbed
         \/ Fail /\ file' = file /\ fileImages' = fileImages
  BY DEF RemoveTail, request, faults, Undisturbed
<1>2. /\ errors' \in 0 .. MaxErrors /\ killed' \in BOOLEAN /\ (Undisturbed' => Undisturbed)
  BY <1>1, FailDisturbs DEF DurableInv, TypeOK
<1>3. /\ length \in Nat /\ file \in Seq(Value) /\ file \in fileImages
      /\ fileImages \subseteq Seq(Value)
  BY BoundAssumption DEF DurableInv, TypeOK, Images
<1>4. ASSUME NEW img \in fileImages'
      PROVE  /\ img \in Seq(Value)
             /\ \E old \in fileImages : \A j \in 1 .. length : At(img, j) = At(old, j)
  <2>1. CASE img \in fileImages
    BY <1>3, <2>1
  <2>2. CASE \E old \in fileImages : img = Cut(old, length)
    BY <1>3, <2>2, CutAt
  <2>3. QED
    BY <1>1, <2>1, <2>2
<1>5. /\ file' \in Seq(Value) /\ file' \in fileImages'
      /\ \A j \in 1 .. length : At(file', j) = At(file, j)
  BY <1>1, <1>3, CutAt
<1>6. TypeOK'
  BY <1>1, <1>2, <1>5 DEF DurableInv, TypeOK
<1>7. Cursor'
  BY <1>1, <1>3 DEF DurableInv, Cursor, Removing, Writing
<1>8. Reads'
  BY <1>1, <1>5 DEF DurableInv, Reads, Wanted, Cursor, Removing
<1>9. Images'
  <2>1. metaImages' \subseteq 0 .. MaxLength /\ fileImages' \subseteq Seq(Value)
    BY <1>1, <1>4 DEF DurableInv, Images
  <2>2. Undisturbed' => /\ meta' = length' /\ metaImages' = {length'}
                        /\ Agree(length) /\ length = next
    BY <1>1, <1>2 DEF DurableInv, Images, Cursor, Removing
  <2>3. Undisturbed' => Agree(length)'
    BY <1>1, <1>4, <1>5, <2>2 DEF Agree
  <2>4. QED
    BY <1>1, <2>1, <2>2, <2>3 DEF Images
<1>10. Acked'
  <2>1. Undisturbed' => Len(acked) <= length
    BY <1>1, <1>2 DEF DurableInv, Acked
  <2>2. QED
    BY <1>1, <1>2, <1>3, <1>5, <2>1 DEF DurableInv, Acked
<1>11. QED
  BY <1>6, <1>7, <1>8, <1>9, <1>10 DEF DurableInv

LEMMA WriteOutOfBoundsInv ==
    ASSUME DurableInv, WriteOutOfBounds
    PROVE  DurableInv'
<1>1. /\ pc = "write" /\ next < keep + Len(new) /\ next > length
      /\ next' = next + 1 /\ pc' = "write"
      /\ file' = file /\ fileImages' = fileImages /\ meta' = meta /\ metaImages' = metaImages
      /\ length' = length /\ keep' = keep /\ new' = new /\ base' = base /\ acked' = acked
      /\ errors' = errors /\ killed' = killed /\ Undisturbed' = Undisturbed
  BY DEF WriteOutOfBounds, Pending, Returned, files, request, faults, Undisturbed
<1>2. /\ keep \in Nat /\ next \in Nat /\ length \in Nat /\ new \in Seq(Entry) /\ next >= keep
      /\ new # <<>>
  BY <1>1, BoundAssumption DEF DurableInv, TypeOK, Cursor
<1>3. ~ Undisturbed
  BY <1>1, <1>2 DEF DurableInv, Images
<1>4. TypeOK'
  BY <1>1, <1>2 DEF DurableInv, TypeOK
<1>5. Cursor'
  BY <1>1, <1>2 DEF DurableInv, Cursor, Removing, Writing
<1>6. Reads'
  BY <1>1, <1>2 DEF DurableInv, Reads, Wanted
<1>7. Images' /\ Acked'
  BY <1>1, <1>3 DEF DurableInv, Images, Acked
<1>8. QED
  BY <1>4, <1>5, <1>6, <1>7 DEF DurableInv

LEMMA WriteEntryInv ==
    ASSUME DurableInv, WriteEntry
    PROVE  DurableInv'
<1> DEFINE e == new[next - keep + 1]
<1>1. /\ pc = "write" /\ next < keep + Len(new) /\ next <= length
      /\ fileImages' = fileImages \cup {Put(img, next, x) : img \in fileImages, x \in {e, Torn}}
      /\ meta' = meta /\ metaImages' = metaImages
      /\ length' = length /\ keep' = keep /\ new' = new /\ base' = base /\ acked' = acked
      /\ \/ /\ file' = Put(file, next, e) /\ pc' = "write_sync" /\ next' = next
            /\ errors' = errors /\ killed' = killed /\ Undisturbed' = Undisturbed
         \/ file' = Put(file, next, Torn) /\ Fail /\ next' = next + 1 /\ pc' = "write"
  BY DEF WriteEntry, Pending, Returned, request, faults, Undisturbed
<1>2. /\ keep \in Nat /\ next \in Nat /\ length \in Nat /\ new \in Seq(Entry) /\ next >= keep
      /\ new # <<>> /\ file \in Seq(Value) /\ file \in fileImages
      /\ fileImages \subseteq Seq(Value) /\ next - keep + 1 \in 1 .. Len(new)
  BY <1>1, BoundAssumption DEF DurableInv, TypeOK, Cursor, Images
<1>3. e \in Value /\ Torn \in Value /\ e = Wanted(next + 1) /\ length = next
  <2>1. e \in Entry /\ next + 1 - keep = next - keep + 1 /\ ~ (next + 1 <= keep)
    BY <1>2
  <2>2. QED
    BY <1>1, <1>2, <2>1, ValueHasTorn DEF Wanted, DurableInv, Cursor
<1>4. /\ errors' \in 0 .. MaxErrors /\ killed' \in BOOLEAN /\ (Undisturbed' => Undisturbed)
      /\ Undisturbed' => pc' = "write_sync" /\ next' = next
  BY <1>1, FailDisturbs DEF DurableInv, TypeOK
<1> HIDE DEF e
<1>5. ASSUME NEW img \in fileImages'
      PROVE  /\ img \in Seq(Value)
             /\ \E old \in fileImages : \A j \in 1 .. length : At(img, j) = At(old, j)
  <2>1. CASE img \in fileImages
    BY <1>2, <2>1
  <2>2. CASE \E old \in fileImages, x \in {e, Torn} : img = Put(old, next, x)
    <3>1. PICK old \in fileImages, x \in {e, Torn} : img = Put(old, next, x)
      BY <2>2
    <3>2. old \in Seq(Value) /\ x \in Value /\ next \in Nat
      BY <1>2, <1>3
    <3>3. /\ Put(old, next, x) \in Seq(Value)
          /\ \A j \in Nat \ {0} :
                At(Put(old, next, x), j) = IF j = next + 1 THEN x ELSE At(old, j)
      BY <3>2, PutAt
    <3>4. \A j \in 1 .. length : At(Put(old, next, x), j) = At(old, j)
      BY <1>2, <1>3, <3>3
    <3>5. QED
      BY <3>1, <3>3, <3>4
  <2>3. QED
    BY <1>1, <2>1, <2>2
<1>6. /\ file' \in Seq(Value) /\ file' \in fileImages'
      /\ \A j \in 1 .. length : At(file', j) = At(file, j)
      /\ pc' = "write_sync" => At(file', next + 1) = e
  <2>1. PICK x \in {e, Torn} : file' = Put(file, next, x) /\ (pc' = "write_sync" => x = e)
    BY <1>1
  <2>2. x \in Value /\ next \in Nat /\ file \in Seq(Value)
    BY <1>2, <1>3
  <2>3. /\ Put(file, next, x) \in Seq(Value)
        /\ \A j \in Nat \ {0} :
              At(Put(file, next, x), j) = IF j = next + 1 THEN x ELSE At(file, j)
    BY <2>2, PutAt
  <2>4. file' \in fileImages'
    BY <1>1, <1>2, <2>1
  <2>5. /\ \A j \in 1 .. length : At(Put(file, next, x), j) = At(file, j)
        /\ At(Put(file, next, x), next + 1) = x
    BY <1>2, <1>3, <2>3
  <2>6. QED
    BY <2>1, <2>3, <2>4, <2>5
<1>7. TypeOK'
  BY <1>1, <1>2, <1>4, <1>6 DEF DurableInv, TypeOK
<1>8. Cursor'
  BY <1>1, <1>2, <1>3 DEF DurableInv, Cursor, Removing, Writing
<1>9. Reads'
  <2>1. \A j \in 1 .. length : At(file', j) = Wanted(j)
    BY <1>1, <1>2, <1>6 DEF DurableInv, Reads
  <2>2. \A j : Wanted(j)' = Wanted(j)
    BY <1>1 DEF Wanted
  <2>3. pc' = "write_sync" => next' = next
    BY <1>1
  <2>4. QED
    BY <1>1, <1>2, <1>3, <1>6, <2>1, <2>2, <2>3 DEF Reads, Wanted
<1>10. Images'
  <2>1. metaImages' \subseteq 0 .. MaxLength /\ fileImages' \subseteq Seq(Value)
    BY <1>1, <1>5 DEF DurableInv, Images
  <2>2. Undisturbed' => meta' = length' /\ metaImages' = {length'} /\ Agree(length)
    BY <1>1, <1>4 DEF DurableInv, Images
  <2>3. ASSUME Undisturbed' PROVE Agree(length)'
    <3>1. ASSUME NEW img \in fileImages', NEW j \in 1 .. length PROVE At(img, j) = At(file', j)
      <4>1. PICK old \in fileImages : At(img, j) = At(old, j)
        BY <1>5
      <4>2. At(old, j) = At(file, j)
        BY <2>2, <2>3 DEF Agree
      <4>3. At(file', j) = At(file, j)
        BY <1>6
      <4>4. QED
        BY <4>1, <4>2, <4>3
    <3>2. length' = length
      BY <1>1
    <3>3. QED
      BY <3>1, <3>2 DEF Agree
  <2>4. QED
    BY <1>1, <1>4, <2>1, <2>2, <2>3 DEF Images
<1>11. Acked'
  <2>1. Undisturbed' => Len(acked) <= length
    BY <1>1, <1>4 DEF DurableInv, Acked
  <2>2. QED
    BY <1>1, <1>2, <1>4, <1>6, <2>1 DEF DurableInv, Acked
<1>12. QED
  BY <1>7, <1>8, <1>9, <1>10, <1>11 DEF DurableInv

LEMMA WriteSyncInv ==
    ASSUME DurableInv, WriteSync
    PROVE  DurableInv'
<1>1. /\ pc = "write_sync" /\ length = next /\ pc' = "count" /\ next' = next
      /\ file' = file /\ meta' = meta /\ metaImages' = metaImages
      /\ length' = length /\ keep' = keep /\ new' = new /\ base' = base /\ acked' = acked
      /\ \/ /\ fileImages' = {file}
            /\ errors' = errors /\ killed' = killed /\ Undisturbed' = Undisturbed
         \/ Fail /\ fileImages' = fileImages
  BY DEF WriteSync, request, faults, Undisturbed, DurableInv, Cursor
<1>2. /\ errors' \in 0 .. MaxErrors /\ killed' \in BOOLEAN /\ (Undisturbed' => Undisturbed)
      /\ Undisturbed' => fileImages' = {file}
  BY <1>1, FailDisturbs DEF DurableInv, TypeOK
<1>3. TypeOK'
  BY <1>1, <1>2 DEF DurableInv, TypeOK
<1>4. Cursor' /\ Reads'
  BY <1>1 DEF DurableInv, Cursor, Reads, Removing, Writing, Wanted
<1>5. Images'
  <2>1. metaImages' \subseteq 0 .. MaxLength /\ fileImages' \subseteq Seq(Value)
    BY <1>1 DEF DurableInv, Images, TypeOK
  <2>2. Undisturbed' => meta' = length' /\ metaImages' = {length'}
    BY <1>1, <1>2 DEF DurableInv, Images
  <2>3. Undisturbed' => \A n : Agree(n)'
    BY <1>1, <1>2 DEF Agree
  <2>4. QED
    BY <1>1, <2>1, <2>2, <2>3 DEF Images
<1>6. Acked'
  BY <1>1, <1>2 DEF DurableInv, Acked
<1>7. QED
  BY <1>3, <1>4, <1>5, <1>6 DEF DurableInv

LEMMA CountEntryInv ==
    ASSUME DurableInv, CountEntry
    PROVE  DurableInv'
<1>1. /\ pc = "count" /\ length' = length + 1
      /\ file' = file /\ fileImages' = fileImages
      /\ keep' = keep /\ new' = new /\ base' = base /\ acked' = acked
      /\ \/ /\ meta' = length + 1 /\ metaImages' = metaImages \cup {length + 1}
            /\ pc' = "count_sync" /\ next' = next
            /\ errors' = errors /\ killed' = killed /\ Undisturbed' = Undisturbed
         \/ /\ Fail /\ meta' = meta /\ metaImages' = metaImages
            /\ pc' = "write" /\ next' = next + 1
  BY DEF CountEntry, Returned, request, faults, Undisturbed
<1>2. /\ keep \in Nat /\ next \in Nat /\ length = next /\ new \in Seq(Entry) /\ next >= keep
      /\ new # <<>> /\ next < keep + Len(new) /\ keep + Len(new) <= MaxLength
  BY <1>1, BoundAssumption DEF DurableInv, TypeOK, Cursor, Writing
<1>3. /\ errors' \in 0 .. MaxErrors /\ killed' \in BOOLEAN /\ (Undisturbed' => Undisturbed)
      /\ Undisturbed' => /\ pc' = "count_sync" /\ next' = next /\ meta' = length + 1
                         /\ metaImages' = metaImages \cup {length + 1}
  BY <1>1, FailDisturbs DEF DurableInv, TypeOK
<1>4. length + 1 \in 0 .. MaxLength /\ next + 1 \in keep .. keep + Len(new)
  BY <1>2, BoundAssumption
<1>5. TypeOK'
  BY <1>1, <1>2, <1>3, <1>4 DEF DurableInv, TypeOK
<1>6. Cursor'
  BY <1>1, <1>2 DEF DurableInv, Cursor, Removing, Writing
<1>7. Reads'
  <2>1. \A j \in 1 .. length + 1 : At(file, j) = Wanted(j)
    BY <1>1, <1>2 DEF DurableInv, Reads
  <2>2. \A j : Wanted(j)' = Wanted(j)
    BY <1>1 DEF Wanted
  <2>3. QED
    BY <1>1, <1>2, <2>1, <2>2 DEF Reads
<1>8. Images'
  <2>1. metaImages' \subseteq 0 .. MaxLength /\ fileImages' \subseteq Seq(Value)
    BY <1>1, <1>4 DEF DurableInv, Images
  <2>2. Undisturbed' => metaImages = {length} /\ Agree(length + 1)
    BY <1>1, <1>3 DEF DurableInv, Images
  <2>3. Undisturbed' => Agree(length)'
    BY <1>1, <2>2 DEF Agree
  <2>4. QED
    BY <1>1, <1>2, <1>3, <2>1, <2>2, <2>3 DEF Images
<1>9. Acked'
  BY <1>1, <1>2, <1>3 DEF DurableInv, Acked
<1>10. QED
  BY <1>5, <1>6, <1>7, <1>8, <1>9 DEF DurableInv

LEMMA CountSyncInv ==
    ASSUME DurableInv, CountSync
    PROVE  DurableInv'
<1>1. /\ pc = "count_sync" /\ pc' = "write" /\ next' = next + 1
      /\ file' = file /\ fileImages' = fileImages /\ meta' = meta
      /\ length' = length /\ keep' = keep /\ new' = new /\ base' = base /\ acked' = acked
      /\ \/ /\ metaImages' = {meta}
            /\ errors' = errors /\ killed' = killed /\ Undisturbed' = Undisturbed
         \/ Fail /\ metaImages' = metaImages
  BY DEF CountSync, Returned, request, faults, Undisturbed
<1>2. /\ keep \in Nat /\ next \in Nat /\ length = next + 1 /\ new \in Seq(Entry)
      /\ next >= keep /\ new # <<>> /\ next < keep + Len(new)
  BY <1>1, BoundAssumption DEF DurableInv, TypeOK, Cursor, Writing
<1>3. /\ errors' \in 0 .. MaxErrors /\ killed' \in BOOLEAN /\ (Undisturbed' => Undisturbed)
      /\ Undisturbed' => metaImages' = {meta}
  BY <1>1, FailDisturbs DEF DurableInv, TypeOK
<1>4. TypeOK'
  BY <1>1, <1>2, <1>3 DEF DurableInv, TypeOK
<1>5. Cursor'
  BY <1>1, <1>2 DEF DurableInv, Cursor, Removing, Writing
<1>6. Reads'
  BY <1>1, <1>2 DEF DurableInv, Reads, Wanted
<1>7. Images'
  <2>1. metaImages' \subseteq 0 .. MaxLength /\ fileImages' \subseteq Seq(Value)
    BY <1>1 DEF DurableInv, Images, TypeOK
  <2>2. Undisturbed' => meta' = length' /\ metaImages' = {length'} /\ Agree(length)'
    BY <1>1, <1>3 DEF DurableInv, Images, Agree
  <2>3. QED
    BY <1>1, <1>2, <2>1, <2>2 DEF Images
<1>8. Acked'
  BY <1>1, <1>3 DEF DurableInv, Acked
<1>9. QED
  BY <1>4, <1>5, <1>6, <1>7, <1>8 DEF DurableInv

(* The log after a request: the kept part and the first n new entries. *)
LEMMA Merged ==
    ASSUME DurableInv, pc # "idle", NEW n \in 0 .. Len(new)
    PROVE  LET s == SubSeq(base, 1, keep) \o SubSeq(new, 1, n)
           IN  /\ s \in Seq(Value) /\ Len(s) = keep + n
               /\ \A j \in 1 .. keep + n : s[j] = Wanted(j)
<1> DEFINE b == SubSeq(base, 1, keep)
           m == SubSeq(new, 1, n)
<1>1. /\ keep \in Nat /\ base \in Seq(Value) /\ keep <= Len(base) /\ new \in Seq(Value)
      /\ n \in Nat /\ n <= Len(new)
  BY BoundAssumption DEF DurableInv, TypeOK, Cursor, Value
<1>2. b \in Seq(Value) /\ Len(b) = keep /\ \A j \in 1 .. keep : b[j] = base[j]
  BY <1>1
<1>3. m \in Seq(Value) /\ Len(m) = n /\ \A j \in 1 .. n : m[j] = new[j]
  BY <1>1
<1> HIDE DEF b, m
<1>4. /\ b \o m \in Seq(Value) /\ Len(b \o m) = keep + n
      /\ \A j \in 1 .. keep + n : (b \o m)[j] = IF j <= keep THEN b[j] ELSE m[j - keep]
  BY <1>1, <1>2, <1>3
<1>5. ASSUME NEW j \in 1 .. keep + n
      PROVE  (b \o m)[j] = Wanted(j)
  <2>1. CASE j <= keep
    BY <1>1, <1>2, <1>4, <2>1 DEF Wanted
  <2>2. CASE ~ (j <= keep)
    <3>1. j - keep \in 1 .. n
      BY <1>1, <2>2
    <3>2. QED
      BY <1>3, <1>4, <2>2, <3>1 DEF Wanted
  <2>3. QED
    BY <2>1, <2>2
<1>6. QED
  BY <1>4, <1>5 DEF b, m

LEMMA ReplyInv ==
    ASSUME DurableInv, Reply
    PROVE  DurableInv'
<1> DEFINE got == SubSeq(base, 1, keep) \o new
<1>1. /\ pc = "write" /\ next = keep + Len(new)
      /\ acked' = IF IsPrefix(got, acked) THEN acked ELSE got
      /\ pc' = "idle" /\ keep' = 0 /\ new' = <<>> /\ next' = 0 /\ base' = <<>>
      /\ file' = file /\ fileImages' = fileImages /\ meta' = meta /\ metaImages' = metaImages
      /\ length' = length /\ errors' = errors /\ killed' = killed
      /\ Undisturbed' = Undisturbed
  BY DEF Reply, files, faults, Undisturbed
<1>2. /\ keep \in Nat /\ length \in Nat /\ new \in Seq(Entry) /\ new \in Seq(Value)
      /\ keep <= Len(base) /\ Len(new) \in Nat /\ base \in Seq(Value)
  BY <1>1, BoundAssumption DEF DurableInv, TypeOK, Cursor, Value
<1>3. /\ got \in Seq(Value) /\ Len(got) = keep + Len(new)
      /\ \A j \in 1 .. keep + Len(new) : got[j] = Wanted(j)
  <2>1. SubSeq(new, 1, Len(new)) = new
    BY <1>2
  <2>2. pc # "idle" /\ Len(new) \in 0 .. Len(new)
    BY <1>1, <1>2
  <2> DEFINE s == SubSeq(base, 1, keep) \o SubSeq(new, 1, Len(new))
  <2>3. /\ s \in Seq(Value) /\ Len(s) = keep + Len(new)
        /\ \A j \in 1 .. keep + Len(new) : s[j] = Wanted(j)
    BY <2>2, Merged
  <2>4. QED
    BY <2>1, <2>3
<1> HIDE DEF got
<1>4. TypeOK'
  BY <1>1, BoundAssumption DEF DurableInv, TypeOK
<1>5. Cursor' /\ Reads'
  BY <1>1, BoundAssumption DEF Cursor, Reads, Removing, Writing
<1>6. Images'
  BY <1>1 DEF DurableInv, Images, Agree
<1>7. Acked'
  <2>1. Undisturbed => Len(got) <= length /\ \A j \in 1 .. Len(got) : got[j] = At(file, j)
    <3>1. CASE new = <<>>
      <4>1. /\ Len(got) = keep /\ length = Len(base)
            /\ \A j \in 1 .. length : At(file, j) = base[j]
        BY <1>1, <1>2, <1>3, <3>1 DEF DurableInv, Reads
      <4>2. \A j \in 1 .. Len(got) : got[j] = base[j]
        BY <1>2, <1>3, <4>1, <3>1 DEF Wanted
      <4>3. QED
        BY <1>2, <4>1, <4>2
    <3>2. CASE new # <<>>
      BY <1>1, <1>2, <1>3, <3>2 DEF DurableInv, Reads, Images
    <3>3. QED
      BY <3>1, <3>2
  <2>2. QED
    BY <1>1, <1>3, <2>1 DEF DurableInv, Acked
<1>8. QED
  BY <1>4, <1>5, <1>6, <1>7 DEF DurableInv

LEMMA log_initInv ==
    ASSUME DurableInv, NEW n \in metaImages', log_init(n), meta' = n,
           killed' \in BOOLEAN, file' \in fileImages', fileImages' \subseteq fileImages,
           metaImages' \subseteq metaImages, Undisturbed' => Undisturbed,
           Undisturbed' => \/ fileImages' = {file'} /\ metaImages' = {n}
                           \/ pc = "idle" /\ UNCHANGED files
    PROVE  DurableInv'
<1>1. /\ length' = n /\ pc' = "idle" /\ keep' = 0 /\ new' = <<>> /\ next' = 0 /\ base' = <<>>
      /\ acked' = acked /\ errors' = errors
  BY DEF log_init
<1>2. /\ fileImages' \subseteq Seq(Value) /\ metaImages' \subseteq 0 .. MaxLength
      /\ file \in Seq(Value) /\ length \in Nat /\ acked \in Seq(Value)
  BY BoundAssumption DEF DurableInv, Images, TypeOK, Acked
<1>3. TypeOK'
  BY <1>1, <1>2, BoundAssumption DEF DurableInv, TypeOK
<1>4. Cursor' /\ Reads'
  BY <1>1, BoundAssumption DEF Cursor, Reads, Removing, Writing
<1>5. Undisturbed' => metaImages' = {n} /\ Agree(length)'
  <2>1. CASE fileImages' = {file'} /\ metaImages' = {n}
    BY <2>1 DEF Agree
  <2>2. CASE pc = "idle" /\ UNCHANGED files
    BY <1>1, <2>2 DEF files, DurableInv, Images, Agree
  <2>3. QED
    BY <2>1, <2>2
<1>6. Images'
  BY <1>1, <1>2, <1>5 DEF Images
<1>7. Undisturbed' => Len(acked) <= n /\ \A j \in 1 .. Len(acked) : acked[j] = At(file', j)
  <2> SUFFICES ASSUME Undisturbed'
               PROVE  Len(acked) <= n /\ \A j \in 1 .. Len(acked) : acked[j] = At(file', j)
    OBVIOUS
  <2>1. /\ Len(acked) <= length /\ \A j \in 1 .. Len(acked) : acked[j] = At(file, j)
        /\ pc # "idle" /\ new # <<>> => Len(acked) <= keep
    BY DEF DurableInv, Acked
  <2>2. file' \in fileImages /\ Agree(length) /\ n \in metaImages
    BY DEF DurableInv, Images, Agree
  <2>3. \A j \in 1 .. Len(acked) : acked[j] = At(file', j)
    BY <1>2, <2>1, <2>2 DEF Agree
  <2>4. Len(acked) <= n
    <3>1. CASE pc = "remove_sync"
      BY <1>2, <2>1, <2>2, <3>1 DEF DurableInv, Images, Cursor, TypeOK, Removing
    <3>2. CASE pc = "count_sync"
      BY <1>2, <2>1, <2>2, <3>2 DEF DurableInv, Images, Cursor, TypeOK, Writing
    <3>3. CASE pc \notin {"remove_sync", "count_sync"}
      BY <2>1, <2>2, <3>3 DEF DurableInv, Images
    <3>4. QED
      BY <3>1, <3>2, <3>3
  <2>5. QED
    BY <2>3, <2>4
<1>8. Acked'
  BY <1>1, <1>2, <1>7 DEF Acked
<1>9. QED
  BY <1>3, <1>4, <1>6, <1>8 DEF DurableInv

LEMMA ProcessExitInv ==
    ASSUME DurableInv, ProcessExit
    PROVE  DurableInv'
<1>1. /\ pc = "idle" /\ log_init(meta) /\ errors' = errors /\ killed' = killed
      /\ file' = file /\ fileImages' = fileImages /\ meta' = meta /\ metaImages' = metaImages
  BY DEF ProcessExit, log_init, files
<1>2. meta \in metaImages' /\ killed' \in BOOLEAN /\ file' \in fileImages'
  BY <1>1 DEF DurableInv, TypeOK
<1>3. Undisturbed' = Undisturbed /\ UNCHANGED files
  BY <1>1 DEF Undisturbed, files
<1>4. QED
  BY <1>1, <1>2, <1>3, log_initInv

LEMMA KilledInv ==
    ASSUME DurableInv, Killed
    PROVE  DurableInv'
<1>1. /\ log_init(meta) /\ errors' = errors /\ killed' = TRUE
      /\ file' = file /\ fileImages' = fileImages /\ meta' = meta /\ metaImages' = metaImages
  BY DEF Killed, log_init, files
<1>2. meta \in metaImages' /\ killed' \in BOOLEAN /\ file' \in fileImages'
  BY <1>1 DEF DurableInv, TypeOK
<1>3. ~ Undisturbed'
  BY <1>1 DEF Undisturbed
<1>4. QED
  BY <1>1, <1>2, <1>3, log_initInv

LEMMA PowerFailureInv ==
    ASSUME DurableInv, PowerFailure
    PROVE  DurableInv'
<1>1. PICK img \in fileImages, n \in metaImages :
        /\ file' = img /\ fileImages' = {img} /\ meta' = n /\ metaImages' = {n}
        /\ log_init(n) /\ killed' = killed
  BY DEF PowerFailure
<1>2. killed' \in BOOLEAN /\ Undisturbed' = Undisturbed
  BY <1>1 DEF DurableInv, TypeOK, Undisturbed, log_init
<1>3. QED
  BY <1>1, <1>2, log_initInv

-----------------------------------------------------------------------------
(* The results *)

(* Between any two system calls of the merge loop, with calls that fail,    *)
(* kills and power failures: what is on disk, what is read back and what    *)
(* was acknowledged are tied to the request as DurableInv says.             *)
THEOREM DurableInvariant == Spec => []DurableInv
<1>1. ASSUME DurableInv, [Next]_vars
      PROVE  DurableInv'
  <2>1. CASE \E k \in 0 .. MaxLength, n \in 0 .. 2 : \E entries \in [1 .. n -> Entry] :
                Receive(k, entries)
    <3>1. \A n \in 0 .. 2 : \A entries \in [1 .. n -> Entry] : entries \in Seq(Entry)
      OBVIOUS
    <3>2. QED
      BY <1>1, <2>1, <3>1, ReceiveInv
  <2>2. CASE RemoveLength \/ RemoveSync \/ RemoveTail
    BY <1>1, <2>2, RemoveLengthInv, RemoveSyncInv, RemoveTailInv
  <2>3. CASE WriteOutOfBounds \/ WriteEntry \/ WriteSync \/ CountEntry \/ CountSync
    BY <1>1, <2>3, WriteOutOfBoundsInv, WriteEntryInv, WriteSyncInv, CountEntryInv, CountSyncInv
  <2>4. CASE Reply \/ ProcessExit \/ Killed \/ PowerFailure
    BY <1>1, <2>4, ReplyInv, ProcessExitInv, KilledInv, PowerFailureInv
  <2>5. CASE UNCHANGED vars
    BY <1>1, <2>5 DEF vars, files, request, faults, DurableInv, TypeOK, Cursor, Reads, Images,
       Acked, Removing, Writing, Wanted, Agree, Undisturbed
  <2>6. QED
    BY <1>1, <2>1, <2>2, <2>3, <2>4, <2>5 DEF Next
<1>2. QED
  BY InitInv, <1>1, PTL DEF Spec

(* Every variable keeps its type, and what the process reads from the files *)
(* is among what a power failure may leave.                                 *)
THEOREM DurableTyped == Spec => []TypeOK
<1>1. DurableInv => TypeOK
  BY DEF DurableInv
<1>2. QED
  BY DurableInvariant, <1>1, PTL

(* ReadsBack: calls whose results the code ignores may leave too few        *)
(* entries, never a wrong one.                                              *)
THEOREM RequestReadsBack == Spec => []ReadsBack
<1>1. ASSUME DurableInv, pc = "write", new # <<>>
      PROVE  \E n \in 0 .. Len(new) : Visible = SubSeq(base, 1, keep) \o SubSeq(new, 1, n)
  <2> DEFINE n == length - keep
             s == SubSeq(base, 1, keep) \o SubSeq(new, 1, n)
  <2>1. /\ length \in Nat /\ keep \in Nat /\ n \in 0 .. Len(new) /\ keep + n = length
        /\ file \in Seq(Value) /\ pc # "idle"
    BY <1>1, BoundAssumption DEF DurableInv, TypeOK, Cursor
  <2>2. s \in Seq(Value) /\ Len(s) = keep + n /\ \A j \in 1 .. keep + n : s[j] = Wanted(j)
    BY <1>1, <2>1, Merged
  <2>3. /\ Visible \in Seq(Value) /\ Len(Visible) = length
        /\ \A j \in 1 .. length : Visible[j] = At(file, j)
    BY <2>1, LogOfAt DEF Visible
  <2>4. \A j \in 1 .. length : At(file, j) = Wanted(j)
    BY <1>1 DEF DurableInv, Reads
  <2> HIDE DEF s, n
  <2>5. Visible = s
    BY <2>1, <2>2, <2>3, <2>4, SameSeq
  <2>6. QED
    BY <2>1, <2>5 DEF s
<1>2. DurableInv => ReadsBack
  BY <1>1 DEF ReadsBack
<1>3. QED
  BY DurableInvariant, <1>2, PTL

(* What is found is, element by element, as long as a length found and      *)
(* equal to the log the process reads.                                      *)
LEMMA FoundAt ==
    ASSUME DurableInv, NEW img \in fileImages, NEW n \in metaImages
    PROVE  /\ LogOf(img, n) \in Seq(Value) /\ Len(LogOf(img, n)) = n /\ n \in Nat
           /\ \A j \in 1 .. n : LogOf(img, n)[j] = At(img, j)
<1>1. img \in Seq(Value) /\ n \in Nat
  BY BoundAssumption DEF DurableInv, Images
<1>2. QED
  BY <1>1, LogOfAt

(* CrashLeavesPrefix: a power failure at any moment leaves the old log, or  *)
(* its kept part and some of the new entries.                               *)
THEOREM PowerFailureLeavesPrefix == Spec => []CrashLeavesPrefix
<1> DEFINE Good(f) ==
             \/ pc = "idle" /\ f = Visible
             \/ pc # "idle" /\ f = base
             \/ pc # "idle" /\ new # <<>> /\ \E i \in 0 .. Len(new) :
                   f = SubSeq(base, 1, keep) \o SubSeq(new, 1, i)
<1> HIDE DEF Good
<1>1. ASSUME DurableInv, Undisturbed, NEW img \in fileImages, NEW n \in metaImages
      PROVE  Good(LogOf(img, n))
  <2> DEFINE found == LogOf(img, n)
  <2>1. /\ found \in Seq(Value) /\ Len(found) = n /\ n \in Nat
        /\ \A j \in 1 .. n : found[j] = At(img, j)
    BY <1>1, FoundAt
  <2>2. /\ file \in Seq(Value) /\ length \in Nat /\ keep \in Nat /\ next \in Nat
        /\ Agree(length) /\ base \in Seq(Value) /\ Len(base) \in Nat
    BY <1>1, BoundAssumption DEF DurableInv, TypeOK, Images, Agree, Cursor
  <2>3. /\ Visible \in Seq(Value) /\ Len(Visible) = length
        /\ \A j \in 1 .. length : Visible[j] = At(file, j)
    BY <2>2, LogOfAt DEF Visible
  <2> HIDE DEF found
  <2>4. CASE pc = "idle"
    <3>1. n = length /\ \A j \in 1 .. n : found[j] = Visible[j]
      BY <1>1, <2>1, <2>2, <2>3, <2>4 DEF DurableInv, Images, Agree
    <3>2. QED
      BY <2>1, <2>3, <2>4, <3>1, SameSeq DEF found, Good
  <2>5. CASE pc # "idle" /\ n = Len(base) /\ \A j \in 1 .. n : At(img, j) = base[j]
    <3>1. found = base
      BY <2>1, <2>2, <2>5, SameSeq
    <3>2. QED
      BY <2>5, <3>1 DEF found, Good
  <2>6. CASE /\ pc # "idle" /\ new # <<>> /\ n \in keep .. keep + Len(new)
             /\ \A j \in 1 .. n : At(img, j) = Wanted(j)
    <3> DEFINE i == n - keep
               s == SubSeq(base, 1, keep) \o SubSeq(new, 1, i)
    <3>1. i \in 0 .. Len(new) /\ keep + i = n
      BY <2>1, <2>2, <2>6 DEF Cursor
    <3>2. s \in Seq(Value) /\ Len(s) = keep + i /\ \A j \in 1 .. keep + i : s[j] = Wanted(j)
      BY <1>1, <2>6, <3>1, Merged
    <3> HIDE DEF i, s
    <3>3. found = s
      BY <2>1, <2>6, <3>1, <3>2, SameSeq
    <3>4. QED
      BY <2>6, <3>1, <3>3 DEF found, s, Good
  <2>7. CASE pc = "remove" \/ (pc = "write" /\ new = <<>>)
    <3>1. n = Len(base) /\ \A j \in 1 .. n : At(img, j) = base[j]
      BY <1>1, <2>2, <2>7 DEF DurableInv, Images, Reads, Agree
    <3>2. QED
      BY <2>5, <2>7, <3>1
  <2>8. CASE pc = "remove_sync"
    <3>1. /\ new # <<>> /\ n \in {Len(base), keep} /\ length = keep
          /\ \A j \in 1 .. Len(base) : At(img, j) = base[j]
      BY <1>1, <2>8 DEF DurableInv, Images, Cursor, Removing
    <3>2. CASE n = Len(base)
      BY <2>5, <2>8, <3>1, <3>2
    <3>3. CASE n = keep
      <4>1. keep <= Len(base) /\ new \in Seq(Entry) /\ Len(new) \in Nat
        BY <1>1, <2>8 DEF DurableInv, Cursor
      <4>2. \A j \in 1 .. n : At(img, j) = Wanted(j)
        BY <2>2, <3>1, <3>3, <4>1 DEF Wanted
      <4>3. pc # "idle" /\ n \in keep .. keep + Len(new)
        BY <2>2, <2>8, <3>3, <4>1
      <4>4. QED
        BY <2>6, <3>1, <4>2, <4>3
    <3>4. QED
      BY <3>1, <3>2, <3>3
  <2>9. CASE pc \notin {"idle", "remove", "remove_sync"} /\ new # <<>>
    <3>1. \A j \in 1 .. length : At(img, j) = Wanted(j)
      BY <1>1, <2>2, <2>9 DEF DurableInv, Reads, Agree
    <3>2. new \in Seq(Entry) /\ Len(new) \in Nat /\ next \in keep .. keep + Len(new)
      BY <1>1 DEF DurableInv, Cursor, TypeOK
    <3>3. n \in keep .. keep + Len(new) /\ n <= length
      <4>1. CASE pc = "truncate"
        BY <1>1, <2>2, <3>2, <4>1 DEF DurableInv, Images, Cursor
      <4>2. CASE pc = "write"
        BY <1>1, <2>2, <2>9, <3>2, <4>2 DEF DurableInv, Images, Cursor
      <4>3. CASE pc \in {"write_sync", "count"}
        BY <1>1, <2>2, <3>2, <4>3 DEF DurableInv, Images, Cursor
      <4>4. CASE pc = "count_sync"
        BY <1>1, <2>2, <3>2, <4>4 DEF DurableInv, Images, Cursor, Writing
      <4>5. QED
        BY <1>1, <2>9, <4>1, <4>2, <4>3, <4>4 DEF DurableInv, TypeOK
    <3>4. pc # "idle" /\ \A j \in 1 .. n : At(img, j) = Wanted(j)
      BY <2>1, <2>2, <2>9, <3>1, <3>3
    <3>5. QED
      BY <2>6, <2>9, <3>3, <3>4
  <2>10. QED
    <3>1. pc \in {"truncate", "write_sync", "count", "count_sync"} => new # <<>>
      BY <1>1, <2>2 DEF DurableInv, Cursor, Removing, Writing, TypeOK
    <3>2. pc \in {"idle", "remove", "remove_sync", "truncate",
                  "write", "write_sync", "count", "count_sync"}
      BY <1>1 DEF DurableInv, TypeOK
    <3>3. QED
      BY <2>4, <2>7, <2>8, <2>9, <3>1, <3>2
<1>2. DurableInv /\ Undisturbed => \A found \in Outcomes : Good(found)
  BY <1>1 DEF Outcomes
<1>3. DurableInv => CrashLeavesPrefix
  BY <1>2, Zenon DEF CrashLeavesPrefix, Good
<1>4. QED
  BY DurableInvariant, <1>3, PTL

(* AckedIsDurable: what the node has answered for survives a power failure  *)
(* at any later moment, until a newer leader replaces it.                   *)
THEOREM AcknowledgedSurvives == Spec => []AckedIsDurable
<1>1. ASSUME DurableInv, Undisturbed, NEW img \in fileImages, NEW n \in metaImages
      PROVE  IsPrefix(acked, LogOf(img, n))
  <2> DEFINE found == LogOf(img, n)
  <2>1. /\ found \in Seq(Value) /\ Len(found) = n /\ n \in Nat
        /\ \A j \in 1 .. n : found[j] = At(img, j)
    BY <1>1, FoundAt
  <2>2. /\ acked \in Seq(Value) /\ Len(acked) \in Nat /\ Len(acked) <= length
        /\ pc # "idle" /\ new # <<>> => Len(acked) <= keep
        /\ \A j \in 1 .. Len(acked) : acked[j] = At(file, j)
    BY <1>1 DEF DurableInv, Acked
  <2>3. length \in Nat /\ \A j \in 1 .. length : At(img, j) = At(file, j)
    BY <1>1, BoundAssumption DEF DurableInv, Images, Agree, TypeOK
  <2> HIDE DEF found
  <2>4. Len(acked) <= n
    <3>1. CASE pc = "remove_sync"
      BY <1>1, <2>2, <3>1 DEF DurableInv, Images, Cursor, TypeOK, Removing
    <3>2. CASE pc = "count_sync"
      BY <1>1, <2>2, <3>2, BoundAssumption DEF DurableInv, Images, Cursor, TypeOK, Writing
    <3>3. CASE pc \notin {"remove_sync", "count_sync"}
      BY <1>1, <2>2, <3>3 DEF DurableInv, Images
    <3>4. QED
      BY <3>1, <3>2, <3>3
  <2>5. IsPrefix(acked, found)
    BY <2>1, <2>2, <2>3, <2>4, PrefixElements
  <2>6. QED
    BY <2>5 DEF found
<1>2. DurableInv => AckedIsDurable
  BY <1>1 DEF AckedIsDurable, Outcomes
<1>3. QED
  BY DurableInvariant, <1>2, PTL
=============================================================================
