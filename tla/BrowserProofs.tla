---------------------------- MODULE BrowserProofs ----------------------------
(***************************************************************************)
(* The theorems of modules RmfsQueries and Browser, for a table of any     *)
(* size, any names and folders, and any sizes of the listing and the page: *)
(*   - `ls dir` shows the files of the folder, each once, under names that *)
(*     open them, and `mem` counts the files and bytes a caller can read;  *)
(*   - the browser's invariant BrowserInv, and from it that the selection  *)
(*     is on the page, that what is opened exists, that a save succeeds    *)
(*     and, where the listing has room for the whole table, that the       *)
(*     listing is the folder as it is.                                     *)
(* The listings are loops: LoopLemmas says what they pass through.         *)
(***************************************************************************)
EXTENDS Browser, RmfsProofs

(* A listing of the map store: each name of it once, with its size.        *)
Entries == [name : Seq(Parts), size : Nat]

Lists(ls, store) ==
  /\ ls \in Seq(Entries) /\ Len(ls) \in 0 .. MaxFiles
  /\ \A j \in 1 .. Len(ls) :
       ls[j].name \in DOMAIN store /\ ls[j].size = Len(store[ls[j].name])
  /\ \A n \in DOMAIN store : \E j \in 1 .. Len(ls) : ls[j].name = n
  /\ \A i, j \in 1 .. Len(ls) : ls[i].name = ls[j].name => i = j

(* The slot of a file in use shows its name and its size.                  *)
LEMMA UsedEntry ==
  ASSUME TableOK, NEW i \in Slots, files[i].used
  PROVE  /\ files[i].name \in DOMAIN Store
         /\ files[i].size = Len(Store[files[i].name])
         /\ files[i].name \in Seq(Parts) /\ files[i].size \in Nat
<1> DEFINE n == files[i].name
<1>1. n \in Names /\ Named(n) # {} /\ files[i] \in File
  BY DEF TableOK, NamesValid, Unused, Named
<1>2. find(n) = i
  BY <1>1, FindSlot DEF TableOK, UniqueNames, Unused
<1>3. n \in DOMAIN Store /\ Len(Store[n]) = files[i].size
  BY <1>1, <1>2, FileOfName
<1> QED BY <1>1, <1>3, DirsAssumption, RmfsAssumption DEF File

(* rmfs_ls lists the map.                                                  *)
LEMMA ListOfTable ==
  ASSUME TableOK
  PROVE  Lists(rmfs_ls, Store)
<1> DEFINE n   == MaxFiles
           seq == [k \in 1 .. n |-> files[k - 1]]
           P   == {k \in 1 .. n : seq[k].used}
           f   == [k \in 1 .. n |-> Entry(seq[k])]
           Eq(h) == h = [s \in SUBSET (1 .. n) |->
                           IF s = {} THEN << >>
                           ELSE IF seq[Max(s)].used THEN Append(h[s \ {Max(s)}], Entry(seq[Max(s)]))
                                                    ELSE h[s \ {Max(s)}]]
           H == CHOOSE h : Eq(h)
<1>1. n \in Nat /\ \A k \in 1 .. n : k - 1 \in Slots /\ seq[k] = files[k - 1]
  BY RmfsAssumption DEF Slots
<1>2. \A k \in P : f[k].name = files[k - 1].name /\ f[k].size = files[k - 1].size /\ files[k - 1].used
  BY <1>1 DEF Entry
<1>3. \A k \in P : f[k] \in Entries
  BY <1>1, <1>2, UsedEntry DEF Entries, Entry
<1>4. P \in SUBSET (1 .. n)
  OBVIOUS
<1>5. \A i \in Slots : files[i].used => i + 1 \in P /\ f[i + 1] = Entry(files[i])
  BY RmfsAssumption DEF Slots
<1>6. rmfs_ls = H[1 .. n]
  BY DEF rmfs_ls, Listed, FoldLeft, MapThenFoldSet
<1>7. \A h : Eq(h) <=> IsFilter(h, n, P, f)
  BY <1>1, HighestIn DEF IsFilter
<1> HIDE DEF n, P, f, Eq
<1>8. (\E h : IsFilter(h, n, P, f)) /\ \A h : IsFilter(h, n, P, f) => Picks(h[1 .. n], n, Entries, P, f)
  BY <1>1, <1>3, <1>4, FilterFold
<1>9. Eq(H)
  BY <1>7, <1>8
<1> HIDE DEF H
<1>10. Picks(rmfs_ls, n, Entries, P, f)
  BY <1>6, <1>7, <1>8, <1>9
<1>11. \A k, l \in P : f[k].name = f[l].name => k = l
  <2> SUFFICES ASSUME NEW k \in P, NEW l \in P, f[k].name = f[l].name PROVE k = l
    OBVIOUS
  <2>1. k \in 1 .. n /\ l \in 1 .. n
    BY <1>4
  <2>2. k - 1 \in Slots \ Unused /\ l - 1 \in Slots \ Unused /\ files[k - 1].name = files[l - 1].name
    BY <1>1, <1>2, <2>1 DEF Unused
  <2>3. k - 1 = l - 1
    BY <2>2 DEF TableOK, UniqueNames
  <2> QED BY <1>1, <2>1, <2>3
<1>12. \A j \in 1 .. Len(rmfs_ls) :
         rmfs_ls[j].name \in DOMAIN Store /\ rmfs_ls[j].size = Len(Store[rmfs_ls[j].name])
  <2> SUFFICES ASSUME NEW j \in 1 .. Len(rmfs_ls)
               PROVE  rmfs_ls[j].name \in DOMAIN Store /\ rmfs_ls[j].size = Len(Store[rmfs_ls[j].name])
    OBVIOUS
  <2>1. PICK k \in P : rmfs_ls[j] = f[k]
    BY <1>10 DEF Picks
  <2>2. k - 1 \in Slots
    BY <1>1, <1>4
  <2> QED BY <1>2, <2>1, <2>2, UsedEntry
<1>13. ASSUME NEW m \in DOMAIN Store PROVE \E j \in 1 .. Len(rmfs_ls) : rmfs_ls[j].name = m
  <2>1. PICK i \in Slots : files[i].used /\ files[i].name = m
    BY <1>13 DEF Store, UsedNames, Unused
  <2>2. i + 1 \in P /\ f[i + 1] = Entry(files[i])
    BY <1>5, <2>1
  <2>3. f[i + 1].name = m
    BY <2>1, <2>2 DEF Entry
  <2> QED BY <1>10, <2>2, <2>3 DEF Picks
<1>14. ASSUME NEW i \in 1 .. Len(rmfs_ls), NEW j \in 1 .. Len(rmfs_ls), rmfs_ls[i].name = rmfs_ls[j].name
       PROVE  i = j
  <2>1. PICK k \in P : rmfs_ls[i] = f[k]
    BY <1>10 DEF Picks
  <2>2. PICK l \in P : rmfs_ls[j] = f[l]
    BY <1>10 DEF Picks
  <2>3. k = l
    BY <1>11, <1>14, <2>1, <2>2
  <2>4. \A x, y \in P : f[x] = f[y] => x = y
    BY <1>11
  <2> QED BY <1>10, <2>1, <2>2, <2>3, <2>4 DEF Picks
<1>15. rmfs_ls \in Seq(Entries) /\ Len(rmfs_ls) \in 0 .. n
  BY <1>10 DEF Picks
<1> QED BY <1>12, <1>13, <1>14, <1>15 DEF Lists, n

-----------------------------------------------------------------------------
(* A name cut behind its first m components.                               *)
LEMMA Prefix ==
  ASSUME NEW n \in Seq(Parts), NEW m \in 0 .. Len(n)
  PROVE  /\ SubSeq(n, 1, m) \in Seq(Parts) /\ Len(SubSeq(n, 1, m)) = m
         /\ \A k \in 1 .. m : SubSeq(n, 1, m)[k] = n[k]
         /\ SubSeq(n, m + 1, Len(n)) \in Seq(Parts)
         /\ Len(SubSeq(n, m + 1, Len(n))) = Len(n) - m
         /\ \A k \in 1 .. Len(n) - m : SubSeq(n, m + 1, Len(n))[k] = n[m + k]
<1>1. Len(n) \in Nat /\ m \in Nat /\ m <= Len(n)
  BY LenProperties
<1>2. \A k \in 1 .. m : n[k] \in Parts
  BY <1>1, ElementOfSeq
<1>3. \A k \in m + 1 .. Len(n) : n[k] \in Parts
  BY <1>1, ElementOfSeq
<1>4. SubSeq(n, 1, m) \in Seq(Parts) /\ Len(SubSeq(n, 1, m)) = m /\ \A k \in 1 .. m : SubSeq(n, 1, m)[k] = n[k]
  BY <1>1, <1>2, SubSeqProperties
<1>5. /\ SubSeq(n, m + 1, Len(n)) \in Seq(Parts)
      /\ Len(SubSeq(n, m + 1, Len(n))) = Len(n) - m
      /\ \A k \in 1 .. Len(n) - m : SubSeq(n, m + 1, Len(n))[k] = n[m + k]
  BY <1>1, <1>3, SubSeqProperties
<1> QED BY <1>4, <1>5

(* A folder name without its trailing slashes is not empty.                *)
LEMMA StrippedSeq ==
  ASSUME NEW dir \in Dirs
  PROVE  Stripped(dir) \in Seq(Parts) /\ Stripped(dir) # << >>
<1> DEFINE kept == {k \in 1 .. Len(dir) : dir[k] # Empty}
<1>1. dir \in Seq(Parts) /\ dir # << >>
  BY DirsAssumption
<1>2. Len(dir) \in Nat /\ 1 \in 1 .. Len(dir)
  BY <1>1, EmptySeq, LenProperties
<1>3. CASE kept = {}
  <2>1. dir[1] = Empty /\ dir[1] \in Parts
    BY <1>1, <1>2, <1>3, ElementOfSeq
  <2>2. Stripped(dir) = <<Empty>>
    BY <1>3 DEF Stripped
  <2> QED BY <2>1, <2>2
<1>4. CASE kept # {}
  <2>1. Max(kept) \in 1 .. Len(dir)
    BY <1>2, <1>4, HighestIn
  <2>2. Stripped(dir) = SubSeq(dir, 1, Max(kept))
    BY <1>4 DEF Stripped
  <2> HIDE DEF kept
  <2>3. Stripped(dir) \in Seq(Parts) /\ Len(Stripped(dir)) = Max(kept)
    BY <1>1, <1>2, <2>1, <2>2, Prefix
  <2> QED BY <2>1, <2>3, EmptySeq
<1> QED BY <1>3, <1>4

(* An entry of a folder, joined to the folder again, is the name of the    *)
(* file.                                                                   *)
LEMMA Rejoin ==
  ASSUME NEW dir \in Seq(Parts), NEW e \in Entries, ls_dir_one(dir, e)
  PROVE  /\ Inside(dir, e) \in Entries
         /\ Inside(dir, e).size = e.size
         /\ dir \o Inside(dir, e).name = e.name
<1> DEFINE n == e.name
           t == SubSeq(n, Len(dir) + 1, Len(n))
<1>1. n \in Seq(Parts) /\ Len(n) \in Nat /\ Len(dir) \in 0 .. Len(n) /\ SubSeq(n, 1, Len(dir)) = dir
  BY LenProperties DEF Entries, ls_dir_one
<1>2. /\ t \in Seq(Parts) /\ Len(t) = Len(n) - Len(dir)
      /\ \A k \in 1 .. Len(n) - Len(dir) : t[k] = n[Len(dir) + k]
      /\ \A k \in 1 .. Len(dir) : dir[k] = n[k]
  BY <1>1, Prefix
<1>3. Inside(dir, e) \in Entries /\ Inside(dir, e).size = e.size /\ Inside(dir, e).name = t
  BY <1>2 DEF Inside, Entries
<1> HIDE DEF n, t
<1>4. /\ dir \o t \in Seq(Parts) /\ Len(dir \o t) = Len(n)
      /\ \A i \in 1 .. Len(n) : (dir \o t)[i] = IF i <= Len(dir) THEN dir[i] ELSE t[i - Len(dir)]
  BY <1>1, <1>2, ConcatProperties
<1>5. \A i \in 1 .. Len(n) : (dir \o t)[i] = n[i]
  <2> SUFFICES ASSUME NEW i \in 1 .. Len(n) PROVE (dir \o t)[i] = n[i]
    OBVIOUS
  <2>1. CASE i <= Len(dir)
    BY <1>1, <1>2, <1>4, <2>1
  <2>2. CASE ~(i <= Len(dir))
    <3>1. i - Len(dir) \in 1 .. Len(n) - Len(dir) /\ Len(dir) + (i - Len(dir)) = i
      BY <1>1, <2>2
    <3>2. t[i - Len(dir)] = n[Len(dir) + (i - Len(dir))]
      BY <1>2, <3>1
    <3>3. (dir \o t)[i] = t[i - Len(dir)]
      BY <1>4, <2>2
    <3> QED BY <3>1, <3>2, <3>3
  <2> QED BY <2>1, <2>2
<1>6. dir \o t = n
  BY <1>1, <1>4, <1>5, SeqEqual
<1> QED BY <1>3, <1>6 DEF n

(* rmfs_ls_dir picks the files of the listing that are below the folder.   *)
LEMMA ListOfFolder ==
  ASSUME NEW ls \in Seq(Entries), ls = rmfs_ls, NEW dir \in Dirs
  PROVE  LET P == {k \in 1 .. Len(ls) : ls_dir_one(Stripped(dir), ls[k])}
             f == [k \in 1 .. Len(ls) |-> Inside(Stripped(dir), ls[k])]
         IN  Picks(rmfs_ls_dir(dir), Len(ls), Entries, P, f)
<1> DEFINE n == Len(ls)
           d == Stripped(dir)
           P == {k \in 1 .. n : ls_dir_one(d, ls[k])}
           f == [k \in 1 .. n |-> Inside(d, ls[k])]
           Eq(h) == h = [s \in SUBSET (1 .. n) |->
                           IF s = {} THEN << >>
                           ELSE IF ls_dir_one(d, ls[Max(s)])
                                  THEN Append(h[s \ {Max(s)}], Inside(d, ls[Max(s)]))
                                  ELSE h[s \ {Max(s)}]]
           H == CHOOSE h : Eq(h)
<1>1. n \in Nat /\ DOMAIN ls = 1 .. n
  BY LenProperties
<1>2. \A k \in P : f[k] \in Entries
  <2> SUFFICES ASSUME NEW k \in P PROVE Inside(d, ls[k]) \in Entries
    OBVIOUS
  <2>1. ls[k] \in Entries /\ d \in Seq(Parts)
    BY StrippedSeq, ElementOfSeq
  <2> QED BY <2>1, Rejoin
<1>3. P \in SUBSET (1 .. n)
  OBVIOUS
<1>4. rmfs_ls_dir(dir) = H[1 .. n]
  BY <1>1 DEF rmfs_ls_dir, FoldLeft, MapThenFoldSet
<1>5. \A h : Eq(h) <=> IsFilter(h, n, P, f)
  BY <1>1, HighestIn DEF IsFilter
<1> HIDE DEF n, P, f, Eq
<1>6. (\E h : IsFilter(h, n, P, f)) /\ \A h : IsFilter(h, n, P, f) => Picks(h[1 .. n], n, Entries, P, f)
  BY <1>1, <1>2, <1>3, FilterFold
<1>7. Eq(H)
  BY <1>5, <1>6
<1> HIDE DEF H
<1>8. Picks(rmfs_ls_dir(dir), n, Entries, P, f)
  BY <1>4, <1>5, <1>6, <1>7
<1> QED BY <1>8 DEF n, P, f

(* What `ls dir` shows: files of the folder, all of them, each once.       *)
LEMMA ShownFiles ==
  ASSUME TableOK, NEW dir \in Dirs,
         NEW shown, shown = rmfs_ls_dir(dir)
  PROVE  /\ shown \in Seq(Entries)
         /\ \A k \in 1 .. Len(shown) :
              /\ Stripped(dir) \o shown[k].name \in DOMAIN Store
              /\ Len(Store[Stripped(dir) \o shown[k].name]) = shown[k].size
              /\ ls_dir_one(Stripped(dir), [name |-> Stripped(dir) \o shown[k].name])
         /\ \A k, l \in 1 .. Len(shown) :
              Stripped(dir) \o shown[k].name = Stripped(dir) \o shown[l].name => k = l
         /\ \A n \in DOMAIN Store :
              ls_dir_one(Stripped(dir), [name |-> n]) =>
                \E k \in 1 .. Len(shown) : Stripped(dir) \o shown[k].name = n
<1> DEFINE ls == rmfs_ls
           d  == Stripped(dir)
           P  == {k \in 1 .. Len(ls) : ls_dir_one(d, ls[k])}
           f  == [k \in 1 .. Len(ls) |-> Inside(d, ls[k])]
<1>1. Lists(ls, Store)
  BY ListOfTable
<1> HIDE DEF ls
<1>2. ls \in Seq(Entries) /\ Len(ls) \in Nat /\ d \in Seq(Parts)
  BY <1>1, StrippedSeq, LenProperties DEF Lists
<1>3. Picks(shown, Len(ls), Entries, P, f)
  BY <1>2, ListOfFolder DEF ls
<1> HIDE DEF d
<1>4. \A k \in P : /\ f[k].size = ls[k].size /\ d \o f[k].name = ls[k].name
                   /\ k \in 1 .. Len(ls) /\ ls_dir_one(d, ls[k])
  BY <1>2, ElementOfSeq, Rejoin
<1>5. \A k \in 1 .. Len(ls) : ls_dir_one(d, ls[k]) => k \in P
  OBVIOUS
<1> HIDE DEF P, f
<1>6. \A j \in 1 .. Len(shown) : \E k \in P : shown[j] = f[k]
  BY <1>3 DEF Picks
<1>7. \A k \in P : \E j \in 1 .. Len(shown) : shown[j] = f[k]
  BY <1>3 DEF Picks
<1>8. \A k, l \in P : d \o f[k].name = d \o f[l].name => k = l
  <2>1. \A i, j \in 1 .. Len(ls) : ls[i].name = ls[j].name => i = j
    BY <1>1 DEF Lists
  <2> QED BY <1>4, <2>1
<1>9. \A i, j \in 1 .. Len(shown) : shown[i] = shown[j] => i = j
  BY <1>3, <1>8 DEF Picks
<1>10. \A k \in 1 .. Len(shown) :
         /\ d \o shown[k].name \in DOMAIN Store
         /\ Len(Store[d \o shown[k].name]) = shown[k].size
         /\ ls_dir_one(d, [name |-> d \o shown[k].name])
  <2> SUFFICES ASSUME NEW i \in 1 .. Len(shown)
               PROVE  /\ d \o shown[i].name \in DOMAIN Store
                      /\ Len(Store[d \o shown[i].name]) = shown[i].size
                      /\ ls_dir_one(d, [name |-> d \o shown[i].name])
    OBVIOUS
  <2>1. PICK k \in P : shown[i] = f[k]
    BY <1>6
  <2>2. shown[i].size = ls[k].size /\ d \o shown[i].name = ls[k].name /\ k \in 1 .. Len(ls) /\ ls_dir_one(d, ls[k])
    BY <1>4, <2>1
  <2>3. ls[k].name \in DOMAIN Store /\ ls[k].size = Len(Store[ls[k].name])
    BY <1>1, <2>2 DEF Lists
  <2> QED BY <2>2, <2>3 DEF ls_dir_one
<1>11. ASSUME NEW i \in 1 .. Len(shown), NEW j \in 1 .. Len(shown), d \o shown[i].name = d \o shown[j].name
       PROVE  i = j
  <2>1. PICK k \in P : shown[i] = f[k]
    BY <1>6
  <2>2. PICK l \in P : shown[j] = f[l]
    BY <1>6
  <2> QED BY <1>8, <1>9, <1>11, <2>1, <2>2
<1>12. ASSUME NEW n \in DOMAIN Store, ls_dir_one(d, [name |-> n])
       PROVE  \E k \in 1 .. Len(shown) : d \o shown[k].name = n
  <2>1. PICK k \in 1 .. Len(ls) : ls[k].name = n
    BY <1>1 DEF Lists
  <2>2. k \in P
    BY <1>5, <1>12, <2>1 DEF ls_dir_one
  <2> QED BY <1>4, <1>7, <2>1, <2>2
<1>13. shown \in Seq(Entries)
  BY <1>3 DEF Picks
<1> QED BY <1>10, <1>11, <1>12, <1>13 DEF d

(* The names in use and the slots in use correspond one to one, and the    *)
(* sizes the slots record are those of the files of the map.               *)
LEMMA SlotsAndNames ==
  ASSUME TableOK
  PROVE  LET I == Slots \ Unused
             T == DOMAIN Store
             b == [i \in I |-> files[i].name]
             f == [i \in I |-> files[i].size]
             g == [n \in T |-> Len(Store[n])]
         IN  /\ IsFiniteSet(I)
             /\ b \in Bijection(I, T)
             /\ f \in [I -> Nat] /\ g \in [T -> Nat]
             /\ \A i \in I : g[b[i]] = f[i]
<1> DEFINE I == Slots \ Unused
           T == DOMAIN Store
           b == [i \in I |-> files[i].name]
           f == [i \in I |-> files[i].size]
           g == [n \in T |-> Len(Store[n])]
<1>1. IsFiniteSet(I)
  <2>1. IsFiniteSet(Slots) /\ I \subseteq Slots
    BY RmfsAssumption, FS_Interval DEF Slots
  <2> QED BY <2>1, FS_Subset
<1>2. \A i \in I : /\ files[i].name \in T /\ files[i].size \in Nat
                   /\ files[i].size = Len(Store[files[i].name])
  BY UsedEntry DEF Unused
<1>3. \A n \in T : \E i \in I : files[i].name = n
  BY StoreAt DEF UsedNames
<1>4. \A i, j \in I : files[i].name = files[j].name => i = j
  BY DEF TableOK, UniqueNames
<1> HIDE DEF I, T
<1>5. b \in Bijection(I, T)
  BY <1>2, <1>3, <1>4 DEF Bijection, Injection, Surjection, IsInjective
<1>6. f \in [I -> Nat] /\ \A i \in I : g[b[i]] = f[i]
  BY <1>2
<1>7. g \in [T -> Nat]
  BY <1>2, <1>3
<1> QED BY <1>1, <1>5, <1>6, <1>7 DEF I, T

(* Whatever was written and removed before, `mem` counts the files and the *)
(* bytes that a caller can read.                                           *)
THEOREM RmfsCensusAgrees == Spec => []CensusAgrees
<1>1. TableOK => CensusAgrees
  <2> SUFFICES ASSUME TableOK PROVE CensusAgrees
    OBVIOUS
  <2> DEFINE I == Slots \ Unused
             T == DOMAIN Store
             b == [i \in I |-> files[i].name]
             f == [i \in I |-> files[i].size]
             g == [n \in T |-> Len(Store[n])]
             EqI(h) == h = [s \in SUBSET I |->
                              IF s = {} THEN 0
                              ELSE files[CHOOSE x \in s : TRUE].size + h[s \ {CHOOSE x \in s : TRUE}]]
             EqT(h) == h = [s \in SUBSET T |->
                              IF s = {} THEN 0
                              ELSE Len(Store[CHOOSE x \in s : TRUE]) + h[s \ {CHOOSE x \in s : TRUE}]]
             HI == CHOOSE h : EqI(h)
             HT == CHOOSE h : EqT(h)
  <2>1. rmfs_stat.bytes = HI[I]
    BY DEF rmfs_stat, MapThenSumSet, MapThenFoldSet
  <2>2. MapThenSumSet(LAMBDA n : Len(Store[n]), T) = HT[T]
    BY DEF MapThenSumSet, MapThenFoldSet
  <2>3. /\ IsFiniteSet(I) /\ b \in Bijection(I, T)
        /\ f \in [I -> Nat] /\ g \in [T -> Nat] /\ \A i \in I : g[b[i]] = f[i]
    BY SlotsAndNames
  <2>4. \A s \in SUBSET I : s # {} => f[TakenOff(s)] = files[CHOOSE x \in s : TRUE].size
    BY DEF TakenOff
  <2>5. \A s \in SUBSET T : s # {} => g[TakenOff(s)] = Len(Store[CHOOSE x \in s : TRUE])
    BY DEF TakenOff
  <2> HIDE DEF I, T, b, f, g
  <2>6. \A h : EqI(h) <=> IsSum(h, I, f)
    BY <2>4 DEF IsSum, TakenOff
  <2>7. \A h : EqT(h) <=> IsSum(h, T, g)
    BY <2>5 DEF IsSum, TakenOff
  <2> HIDE DEF EqI, EqT
  <2>8. IsFiniteSet(T) /\ Cardinality(T) = Cardinality(I)
    BY <2>3, FS_Bijection DEF ExistsBijection
  <2>9. IsSum(HI, I, f)
    <3>1. \E h : EqI(h)
      BY <2>3, <2>6, SumExists
    <3> QED BY <2>6, <3>1
  <2>10. IsSum(HT, T, g)
    <3>1. \E h : EqT(h)
      BY <2>3, <2>7, <2>8, SumExists
    <3> QED BY <2>7, <3>1
  <2> HIDE DEF HI, HT
  <2>11. HI[I] = HT[T]
    BY <2>3, <2>9, <2>10, SumImage
  <2>12. rmfs_stat = [files |-> Cardinality(I), bytes |-> HI[I]]
    BY <2>1 DEF rmfs_stat, rmfs_count, I
  <2> QED BY <2>2, <2>8, <2>11, <2>12 DEF CensusAgrees, T
<1>2. Inv => TableOK
  BY DEF Inv, TypeOK, TableOK
<1> QED BY <1>1, <1>2, RmfsInvariant, PTL

(* Whatever was written and removed before, each entry that `ls dir` shows *)
(* opens a file of the size shown, and every file of the folder is shown,  *)
(* once.                                                                   *)
THEOREM RmfsListedFilesOpen == Spec => []ListedFilesOpen
<1>1. TableOK => ListedFilesOpen
  <2> SUFFICES ASSUME TableOK PROVE ListedFilesOpen
    OBVIOUS
  <2> SUFFICES ASSUME NEW dir \in Dirs
               PROVE  LET shown   == rmfs_ls_dir(dir)
                          full(k) == Stripped(dir) \o shown[k].name
                      IN  /\ \A k \in 1 .. Len(shown) :
                                /\ full(k) \in DOMAIN Store
                                /\ Len(Store[full(k)]) = shown[k].size
                                /\ \A l \in 1 .. Len(shown) : full(k) = full(l) => k = l
                          /\ \A n \in DOMAIN Store :
                                (\E m \in 1 .. Len(n) - 1 : SubSeq(n, 1, m) = Stripped(dir))
                                  => \E k \in 1 .. Len(shown) : full(k) = n
    BY DEF ListedFilesOpen
  <2>1. PICK shown : shown = rmfs_ls_dir(dir)
    OBVIOUS
  <2>2. ASSUME NEW n \in DOMAIN Store, NEW m \in 1 .. Len(n) - 1, SubSeq(n, 1, m) = Stripped(dir)
        PROVE  ls_dir_one(Stripped(dir), [name |-> n])
    <3>1. n \in Seq(Parts)
      BY DirsAssumption DEF Store, UsedNames, TableOK, NamesValid
    <3>2. m \in 0 .. Len(n) /\ Len(n) > m
      BY <3>1, LenProperties
    <3>3. Len(Stripped(dir)) = m
      BY <2>2, <3>1, <3>2, Prefix
    <3> QED BY <2>2, <3>2, <3>3 DEF ls_dir_one
  <2> QED BY <2>1, <2>2, ShownFiles
<1>2. Inv => TableOK
  BY DEF Inv, TypeOK, TableOK
<1> QED BY <1>1, <1>2, RmfsInvariant, PTL

-----------------------------------------------------------------------------
(* The loop of div_collect. X[j] is the entry for the file j of the        *)
(* listing ls, for the j in M. Entries of one folder name are one entry,   *)
(* and the entry of a file is that of no other.                            *)
DivEntries == [name : Parts, path : Seq(Parts), is_dir : BOOLEAN, size : Nat]

Separable(X, M) ==
  /\ \A j \in M : X[j] \in DivEntries
  /\ \A i, j \in M : X[i].is_dir /\ X[j].is_dir /\ X[i].name = X[j].name => X[i] = X[j]
  /\ \A i, j \in M : ~X[i].is_dir /\ X[i] = X[j] => i = j

(* After k files: the entries of these files, nothing else, each once, as  *)
(* long as the listing has room.                                           *)
Collected(list, X, M, k) ==
  /\ list \in Seq(DivEntries) /\ Len(list) \in 0 .. k
  /\ \A i \in 1 .. Len(list) : \E j \in M : j <= k /\ list[i] = X[j]
  /\ \A i, j \in 1 .. Len(list) : list[i] = list[j] => i = j
  /\ (\E j \in M : j <= k) => Len(list) > 0
  /\ k <= DIV_MAX_ENTRIES => \A j \in M : j <= k => \E i \in 1 .. Len(list) : list[i] = X[j]

(* One more file: div_add keeps that, whether it finds the folder there,   *)
(* has no room left or appends.                                            *)
LEMMA AddNext ==
  ASSUME NEW X, NEW M \in SUBSET Nat, NEW k \in Nat, NEW list,
         Separable(X, M), Collected(list, X, M, k)
  PROVE  /\ k + 1 \notin M => Collected(list, X, M, k + 1)
         /\ k + 1 \in M => Collected(div_add(list, X[k + 1]), X, M, k + 1)
<1> USE BrowserAssumption
<1>1. list \in Seq(DivEntries) /\ Len(list) \in 0 .. k /\ Len(list) \in Nat /\ DOMAIN list = 1 .. Len(list)
  BY LenProperties DEF Collected
<1>2. /\ \A j \in Nat : j <= k + 1 <=> j <= k \/ j = k + 1
      /\ Len(list) \in 0 .. k + 1
      /\ k + 1 <= DIV_MAX_ENTRIES => k <= DIV_MAX_ENTRIES
  BY <1>1
<1>3. ASSUME k + 1 \notin M PROVE Collected(list, X, M, k + 1)
  <2>1. \A j \in M : j <= k + 1 <=> j <= k
    BY <1>2, <1>3
  <2> QED BY <1>1, <1>2, <2>1 DEF Collected
<1>4. ASSUME k + 1 \in M PROVE Collected(div_add(list, X[k + 1]), X, M, k + 1)
  <2> DEFINE x == X[k + 1]
  <2>0. \A i \in 1 .. Len(list) : \E j \in M : j <= k + 1 /\ list[i] = X[j]
    BY <1>2 DEF Collected
  <2>1. CASE \E i \in DOMAIN list : list[i].is_dir /\ list[i].name = x.name /\ x.is_dir
    <3>1. PICK i \in 1 .. Len(list) : list[i].is_dir /\ list[i].name = x.name /\ x.is_dir
      BY <1>1, <2>1
    <3>2. list[i] = x
      <4>1. PICK j \in M : list[i] = X[j]
        BY DEF Collected
      <4> QED BY <1>4, <3>1, <4>1 DEF Separable
    <3>3. div_add(list, x) = list
      BY <2>1 DEF div_add
    <3>4. Len(list) > 0
      BY <1>1, <3>1
    <3>5. k + 1 <= DIV_MAX_ENTRIES =>
            \A j \in M : j <= k + 1 => \E l \in 1 .. Len(list) : list[l] = X[j]
      BY <1>2, <3>1, <3>2 DEF Collected
    <3> QED BY <1>1, <1>2, <2>0, <3>3, <3>4, <3>5 DEF Collected
  <2>2. CASE /\ ~ \E i \in DOMAIN list : list[i].is_dir /\ list[i].name = x.name /\ x.is_dir
             /\ Len(list) >= DIV_MAX_ENTRIES
    <3>1. div_add(list, x) = list
      BY <2>2 DEF div_add
    <3>2. Len(list) > 0 /\ ~(k + 1 <= DIV_MAX_ENTRIES)
      BY <1>1, <2>2
    <3> QED BY <1>1, <1>2, <2>0, <3>1, <3>2 DEF Collected
  <2>3. CASE /\ ~ \E i \in DOMAIN list : list[i].is_dir /\ list[i].name = x.name /\ x.is_dir
             /\ ~(Len(list) >= DIV_MAX_ENTRIES)
    <3> DEFINE p == Append(list, x)
    <3>1. div_add(list, x) = p
      BY <2>3 DEF div_add
    <3>2. x \in DivEntries
      BY <1>4 DEF Separable
    <3>3. /\ p \in Seq(DivEntries) /\ Len(p) = Len(list) + 1 /\ p[Len(list) + 1] = x
          /\ \A i \in 1 .. Len(list) : p[i] = list[i]
      BY <1>1, <3>2, AppendProperties
    <3> HIDE DEF p
    <3>4. \A i \in 1 .. Len(p) : i \in 1 .. Len(list) \/ i = Len(list) + 1
      BY <1>1, <3>3
    <3>5. 1 .. Len(list) \subseteq 1 .. Len(p) /\ Len(list) + 1 \in 1 .. Len(p) /\ Len(p) \in 0 .. k + 1 /\ Len(p) > 0
      BY <1>1, <3>3
    <3>6. \A i \in 1 .. Len(list) : list[i] # x
      <4> SUFFICES ASSUME NEW i \in 1 .. Len(list), list[i] = x PROVE FALSE
        OBVIOUS
      <4>1. PICK j \in M : j <= k /\ list[i] = X[j]
        BY DEF Collected
      <4>2. ~x.is_dir
        BY <1>1, <2>3
      <4>3. j = k + 1
        BY <1>4, <4>1, <4>2 DEF Separable
      <4> QED BY <4>1, <4>3
    <3>7. \A i, j \in 1 .. Len(p) : p[i] = p[j] => i = j
      <4>1. \A i, j \in 1 .. Len(list) : list[i] = list[j] => i = j
        BY DEF Collected
      <4> QED BY <3>3, <3>4, <3>6, <4>1
    <3>8. \A i \in 1 .. Len(p) : \E j \in M : j <= k + 1 /\ p[i] = X[j]
      <4>1. \A i \in 1 .. Len(list) : \E j \in M : j <= k + 1 /\ p[i] = X[j]
        BY <2>0, <3>3
      <4>2. k + 1 \in M /\ k + 1 <= k + 1 /\ p[Len(list) + 1] = X[k + 1]
        BY <1>4, <3>3
      <4> QED BY <3>4, <4>1, <4>2
    <3>9. k + 1 <= DIV_MAX_ENTRIES =>
            \A j \in M : j <= k + 1 => \E i \in 1 .. Len(p) : p[i] = X[j]
      <4> SUFFICES ASSUME k + 1 <= DIV_MAX_ENTRIES, NEW j \in M, j <= k + 1
                   PROVE  \E i \in 1 .. Len(p) : p[i] = X[j]
        OBVIOUS
      <4>1. CASE j <= k
        <5>1. PICK i \in 1 .. Len(list) : list[i] = X[j]
          BY <1>2, <4>1 DEF Collected
        <5> QED BY <3>3, <3>5, <5>1
      <4>2. CASE j = k + 1
        BY <3>3, <3>5, <4>2
      <4> QED BY <1>2, <4>1, <4>2
    <3> QED BY <3>1, <3>3, <3>5, <3>7, <3>8, <3>9 DEF Collected
  <2> QED BY <2>1, <2>2, <2>3
<1> QED BY <1>3, <1>4

(* div_collect has done so for the whole listing.                          *)
LEMMA CollectLoop ==
  ASSUME NEW dir, NEW ls \in Seq(Entries),
         NEW M, M = {j \in 1 .. Len(ls) : ls_dir_one(dir, ls[j])},
         NEW X, \A j \in M : X[j] = EntryOf(dir, ls[j]), Separable(X, M)
  PROVE  Collected(div_collect(dir, ls), X, M, Len(ls))
<1> DEFINE n    == Len(ls)
           A    == Seq(DivEntries)
           base == << >>
           G    == [p \in A \X (1 .. n) |-> IF p[2] \in M THEN div_add(p[1], X[p[2]]) ELSE p[1]]
           Eq(h) == h = [s \in SUBSET (1 .. n) |->
                          IF s = {} THEN base
                          ELSE IF ls_dir_one(dir, ls[Max(s)])
                                 THEN div_add(h[s \ {Max(s)}], div_collect_one(dir, ls[Max(s)]))
                                 ELSE h[s \ {Max(s)}]]
           H == CHOOSE h : Eq(h)
<1>1. n \in Nat /\ DOMAIN ls = 1 .. n /\ M \subseteq 1 .. n /\ M \in SUBSET Nat
  BY LenProperties
<1>2. base \in A /\ base = << >>
  OBVIOUS
<1>3. div_collect(dir, ls) = H[1 .. n]
  BY <1>1 DEF div_collect, FoldLeft, MapThenFoldSet
<1>4. \A a \in A, k \in M : div_add(a, X[k]) \in A
  BY AppendProperties DEF div_add, Separable
<1>5. \A a \in A, k \in 1 .. n : (IF k \in M THEN div_add(a, X[k]) ELSE a) \in A
  BY <1>4
<1>6. \A a \in A, k \in 1 .. n : G[<<a, k>>] = IF k \in M THEN div_add(a, X[k]) ELSE a
  OBVIOUS
<1>7. G \in Steps(n, A)
  BY <1>5 DEF Steps
<1>8. \A a, k : k \in 1 .. n =>
        (IF ls_dir_one(dir, ls[k]) THEN div_add(a, div_collect_one(dir, ls[k])) ELSE a)
          = IF k \in M THEN div_add(a, X[k]) ELSE a
  BY DEF div_collect_one
<1> HIDE DEF n, A, base, G
<1>9. PICK g \in Values(n, A) : IsFold(g, n, base, G)
  BY <1>1, <1>2, <1>7, FoldExists
<1>10. Eq(g)
  <2>1. g \in [SUBSET (1 .. n) -> A]
    BY DEF Values
  <2>2. ASSUME NEW s \in SUBSET (1 .. n), s # {}
        PROVE  g[s] = IF ls_dir_one(dir, ls[Max(s)])
                        THEN div_add(g[s \ {Max(s)}], div_collect_one(dir, ls[Max(s)]))
                        ELSE g[s \ {Max(s)}]
    <3>1. Max(s) \in 1 .. n /\ g[s \ {Max(s)}] \in A
      BY <1>1, <2>1, <2>2, HighestIn
    <3>2. g[s] = G[<<g[s \ {Max(s)}], Max(s)>>]
      BY <1>9, <2>2 DEF IsFold
    <3> QED BY <1>6, <1>8, <3>1, <3>2
  <2>3. g[{}] = base
    BY <1>9 DEF IsFold
  <2> QED BY <2>1, <2>2, <2>3
<1>11. Eq(H)
  <2> HIDE DEF Eq
  <2> QED BY <1>10
<1> HIDE DEF H
<1>12. Follows(H, n, A, base, G)
  <2>1. H[{}] = base
    BY <1>11
  <2>2. ASSUME NEW s \in SUBSET (1 .. n), s # {}, H[s \ {Max(s)}] \in A
        PROVE  H[s] = G[<<H[s \ {Max(s)}], Max(s)>>]
    <3>1. Max(s) \in 1 .. n
      BY <1>1, <2>2, HighestIn
    <3>2. H[s] = IF ls_dir_one(dir, ls[Max(s)])
                   THEN div_add(H[s \ {Max(s)}], div_collect_one(dir, ls[Max(s)]))
                   ELSE H[s \ {Max(s)}]
      BY <1>11, <2>2
    <3> DEFINE m == Max(s)
               a == H[s \ {Max(s)}]
    <3>3. a \in A /\ m \in 1 .. n
      BY <2>2, <3>1
    <3> HIDE DEF m, a
    <3>4. H[s] = IF ls_dir_one(dir, ls[m]) THEN div_add(a, div_collect_one(dir, ls[m])) ELSE a
      BY <3>2 DEF m, a
    <3>5. H[s] = G[<<a, m>>]
      BY <1>6, <1>8, <3>3, <3>4
    <3> QED BY <3>5 DEF m, a
  <2> QED BY <2>1, <2>2 DEF Follows
<1> HIDE DEF Eq
<1>13. PICK r \in Trace(n, A) : IsTrace(r, n, base, G) /\ r[n] = H[1 .. n]
  BY <1>1, <1>2, <1>7, <1>12, FoldTrace
<1> DEFINE S == {k \in Nat : k <= n => Collected(r[k], X, M, k)}
<1>14. 0 \in S
  <2>1. r[0] = << >> /\ << >> \in Seq(DivEntries) /\ Len(<< >>) = 0
    BY <1>2, <1>13 DEF IsTrace
  <2>2. \A j \in M : ~(j <= 0)
    BY <1>1
  <2>3. Collected(<< >>, X, M, 0)
    BY <2>1, <2>2 DEF Collected
  <2> QED BY <2>1, <2>3
<1>15. ASSUME NEW k \in Nat, k \in S PROVE k + 1 \in S
  <2> SUFFICES ASSUME k + 1 <= n PROVE Collected(r[k + 1], X, M, k + 1)
    OBVIOUS
  <2>1. Collected(r[k], X, M, k) /\ k + 1 \in 1 .. n /\ k \in 0 .. n /\ (k + 1) - 1 = k
    BY <1>1, <1>15
  <2>2. r[k] \in A
    BY <2>1 DEF Trace
  <2>3. r[k + 1] = G[<<r[k], k + 1>>]
    BY <1>13, <2>1 DEF IsTrace
  <2>4. r[k + 1] = IF k + 1 \in M THEN div_add(r[k], X[k + 1]) ELSE r[k]
    BY <1>6, <2>1, <2>2, <2>3
  <2> QED BY <1>1, <2>1, <2>4, AddNext
<1> HIDE DEF S
<1>16. n \in S
  BY <1>1, <1>14, <1>15, AllNumbers
<1> QED BY <1>1, <1>3, <1>13, <1>16 DEF S, n

(* The entry of a file below the folder dir: the file itself, or the       *)
(* subfolder that it is in.                                                *)
LEMMA EntryCases ==
  ASSUME NEW dir \in Seq(Parts), NEW e \in Entries, ls_dir_one(dir, e)
  PROVE  LET n == e.name
             k == Len(dir) + 1
             x == EntryOf(dir, e)
         IN  /\ k \in 1 .. Len(n) /\ k \in Nat /\ SubSeq(n, 1, k) \in Seq(Parts) /\ Len(SubSeq(n, 1, k)) = k
             /\ \A j \in 1 .. Len(dir) : SubSeq(n, 1, k)[j] = dir[j]
             /\ SubSeq(n, 1, k)[k] = n[k]
             /\ x \in DivEntries /\ x.name = n[k]
             /\ IF x.is_dir THEN Len(n) > k /\ x.path = SubSeq(n, 1, k) /\ x.size = 0
                            ELSE x.path = n /\ x.size = e.size
<1> DEFINE n == e.name
           k == Len(dir) + 1
           x == EntryOf(dir, e)
<1>1. /\ n \in Seq(Parts) /\ Len(n) \in Nat /\ Len(dir) \in 0 .. Len(n) /\ SubSeq(n, 1, Len(dir)) = dir
      /\ k \in 1 .. Len(n) /\ k \in Nat /\ k \in 0 .. Len(n) /\ e.size \in Nat
  BY LenProperties DEF Entries, ls_dir_one
<1>2. \A j \in 1 .. Len(dir) : dir[j] = n[j] /\ j \in 1 .. k
  BY <1>1, Prefix
<1>3. /\ SubSeq(n, 1, k) \in Seq(Parts) /\ Len(SubSeq(n, 1, k)) = k
      /\ \A j \in 1 .. k : SubSeq(n, 1, k)[j] = n[j]
  BY <1>1, Prefix
<1>4. n[k] \in Parts
  BY <1>1, ElementOfSeq
<1>5. CASE Len(n) = k
  <2>1. x = [name |-> n[k], path |-> n, is_dir |-> FALSE, size |-> e.size]
    BY <1>5 DEF EntryOf
  <2> HIDE DEF x, n, k
  <2>2. x \in DivEntries
    BY <1>1, <1>4, <2>1 DEF DivEntries
  <2> QED BY <1>1, <1>2, <1>3, <2>1, <2>2 DEF x, n, k
<1>6. CASE Len(n) # k
  <2>1. x = [name |-> n[k], path |-> SubSeq(n, 1, k), is_dir |-> TRUE, size |-> 0]
    BY <1>6 DEF EntryOf
  <2>2. Len(n) > k
    BY <1>1, <1>6
  <2> HIDE DEF x, n, k
  <2>3. x \in DivEntries
    BY <1>3, <1>4, <2>1 DEF DivEntries
  <2> QED BY <1>1, <1>2, <1>3, <2>1, <2>2, <2>3 DEF x, n, k
<1> QED BY <1>5, <1>6

(* Two files of a subfolder of that name have the same entry.              *)
LEMMA SameFolder ==
  ASSUME NEW dir \in Seq(Parts),
         NEW e \in Entries, ls_dir_one(dir, e), NEW f \in Entries, ls_dir_one(dir, f),
         EntryOf(dir, e).is_dir, EntryOf(dir, f).is_dir, EntryOf(dir, e).name = EntryOf(dir, f).name
  PROVE  EntryOf(dir, e) = EntryOf(dir, f)
<1> DEFINE k == Len(dir) + 1
           x == EntryOf(dir, e)
           y == EntryOf(dir, f)
           p == SubSeq(e.name, 1, k)
           q == SubSeq(f.name, 1, k)
<1>1. /\ k \in Nat /\ p \in Seq(Parts) /\ Len(p) = k /\ \A j \in 1 .. Len(dir) : p[j] = dir[j]
      /\ p[k] = x.name /\ x \in DivEntries /\ x.path = p /\ x.size = 0
  BY EntryCases
<1>2. /\ q \in Seq(Parts) /\ Len(q) = k /\ \A j \in 1 .. Len(dir) : q[j] = dir[j]
      /\ q[k] = y.name /\ y \in DivEntries /\ y.path = q /\ y.size = 0
  BY EntryCases
<1>3. \A j \in 1 .. k : j \in 1 .. Len(dir) \/ j = k
  BY LenProperties
<1>4. x.is_dir /\ y.is_dir /\ x.name = y.name
  OBVIOUS
<1> HIDE DEF x, y, p, q, k
<1>5. \A j \in 1 .. k : p[j] = q[j]
  BY <1>1, <1>2, <1>3, <1>4
<1>6. p = q
  BY <1>1, <1>2, <1>5, SeqEqual
<1>7. x = y
  BY <1>1, <1>2, <1>4, <1>6 DEF DivEntries
<1> QED BY <1>7 DEF x, y

(* What div_collect makes of the table: children of the folder, each once; *)
(* some if there are any; all if the listing has room for the table.       *)
LEMMA FolderShown ==
  ASSUME TableOK, NEW dir \in Seq(Parts), NEW list, list = div_collect(dir, rmfs_ls)
  PROVE  /\ list \in Seq(DivEntries) /\ Len(list) \in Nat
         /\ \A i \in 1 .. Len(list) : list[i] \in Children(dir)
         /\ \A i, j \in 1 .. Len(list) : list[i] = list[j] => i = j
         /\ Below(dir) # {} => Len(list) > 0
         /\ MaxFiles <= DIV_MAX_ENTRIES =>
              \A x \in Children(dir) : \E i \in 1 .. Len(list) : list[i] = x
<1> DEFINE ls == rmfs_ls
           M  == {j \in 1 .. Len(ls) : ls_dir_one(dir, ls[j])}
           X  == [j \in 1 .. Len(ls) |-> EntryOf(dir, ls[j])]
<1>1. Lists(ls, Store)
  BY ListOfTable
<1> HIDE DEF ls
<1>2. ls \in Seq(Entries) /\ Len(ls) \in 0 .. MaxFiles /\ Len(ls) \in Nat
  BY <1>1, LenProperties DEF Lists
<1>3. \A j \in M : ls[j] \in Entries /\ ls_dir_one(dir, ls[j]) /\ X[j] = EntryOf(dir, ls[j]) /\ j \in 1 .. Len(ls)
  BY <1>2, ElementOfSeq
<1>4. M = {j \in 1 .. Len(ls) : ls_dir_one(dir, ls[j])}
  OBVIOUS
<1> HIDE DEF M, X
<1>5. Separable(X, M)
  <2>1. \A j \in M : X[j] \in DivEntries
    BY <1>3, EntryCases
  <2>2. \A i, j \in M : X[i].is_dir /\ X[j].is_dir /\ X[i].name = X[j].name => X[i] = X[j]
    BY <1>3, SameFolder
  <2>3. ASSUME NEW i \in M, NEW j \in M, ~X[i].is_dir, X[i] = X[j] PROVE i = j
    <3>1. X[i].path = ls[i].name /\ X[j].path = ls[j].name
      BY <1>3, <2>3, EntryCases
    <3> QED BY <1>1, <1>3, <2>3, <3>1 DEF Lists
  <2> QED BY <2>1, <2>2, <2>3 DEF Separable
<1>6. Collected(list, X, M, Len(ls))
  BY <1>2, <1>3, <1>4, <1>5, CollectLoop DEF ls
<1>7. \A j \in M : ls[j].name \in Below(dir) /\ X[j] = EntryOf(dir, [name |-> ls[j].name, size |-> Len(Store[ls[j].name])])
  <2> SUFFICES ASSUME NEW j \in M
               PROVE  ls[j].name \in Below(dir) /\ X[j] = EntryOf(dir, [name |-> ls[j].name, size |-> Len(Store[ls[j].name])])
    OBVIOUS
  <2>1. ls[j].name \in DOMAIN Store /\ ls[j].size = Len(Store[ls[j].name])
    BY <1>1, <1>3 DEF Lists
  <2> QED BY <1>3, <2>1 DEF Below, ls_dir_one, EntryOf
<1>8. \A n \in Below(dir) : \E j \in M : ls[j].name = n
  <2> SUFFICES ASSUME NEW n \in Below(dir) PROVE \E j \in M : ls[j].name = n
    OBVIOUS
  <2>1. n \in DOMAIN Store /\ Len(n) > Len(dir) /\ SubSeq(n, 1, Len(dir)) = dir
    BY DEF Below
  <2>2. PICK j \in 1 .. Len(ls) : ls[j].name = n
    BY <1>1, <2>1 DEF Lists
  <2> QED BY <1>4, <2>1, <2>2 DEF ls_dir_one
<1>9. \A j \in M : X[j] \in Children(dir) /\ j <= Len(ls)
  BY <1>2, <1>3, <1>7 DEF Children
<1>10. ASSUME NEW x \in Children(dir) PROVE \E j \in M : X[j] = x
  <2>1. PICK n \in Below(dir) : x = EntryOf(dir, [name |-> n, size |-> Len(Store[n])])
    BY DEF Children
  <2>2. PICK j \in M : ls[j].name = n
    BY <1>8
  <2>3. X[j] = x
    BY <1>7, <2>1, <2>2
  <2> QED BY <2>3
<1>11. list \in Seq(DivEntries) /\ Len(list) \in Nat
  BY <1>6, LenProperties DEF Collected
<1>12. \A i \in 1 .. Len(list) : list[i] \in Children(dir)
  BY <1>6, <1>9 DEF Collected
<1>13. Below(dir) # {} => Len(list) > 0
  BY <1>6, <1>8, <1>9 DEF Collected
<1>14. ASSUME MaxFiles <= DIV_MAX_ENTRIES, NEW x \in Children(dir)
       PROVE  \E i \in 1 .. Len(list) : list[i] = x
  <2>1. Len(ls) <= DIV_MAX_ENTRIES
    BY <1>2, <1>14, RmfsAssumption, BrowserAssumption
  <2> QED BY <1>6, <1>9, <1>10, <2>1 DEF Collected
<1> QED BY <1>6, <1>11, <1>12, <1>13, <1>14 DEF Collected

(* A child of a folder is a file, or a folder with files below it.         *)
LEMMA ChildOpens ==
  ASSUME TableOK, NEW dir \in Seq(Parts), NEW x \in Children(dir)
  PROVE  IF x.is_dir THEN x.path \in Seq(Parts) /\ Below(x.path) # {}
                     ELSE x.path \in DOMAIN Store
<1>1. PICK n \in Below(dir) : x = EntryOf(dir, [name |-> n, size |-> Len(Store[n])])
  BY DEF Children
<1> DEFINE e == [name |-> n, size |-> Len(Store[n])]
<1>2. n \in DOMAIN Store /\ Len(n) > Len(dir) /\ SubSeq(n, 1, Len(dir)) = dir
  BY DEF Below
<1>3. n \in Seq(Parts) /\ Len(Store[n]) \in Nat
  <2>1. n \in Names /\ Named(n) # {}
    BY <1>2, NamedUsed DEF Store, UsedNames, TableOK, NamesValid
  <2> QED BY <2>1, FileOfName, LenProperties, DirsAssumption
<1>4. e \in Entries /\ ls_dir_one(dir, e) /\ x = EntryOf(dir, e) /\ e.name = n
  BY <1>1, <1>2, <1>3 DEF Entries, ls_dir_one
<1> HIDE DEF e
<1>5. CASE x.is_dir
  <2>1. x.path = SubSeq(n, 1, Len(dir) + 1) /\ x.path \in Seq(Parts) /\ Len(x.path) = Len(dir) + 1 /\ Len(n) > Len(dir) + 1
    BY <1>4, <1>5, EntryCases
  <2>2. n \in Below(x.path)
    BY <1>2, <2>1 DEF Below
  <2> QED BY <1>5, <2>1, <2>2
<1>6. CASE ~x.is_dir
  BY <1>2, <1>4, <1>6, EntryCases
<1> QED BY <1>5, <1>6

-----------------------------------------------------------------------------
(* The invariant. Besides what the theorems say: the folder shown has      *)
(* files below it, and the listing is the one of the table as it is, which *)
(* only a save changes, and that builds it anew.                           *)
BrowserInv ==
  /\ TableOK
  /\ mode \in {"shell", "browse", "view", "edit"}
  /\ cur \in Seq(Parts) /\ sel \in Nat /\ top \in Nat
  /\ mode = "shell" => cur = << >>
  /\ cur # << >> => Below(cur) # {}
  /\ Browsing => div_entries = div_collect(cur, rmfs_ls)
  /\ SelectionOnPage
  /\ mode \in {"view", "edit"} => path \in DOMAIN Store

(* The listing of the browser is a sequence of entries, before and after a *)
(* step.                                                                   *)
ListingSeq == TableOK => \A dir \in Seq(Parts) : div_collect(dir, rmfs_ls) \in Seq(DivEntries)

LEMMA ListingIsSeq == ListingSeq
  BY FolderShown DEF ListingSeq

LEMMA NextListingIsSeq == ListingSeq'
  BY ListingIsSeq, PTL

(* While the table stays, so do the listing and the folders.               *)
LEMMA SameListing ==
  ASSUME UNCHANGED files
  PROVE  rmfs_ls' = rmfs_ls
BY DEF rmfs_ls

LEMMA SameBelow ==
  ASSUME DOMAIN Store' = DOMAIN Store
  PROVE  \A dir : Below(dir)' = Below(dir)
BY DEF Below

(* A new listing establishes the invariant, of the table after the step    *)
(* ...                                                                     *)
LEMMA BrowseKeeps ==
  ASSUME TableOK', NEW dir \in Seq(Parts), NEW ls, ls = rmfs_ls', Browse(dir, ls),
         dir # << >> => Below(dir)' # {}
  PROVE  BrowserInv'
<1>1. mode' = "browse" /\ cur' = dir /\ div_entries' = div_collect(dir, rmfs_ls') /\ sel' = 0 /\ top' = 0
  BY DEF Browse
<1>2. div_entries' \in Seq(DivEntries)
  BY <1>1, NextListingIsSeq DEF ListingSeq
<1>3. div_entries' # << >> => Len(div_entries') \in Nat \ {0}
  BY <1>2, EmptySeq
<1>4. SelectionOnPage'
  BY <1>1, <1>3, BrowserAssumption DEF SelectionOnPage
<1>5. (cur # << >> => Below(cur) # {})'
  BY <1>1 DEF Below
<1>6. (Browsing => div_entries = div_collect(cur, rmfs_ls))'
  BY <1>1
<1> QED BY <1>1, <1>4, <1>5, <1>6 DEF BrowserInv

(* ... and of the table that stays.                                        *)
LEMMA FolderKeeps ==
  ASSUME TableOK, UNCHANGED files, NEW dir \in Seq(Parts), Browse(dir, rmfs_ls),
         dir # << >> => Below(dir) # {}
  PROVE  BrowserInv'
<1>1. TableOK' /\ Store' = Store /\ rmfs_ls' = rmfs_ls
  BY TableUnchanged, SameListing
<1>2. Below(dir)' = Below(dir)
  BY <1>1, SameBelow
<1> QED BY <1>1, <1>2, BrowseKeeps

(* The shell has nothing of the browser left.                              *)
LEMMA ReturnKeeps ==
  ASSUME TableOK', Return
  PROVE  BrowserInv'
<1>1. << >> \in Seq(Parts)
  BY EmptySeq
<1> QED BY <1>1 DEF BrowserInv, Return, Browsing, SelectionOnPage

(* A file that exists is opened; the listing stays behind it.              *)
LEMMA OpenKeeps ==
  ASSUME BrowserInv, UNCHANGED files, UNCHANGED <<cur, sel, top>>,
         mode' \in {"view", "edit"}, path' \in DOMAIN Store
  PROVE  BrowserInv'
<1>1. TableOK' /\ Store' = Store
  BY TableUnchanged DEF BrowserInv
<1>2. (cur # << >> => Below(cur) # {})'
  BY <1>1 DEF BrowserInv, Below
<1> QED BY <1>1, <1>2 DEF BrowserInv, Browsing, SelectionOnPage

(* The cursor moves in the listing.                                        *)
LEMMA StayKeeps ==
  ASSUME BrowserInv, Browsing, Stay, sel' \in Nat, top' \in Nat, SelectionOnPage'
  PROVE  BrowserInv'
<1>1. TableOK' /\ Store' = Store /\ rmfs_ls' = rmfs_ls
  BY TableUnchanged, SameListing DEF BrowserInv, Stay
<1>2. (cur # << >> => Below(cur) # {})'
  BY <1>1 DEF BrowserInv, Below, Stay
<1>3. div_entries' = div_collect(cur', rmfs_ls')
  BY <1>1 DEF BrowserInv, Stay
<1> QED BY <1>1, <1>2, <1>3 DEF BrowserInv, Browsing, Stay

(* The entry selected is a child of the folder.                            *)
LEMMA SelectedEntry ==
  ASSUME BrowserInv, Browsing, div_entries # << >>
  PROVE  Selected \in Children(cur)
<1>1. /\ div_entries \in Seq(DivEntries) /\ Len(div_entries) \in Nat
      /\ \A i \in 1 .. Len(div_entries) : div_entries[i] \in Children(cur)
  BY FolderShown DEF BrowserInv
<1>2. sel + 1 \in 1 .. Len(div_entries)
  BY <1>1 DEF BrowserInv, SelectionOnPage
<1> QED BY <1>1, <1>2 DEF Selected

(* The folder above a folder with files has files.                         *)
LEMMA FolderUp ==
  ASSUME TableOK, NEW dir \in Seq(Parts), dir # << >>, Below(dir) # {}
  PROVE  Front(dir) \in Seq(Parts) /\ Below(Front(dir)) # {}
<1>1. PICK n \in DOMAIN Store : Len(n) > Len(dir) /\ SubSeq(n, 1, Len(dir)) = dir
  BY DEF Below
<1>2. n \in Seq(Parts)
  BY DirsAssumption DEF Store, UsedNames, TableOK, NamesValid
<1> DEFINE m == Len(dir) - 1
           d == SubSeq(dir, 1, m)
<1>3. Len(n) \in Nat /\ Len(dir) \in Nat /\ m \in 0 .. Len(dir) /\ m \in 0 .. Len(n) /\ Len(dir) \in 0 .. Len(n) /\ m \in Nat /\ m < Len(n)
  BY <1>1, <1>2, LenProperties, EmptySeq
<1>4. Front(dir) = d
  BY DEF Front
<1> HIDE DEF m
<1>5. d \in Seq(Parts) /\ Len(d) = m /\ \A k \in 1 .. m : d[k] = dir[k]
  BY <1>3, Prefix
<1>6. \A k \in 1 .. Len(dir) : dir[k] = n[k]
  BY <1>1, <1>2, <1>3, Prefix
<1>7. SubSeq(n, 1, m) \in Seq(Parts) /\ Len(SubSeq(n, 1, m)) = m /\ \A k \in 1 .. m : SubSeq(n, 1, m)[k] = n[k]
  BY <1>2, <1>3, Prefix
<1>8. SubSeq(n, 1, m) = d
  <2>1. 1 .. m \subseteq 1 .. Len(dir)
    BY <1>3
  <2> HIDE DEF d
  <2> QED BY <1>5, <1>6, <1>7, <2>1, SeqEqual
<1>9. n \in Below(d)
  BY <1>1, <1>3, <1>5, <1>8 DEF Below
<1> QED BY <1>4, <1>5, <1>9

(* The names of the map are names that rmfs_write accepted.                *)
LEMMA FileInTable ==
  ASSUME TableOK, NEW n \in DOMAIN Store
  PROVE  n \in Names /\ valid_name(n)
BY DEF Store, UsedNames, TableOK, NamesValid

(* F2 on a file that exists: rmfs_write finds its slot.                    *)
LEMMA SaveDone ==
  ASSUME BrowserInv, mode = "edit", NEW d \in Contents, Len(d) <= MaxSize, rmfs_write(path, d)
  PROVE  /\ TableOK' /\ DOMAIN Store' = DOMAIN Store
         /\ reply'.op = "write" /\ reply'.ret = 0
<1>1. PICK n \in DOMAIN Store : n = path
  BY DEF BrowserInv
<1>2. n \in Names /\ valid_name(n) /\ rmfs_write(n, d) /\ d \in Seq(Bytes) /\ TableOK
  BY <1>1, FileInTable, RmfsAssumption DEF BrowserInv
<1>3. TableOK'
  BY <1>2, WriteKeeps
<1>4. \/ reply'.ret = 0 /\ Store' = [m \in DOMAIN Store \cup {n} |-> IF m = n THEN d ELSE Store[m]]
      \/ reply'.ret = -3 /\ ~valid_name(n)
      \/ reply'.ret = -2 /\ Len(d) > MaxSize
      \/ reply'.ret = -1 /\ n \notin DOMAIN Store
  BY <1>2, WriteEffect
<1>5. ~(Len(d) > MaxSize)
  BY <1>2, RmfsAssumption, LenProperties
<1>6. reply'.ret = 0 /\ Store' = [m \in DOMAIN Store \cup {n} |-> IF m = n THEN d ELSE Store[m]]
  BY <1>2, <1>4, <1>5
<1>7. DOMAIN Store' = DOMAIN Store
  BY <1>6
<1>8. reply'.op = "write"
  BY <1>2 DEF rmfs_write, WriteRejected, WriteExisting, WriteNew, WriteFull, Answer
<1> QED BY <1>3, <1>6, <1>7, <1>8

(* Every step of the browser keeps the invariant.                          *)
LEMMA BrowserStep ==
  ASSUME BrowserInv, [BrowserNext]_browserVars
  PROVE  BrowserInv'
<1> USE DEF Browsing
<1>0. TableOK /\ cur \in Seq(Parts) /\ sel \in Nat /\ top \in Nat
  BY DEF BrowserInv
<1>1. CASE ShellCommand
  <2>1. TableOK'
    BY <1>0, <1>1, WriteKeeps, RmKeeps, RmfsAssumption DEF ShellCommand
  <2>2. mode' = "shell" /\ cur' = << >>
    BY <1>1 DEF ShellCommand, BrowserInv
  <2> QED BY <1>0, <1>1, <2>1, <2>2, EmptySeq DEF ShellCommand, BrowserInv, SelectionOnPage
<1>2. CASE div_root
  <2>1. << >> \in Seq(Parts) /\ UNCHANGED files /\ Browse(<< >>, rmfs_ls)
    BY <1>2, EmptySeq DEF div_root
  <2> QED BY <1>0, <2>1, FolderKeeps
<1>3. ASSUME NEW dir \in Dirs, div(dir) PROVE BrowserInv'
  <2>1. CASE /\ rmfs_ls_dir(dir) # << >> /\ UNCHANGED files
             /\ Browse(Stripped(dir), rmfs_ls)
    <3>1. PICK shown : shown = rmfs_ls_dir(dir)
      OBVIOUS
    <3>2. shown \in Seq(Entries) /\ shown # << >>
      BY <1>0, <2>1, <3>1, ShownFiles
    <3>3. 1 \in 1 .. Len(shown)
      BY <3>2, EmptySeq
    <3>4. PICK n \in DOMAIN Store : ls_dir_one(Stripped(dir), [name |-> n])
      BY <1>0, <3>1, <3>3, ShownFiles
    <3>5. n \in Below(Stripped(dir))
      BY <3>4 DEF Below, ls_dir_one
    <3> QED BY <1>0, <2>1, <3>5, StrippedSeq, FolderKeeps
  <2>2. CASE Named(dir) # {} /\ View(dir, "shell") /\ UNCHANGED <<cur, div_entries, sel, top>>
    <3>1. UNCHANGED files /\ mode' = "view" /\ path' = dir
      BY <2>2 DEF View, rmfs_read
    <3>2. path' \in DOMAIN Store
      BY <2>2, <3>1, NamedUsed, StoreAt
    <3> QED BY <2>2, <3>1, <3>2, OpenKeeps
  <2> QED BY <1>3, <2>1, <2>2 DEF div
<1>4. CASE Up
  <2>1. sel' \in Nat /\ top' \in Nat /\ SelectionOnPage'
    BY <1>0, <1>4, BrowserAssumption DEF Up, Stay, BrowserInv, SelectionOnPage
  <2> QED BY <1>4, <2>1, StayKeeps DEF Up
<1>5. CASE Down
  <2>1. sel' \in Nat /\ top' \in Nat /\ SelectionOnPage'
    BY <1>0, <1>5, BrowserAssumption DEF Down, Stay, BrowserInv, SelectionOnPage
  <2> QED BY <1>5, <2>1, StayKeeps DEF Down
<1>6. CASE Left
  <2>1. CASE cur = << >>
    BY <1>0, <1>6, <2>1, TableUnchanged, ReturnKeeps DEF Left
  <2>2. CASE cur # << >>
    <3>1. Front(cur) \in Seq(Parts) /\ Below(Front(cur)) # {}
      BY <1>0, <2>2, FolderUp DEF BrowserInv
    <3>2. UNCHANGED files /\ Browse(Front(cur), rmfs_ls)
      BY <1>6, <2>2 DEF Left
    <3>3. PICK dir \in Seq(Parts) : dir = Front(cur)
      BY <3>1
    <3> QED BY <1>0, <3>1, <3>2, <3>3, FolderKeeps
  <2> QED BY <2>1, <2>2
<1>7. CASE Esc
  BY <1>0, <1>7, TableUnchanged, ReturnKeeps DEF Esc
<1>8. CASE EnterFolder
  <2>1. Selected \in Children(cur) /\ Selected.is_dir
    BY <1>8, SelectedEntry DEF EnterFolder
  <2>2. Selected.path \in Seq(Parts) /\ Below(Selected.path) # {}
    BY <1>0, <2>1, ChildOpens
  <2>3. PICK dir \in Seq(Parts) : dir = Selected.path
    BY <2>2
  <2>4. UNCHANGED files /\ Browse(dir, rmfs_ls)
    BY <1>8, <2>3 DEF EnterFolder
  <2> QED BY <1>0, <2>2, <2>3, <2>4, FolderKeeps
<1>9. CASE OpenViewer \/ OpenEditor
  <2>1. Selected \in Children(cur) /\ ~Selected.is_dir
    BY <1>9, SelectedEntry DEF OpenViewer, OpenEditor
  <2>2. Selected.path \in DOMAIN Store
    BY <1>0, <2>1, ChildOpens
  <2>3. /\ UNCHANGED files /\ UNCHANGED <<cur, sel, top>>
        /\ mode' \in {"view", "edit"} /\ path' = Selected.path
    BY <1>9 DEF OpenViewer, OpenEditor, View, rmfs_read
  <2> QED BY <2>2, <2>3, OpenKeeps
<1>10. CASE LeaveViewer \/ QuitEditor
  <2>1. UNCHANGED files /\ (Return \/ Browse(cur, rmfs_ls))
    BY <1>10 DEF LeaveViewer, QuitEditor
  <2>2. CASE Return
    BY <1>0, <2>1, <2>2, TableUnchanged, ReturnKeeps
  <2>3. CASE Browse(cur, rmfs_ls)
    <3>1. PICK dir \in Seq(Parts) : dir = cur
      BY <1>0
    <3> QED BY <1>0, <2>1, <2>3, <3>1, FolderKeeps DEF BrowserInv
  <2> QED BY <2>1, <2>2, <2>3
<1>11. ASSUME NEW d \in Contents, Len(d) <= MaxSize, SaveEditor(d) PROVE BrowserInv'
  <2>1. mode = "edit" /\ rmfs_write(path, d)
    BY <1>11 DEF SaveEditor
  <2>2. TableOK' /\ DOMAIN Store' = DOMAIN Store /\ reply'.ret = 0
    BY <1>11, <2>1, SaveDone
  <2>3. PICK dir \in Seq(Parts) : dir = cur
    BY <1>0
  <2>4. PICK ls : ls = rmfs_ls'
    OBVIOUS
  <2>5. Browse(dir, ls)
    BY <1>11, <2>2, <2>3, <2>4 DEF SaveEditor
  <2>6. dir # << >> => Below(dir)' # {}
    BY <2>2, <2>3, SameBelow DEF BrowserInv
  <2> QED BY <2>2, <2>4, <2>5, <2>6, BrowseKeeps
<1>12. CASE UNCHANGED browserVars
  <2>1. TableOK' /\ Store' = Store /\ rmfs_ls' = rmfs_ls
    BY <1>0, <1>12, TableUnchanged, SameListing DEF browserVars
  <2>2. (cur # << >> => Below(cur) # {})'
    BY <1>12, <2>1 DEF BrowserInv, Below, browserVars
  <2> QED BY <1>12, <2>1, <2>2 DEF browserVars, BrowserInv, SelectionOnPage
<1> QED BY <1>1, <1>2, <1>3, <1>4, <1>5, <1>6, <1>7, <1>8, <1>9, <1>10, <1>11, <1>12 DEF BrowserNext

(* The browser's invariant, for every table, listing and page.             *)
THEOREM BrowserInvariant == BrowserSpec => []BrowserInv
<1>1. BrowserInit => BrowserInv
  <2> SUFFICES ASSUME BrowserInit PROVE BrowserInv
    OBVIOUS
  <2>1. files \in [Slots -> File] /\ \A i \in Slots : ~files[i].used
    BY DEF BrowserInit, Init, rmfs_init
  <2>2. TableOK
    BY <2>1 DEF TableOK, UniqueNames, NamesValid, Unused
  <2> QED BY <2>2, EmptySeq DEF BrowserInit, BrowserInv, Browsing, SelectionOnPage
<1>2. BrowserInv /\ [BrowserNext]_browserVars => BrowserInv'
  BY BrowserStep
<1> QED BY <1>1, <1>2, PTL DEF BrowserSpec

(* The selection is in the listing and on the page, however it moved and   *)
(* whatever folder, viewer or editor the browser came back from.           *)
THEOREM BrowserSelectionOnPage == BrowserSpec => []SelectionOnPage
<1>1. BrowserInv => SelectionOnPage
  BY DEF BrowserInv
<1> QED BY <1>1, BrowserInvariant, PTL

(* The viewer and the editor are opened on files that exist, and no folder *)
(* shown is empty but the root.                                            *)
THEOREM BrowserOpenedExists == BrowserSpec => []OpenedExists
<1>1. BrowserInv => OpenedExists
  <2> SUFFICES ASSUME BrowserInv PROVE OpenedExists
    OBVIOUS
  <2>1. ASSUME Browsing, cur # << >> PROVE div_entries # << >>
    <3>1. div_entries \in Seq(DivEntries) /\ Len(div_entries) > 0
      BY <2>1, FolderShown DEF BrowserInv
    <3> QED BY <3>1, EmptySeq
  <2> QED BY <2>1 DEF OpenedExists, BrowserInv
<1> QED BY <1>1, BrowserInvariant, PTL

(* The listing is the folder as it is, also after a save, where it has     *)
(* room for all files: RMFS_MAX_FILES is 16, DIV_MAX_ENTRIES 32.           *)
THEOREM BrowserListingCurrent ==
  MaxFiles <= DIV_MAX_ENTRIES => (BrowserSpec => []ListingCurrent)
<1> SUFFICES ASSUME MaxFiles <= DIV_MAX_ENTRIES PROVE BrowserSpec => []ListingCurrent
  OBVIOUS
<1>1. BrowserInv => ListingCurrent
  <2> SUFFICES ASSUME BrowserInv, Browsing
               PROVE  /\ Range(div_entries) = Children(cur)
                      /\ Len(div_entries) = Cardinality(Children(cur))
    BY DEF ListingCurrent
  <2> DEFINE list == div_entries
             n    == Len(list)
             C    == Children(cur)
  <2>1. /\ list \in Seq(DivEntries) /\ n \in Nat
        /\ \A i \in 1 .. n : list[i] \in C
        /\ \A i, j \in 1 .. n : list[i] = list[j] => i = j
        /\ \A x \in C : \E i \in 1 .. n : list[i] = x
    BY FolderShown DEF BrowserInv
  <2>2. DOMAIN list = 1 .. n
    BY <2>1, LenProperties
  <2> HIDE DEF list, n, C
  <2>3. Range(list) = C
    BY <2>1, <2>2 DEF Range
  <2> DEFINE F == [i \in 1 .. n |-> list[i]]
  <2>4. F \in Bijection(1 .. n, C)
    BY <2>1 DEF Bijection, Injection, Surjection, IsInjective
  <2>5. ExistsBijection(1 .. n, C)
    BY <2>4 DEF ExistsBijection
  <2>6. Cardinality(C) = n
    BY <2>1, <2>5, FS_CountingElements
  <2> QED BY <2>3, <2>6 DEF list, n, C
<1> QED BY <1>1, BrowserInvariant, PTL

(* A save from the browser's editor succeeds and adds no file.             *)
THEOREM BrowserSaveSucceeds == BrowserSpec => SaveSucceeds
<1> DEFINE Saved == mode = "edit" /\ reply' # reply =>
                      /\ reply'.op = "write" /\ reply'.ret = 0
                      /\ DOMAIN Store' = DOMAIN Store
<1>1. BrowserInv /\ [BrowserNext]_browserVars => [Saved]_browserVars
  <2> SUFFICES ASSUME BrowserInv, BrowserNext, mode = "edit", reply' # reply
               PROVE  /\ reply'.op = "write" /\ reply'.ret = 0
                      /\ DOMAIN Store' = DOMAIN Store
    OBVIOUS
  <2>1. PICK d \in Contents : Len(d) <= MaxSize /\ SaveEditor(d)
    BY DEF BrowserNext, ShellCommand, div_root, div, Up, Down, Left, Esc, EnterFolder, OpenViewer, OpenEditor,
           LeaveViewer, QuitEditor, Browsing
  <2> QED BY <2>1, SaveDone DEF SaveEditor
<1> HIDE DEF Saved
<1>2. BrowserSpec => [][Saved]_browserVars
  BY <1>1, BrowserInvariant, PTL DEF BrowserSpec
<1> QED BY <1>2 DEF SaveSucceeds, Saved
=============
