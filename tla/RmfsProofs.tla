----------------------------- MODULE RmfsProofs -----------------------------
(***************************************************************************)
(* The theorems of module Rmfs, for a table of any size, any set of names  *)
(* and contents of any length:                                             *)
(*   - the types, the uniqueness and the validity of the names in use are  *)
(*     invariant (Inv is inductive as it stands);                          *)
(*   - the table refines the bounded map of module FileStore.              *)
(***************************************************************************)
EXTENDS Rmfs, LoopLemmas, FiniteSetTheorems, SequenceTheorems, TLAPS

Inv == TypeOK /\ UniqueNames /\ NamesValid

(* What it says of the table, which holds for every caller of rmfs.c.      *)
TableOK == files \in [Slots -> File] /\ UniqueNames /\ NamesValid

-----------------------------------------------------------------------------
(* A loop over the slots that stops at the first match finds one if there  *)
(* is one: a non-empty set of slots has a lowest member.                   *)
LEMMA LowestSlot ==
  ASSUME NEW S \in SUBSET Slots, S # {}
  PROVE  Lowest(S) \in S
<1>1. S \in SUBSET Nat
  BY RmfsAssumption DEF Slots
<1> QED BY <1>1, LeastNat DEF Lowest

(* find returns a slot in use of that name, if there is one.               *)
LEMMA FindSlot ==
  ASSUME NEW n, Named(n) # {}
  PROVE  find(n) \in Slots /\ files[find(n)].used /\ files[find(n)].name = n
<1>1. Named(n) \in SUBSET Slots
  BY DEF Named
<1>2. find(n) \in Named(n)
  BY <1>1, LowestSlot DEF find
<1> QED BY <1>2 DEF Named

(* A name has a slot exactly when the map has the name.                    *)
LEMMA NamedUsed == \A n : Named(n) # {} <=> n \in UsedNames
  BY DEF Named, UsedNames, Unused

(* What a write stores is what a reader of the slot gets.                  *)
LEMMA CopiedFile ==
  ASSUME NEW f \in File, NEW n \in Names, NEW d \in Seq(Bytes), Len(d) <= MaxSize
  PROVE  /\ Copied(f, n, d) \in File
         /\ Copied(f, n, d).used
         /\ Copied(f, n, d).name = n
         /\ Content(Copied(f, n, d)) = d
<1> USE RmfsAssumption
<1>1. d \in Seq(Bytes) /\ Len(d) \in Nat /\ d \in [1 .. Len(d) -> Bytes]
  BY LenProperties
<1>2. [k \in 1 .. MaxSize |-> IF k <= Len(d) THEN d[k] ELSE f.data[k]]
        \in [1 .. MaxSize -> Bytes]
  BY <1>1 DEF File
<1>3. Copied(f, n, d) \in File
  BY <1>1, <1>2 DEF Copied, File
<1>4. Content(Copied(f, n, d)) = [k \in 1 .. Len(d) |-> d[k]]
  BY <1>1 DEF Copied, Content
<1>5. d = [k \in 1 .. Len(d) |-> d[k]]
  BY <1>1
<1> QED BY <1>3, <1>4, <1>5 DEF Copied

(* The content of a slot is a sequence of bytes as long as its size.       *)
LEMMA ContentSeq ==
  ASSUME NEW f \in File
  PROVE  Content(f) \in Seq(Bytes) /\ Len(Content(f)) = f.size
<1>1. f.size \in Nat /\ f.size <= MaxSize /\ f.data \in [1 .. MaxSize -> Bytes]
  BY RmfsAssumption DEF File
<1>2. Content(f) \in [1 .. f.size -> Bytes]
  BY <1>1, RmfsAssumption DEF Content
<1> QED BY <1>1, <1>2, SMT DEF Content

-----------------------------------------------------------------------------
(* What find and the search for a free slot establish before a write: slot *)
(* i is free or already bears the name, and no other slot in use bears it. *)
Target(i, n) ==
  /\ i \in Slots
  /\ files[i].used => files[i].name = n
  /\ \A j \in Slots \ Unused : files[j].name = n => j = i

(* A write of a name in use goes to its slot.                              *)
LEMMA ExistingTarget ==
  ASSUME UniqueNames, NEW n, Named(n) # {}
  PROVE  Target(find(n), n)
BY FindSlot DEF Target, UniqueNames, Unused

(* A write of a new name goes to a slot that is not in use.                *)
LEMMA NewTarget ==
  ASSUME NEW n, Named(n) = {}, Unused # {}
  PROVE  Target(Lowest(Unused), n)
<1>1. Lowest(Unused) \in Unused
  BY LowestSlot DEF Unused
<1> QED BY <1>1 DEF Target, Unused, Named

(* A write to its target keeps the names unique and valid ...              *)
LEMMA TargetWritten ==
  ASSUME TableOK, NEW n \in Names, valid_name(n),
         NEW d \in Seq(Bytes), Len(d) <= MaxSize,
         NEW i, Target(i, n),
         files' = [files EXCEPT ![i] = Copied(@, n, d)]
  PROVE  TableOK'
<1>1. files[i] \in File /\ i \in Slots
  BY DEF TableOK, Target
<1>2. /\ files'[i] \in File
      /\ files'[i].used
      /\ files'[i].name = n
  BY <1>1, CopiedFile DEF TableOK
<1>3. \A j \in Slots : j # i => files'[j] = files[j]
  BY DEF TableOK
<1>4. files' \in [Slots -> File]
  BY <1>1, <1>2 DEF TableOK
<1>5. UniqueNames'
  <2> SUFFICES ASSUME NEW j \in Slots, NEW k \in Slots,
                      files'[j].used, files'[k].used,
                      files'[j].name = files'[k].name
               PROVE  j = k
    BY DEF UniqueNames, Unused
  <2>1. CASE j = i \/ k = i
    BY <2>1, <1>2, <1>3 DEF Target, Unused
  <2>2. CASE j # i /\ k # i
    BY <2>2, <1>3 DEF TableOK, UniqueNames, Unused
  <2> QED BY <2>1, <2>2
<1>6. NamesValid'
  BY <1>2, <1>3 DEF TableOK, NamesValid, Unused, valid_name
<1> QED BY <1>4, <1>5, <1>6 DEF TableOK

(* ... and so does the removal of the slot that find returns.              *)
LEMMA SlotCleared ==
  ASSUME TableOK, NEW n \in Names, Named(n) # {},
         files' = [files EXCEPT ![find(n)] = Cleared(@)]
  PROVE  TableOK'
<1>1. find(n) \in Slots /\ files[find(n)] \in File
  BY FindSlot DEF TableOK
<1>2. Cleared(files[find(n)]) \in File /\ ~Cleared(files[find(n)]).used
  BY <1>1, RmfsAssumption DEF Cleared, File
<1>3. /\ files'[find(n)] = Cleared(files[find(n)])
      /\ \A j \in Slots : j # find(n) => files'[j] = files[j]
  BY <1>1 DEF TableOK
<1>4. files' \in [Slots -> File]
  BY <1>1, <1>2 DEF TableOK
<1>5. \A j \in Slots : files'[j].used => files'[j] = files[j]
  BY <1>2, <1>3
<1>6. UniqueNames'
  BY <1>5 DEF TableOK, UniqueNames, Unused
<1>7. NamesValid'
  BY <1>5 DEF TableOK, NamesValid, Unused, valid_name
<1> QED BY <1>4, <1>6, <1>7 DEF TableOK

(* The bytes rmfs_read copies out are bytes of the file.                   *)
LEMMA ReadBytes ==
  ASSUME TableOK, NEW n, Named(n) # {}, NEW k \in Nat
  PROVE  LET f == files[find(n)]
         IN  /\ f.size \in 0 .. MaxSize
             /\ SubSeq(Content(f), 1, Shorter(f.size, k)) \in Seq(Bytes)
<1> DEFINE f == files[find(n)]
           m == Shorter(f.size, k)
<1>1. f \in File
  BY FindSlot DEF TableOK
<1>2. f.size \in 0 .. MaxSize /\ f.size \in Nat /\ m \in Nat /\ m <= f.size
  BY <1>1, RmfsAssumption DEF File, Shorter
<1>3. Content(f) \in Seq(Bytes) /\ Len(Content(f)) = f.size
  BY <1>1, ContentSeq
<1>4. \A j \in 1 .. m : Content(f)[j] \in Bytes
  BY <1>2, <1>3, ElementOfSeq
<1> HIDE DEF f, m
<1>5. SubSeq(Content(f), 1, m) \in Seq(Bytes)
  BY <1>2, <1>4, SubSeqProperties
<1> QED BY <1>2, <1>5 DEF f, m

(* The codes 0 and -1 to -3 without any output are replies.                *)
LEMMA CodeReply ==
  ASSUME NEW o \in {"write", "read", "rm"}, NEW n \in Names, NEW r \in -3 .. 0,
         Answer(o, n, r, << >>)
  PROVE  reply' \in Reply
<1>1. << >> \in Seq(Bytes)
  OBVIOUS
<1>2. r \in -3 .. MaxSize
  BY RmfsAssumption
<1> QED BY <1>1, <1>2 DEF Answer, Reply

(* A rejected, a refused and a reading call leave the table as it is.      *)
LEMMA TableUnchanged ==
  ASSUME TableOK, UNCHANGED files
  PROVE  TableOK' /\ Store' = Store
<1>1. TableOK'
  BY DEF TableOK, UniqueNames, NamesValid, Unused, valid_name
<1>2. Store' = Store
  BY DEF Store, UsedNames, Unused, find, Named
<1> QED BY <1>1, <1>2

(* Each call, whoever makes it: a write ...                                *)
LEMMA WriteKeeps ==
  ASSUME TableOK, NEW n \in Names, NEW d \in Seq(Bytes), rmfs_write(n, d)
  PROVE  TableOK' /\ reply' \in Reply
<1>1. reply' \in Reply
  <2>1. \E r \in -3 .. 0 : Answer("write", n, r, << >>)
    BY DEF rmfs_write, WriteRejected, WriteExisting, WriteNew, WriteFull
  <2> QED BY <2>1, CodeReply
<1>2. CASE WriteRejected(n, d) \/ WriteFull(n, d)
  BY <1>1, <1>2, TableUnchanged DEF WriteRejected, WriteFull
<1>3. CASE WriteExisting(n, d)
  <2>1. Target(find(n), n)
    BY <1>3, ExistingTarget DEF WriteExisting, TableOK
  <2> QED BY <1>1, <1>3, <2>1, TargetWritten DEF WriteExisting, Accepted
<1>4. CASE WriteNew(n, d)
  <2>1. Target(Lowest(Unused), n)
    BY <1>4, NewTarget DEF WriteNew
  <2> QED BY <1>1, <1>4, <2>1, TargetWritten DEF WriteNew, Accepted
<1> QED BY <1>1, <1>2, <1>3, <1>4 DEF rmfs_write

(* ... a read ...                                                          *)
LEMMA ReadKeeps ==
  ASSUME TableOK, NEW n \in Names, NEW k \in Nat, rmfs_read(n, k)
  PROVE  TableOK' /\ reply' \in Reply /\ Store' = Store
<1>1. TableOK' /\ Store' = Store
  BY TableUnchanged DEF rmfs_read
<1>2. CASE Named(n) = {}
  <2>1. Answer("read", n, -1, << >>)
    BY <1>2 DEF rmfs_read
  <2> QED BY <1>1, <2>1, CodeReply
<1>3. CASE Named(n) # {}
  <2> DEFINE f == files[find(n)]
             o == SubSeq(Content(f), 1, Shorter(f.size, k))
  <2>1. f.size \in 0 .. MaxSize /\ o \in Seq(Bytes)
    BY <1>3, ReadBytes
  <2>2. reply' = [op |-> "read", name |-> n, ret |-> f.size, out |-> o]
    BY <1>3 DEF rmfs_read, Answer
  <2> HIDE DEF f, o
  <2>3. reply' \in Reply
    BY <2>1, <2>2, RmfsAssumption DEF Reply
  <2> QED BY <1>1, <2>3
<1> QED BY <1>2, <1>3

(* ... and a removal.                                                      *)
LEMMA RmKeeps ==
  ASSUME TableOK, NEW n \in Names, rmfs_rm(n)
  PROVE  TableOK' /\ reply' \in Reply
<1>1. \E r \in -3 .. 0 : Answer("rm", n, r, << >>)
  BY DEF rmfs_rm
<1>2. TableOK'
  BY TableUnchanged, SlotCleared DEF rmfs_rm
<1> QED BY <1>1, <1>2, CodeReply

-----------------------------------------------------------------------------
(* Every reachable table is well formed: slots keep their types whatever   *)
(* is written, removed and written again, replies are error codes or       *)
(* sizes, at most one slot in use bears a name, and every name in use is   *)
(* well formed (rmfs_write is the only way in and checks it).              *)
THEOREM RmfsInvariant == Spec => []Inv
<1> USE RmfsAssumption
<1>1. Init => Inv
  <2> SUFFICES ASSUME Init PROVE Inv
    OBVIOUS
  <2>1. \A i \in Slots : ~files[i].used
    BY DEF Init, rmfs_init
  <2>2. TypeOK
    BY DEF Init, rmfs_init, TypeOK
  <2> QED BY <2>1, <2>2 DEF Inv, UniqueNames, NamesValid, Unused
<1>2. Inv <=> TableOK /\ reply \in Reply \cup {NoCall}
  BY DEF Inv, TypeOK, TableOK
<1>3. Inv /\ [Next]_vars => Inv'
  <2> SUFFICES ASSUME TableOK, reply \in Reply \cup {NoCall}, [Next]_vars
               PROVE  TableOK' /\ reply' \in Reply \cup {NoCall}
    BY <1>2 DEF Inv, TypeOK, TableOK
  <2>1. ASSUME NEW n \in Names, NEW d \in Contents, rmfs_write(n, d)
        PROVE  TableOK' /\ reply' \in Reply
    BY <2>1, WriteKeeps
  <2>2. ASSUME NEW n \in Names, NEW k \in OutSizes, rmfs_read(n, k)
        PROVE  TableOK' /\ reply' \in Reply
    BY <2>2, ReadKeeps
  <2>3. ASSUME NEW n \in Names, rmfs_rm(n) PROVE TableOK' /\ reply' \in Reply
    BY <2>3, RmKeeps
  <2>4. CASE UNCHANGED vars
    BY <2>4, TableUnchanged DEF vars
  <2> QED BY <2>1, <2>2, <2>3, <2>4 DEF Next
<1> QED BY <1>1, <1>3, PTL DEF Spec

(* At most one slot in use bears a name.                                   *)
THEOREM RmfsUniqueNames == Spec => []UniqueNames
<1>1. Inv => UniqueNames
  BY DEF Inv
<1> QED BY <1>1, RmfsInvariant, PTL

(* The types of the table and of the replies.                              *)
THEOREM RmfsTypeOK == Spec => []TypeOK
<1>1. Inv => TypeOK
  BY DEF Inv
<1> QED BY <1>1, RmfsInvariant, PTL

-----------------------------------------------------------------------------
(* The refinement.  First what the map is at a name, then how each change  *)
(* of the table changes the map.                                           *)
LEMMA LowestSingleton ==
  ASSUME NEW i \in Slots
  PROVE  Lowest({i}) = i
<1>1. Lowest({i}) \in {i}
  BY LowestSlot
<1> QED BY <1>1

(* The map by its domain and its values.                                   *)
LEMMA StoreAt ==
  /\ DOMAIN Store = UsedNames
  /\ \A n \in UsedNames : Store[n] = Content(files[find(n)])
BY DEF Store

(* A write to its target: the map gains the name or changes its content,   *)
(* and every other file keeps its slot and its bytes.                      *)
LEMMA StoreWritten ==
  ASSUME TableOK, NEW n \in Names, NEW d \in Seq(Bytes), Len(d) <= MaxSize,
         NEW i, Target(i, n),
         files' = [files EXCEPT ![i] = Copied(@, n, d)]
  PROVE  Store' = [m \in DOMAIN Store \cup {n} |-> IF m = n THEN d ELSE Store[m]]
<1>1. files[i] \in File /\ i \in Slots
  BY DEF TableOK, Target
<1>2. files'[i].used /\ files'[i].name = n /\ Content(files'[i]) = d
  BY <1>1, CopiedFile DEF TableOK
<1>3. \A j \in Slots : j # i => files'[j] = files[j]
  BY DEF TableOK
<1>4. Named(n)' = {i}
  BY <1>1, <1>2, <1>3 DEF Named, Target, Unused
<1>5. find(n)' = i
  BY <1>1, <1>4, LowestSingleton DEF find
<1>6. \A m : m # n => Named(m)' = Named(m)
  BY <1>1, <1>2, <1>3 DEF Named, Target
<1>7. \A m \in UsedNames : m # n => /\ find(m)' = find(m)
                                    /\ files'[find(m)] = files[find(m)]
  <2> SUFFICES ASSUME NEW m \in UsedNames, m # n
               PROVE  find(m)' = find(m) /\ files'[find(m)] = files[find(m)]
    OBVIOUS
  <2>1. find(m)' = find(m)
    BY <1>6 DEF find
  <2>2. Named(m) # {}
    BY NamedUsed
  <2>3. find(m) \in Slots /\ files[find(m)].used /\ files[find(m)].name = m
    BY <2>2, FindSlot
  <2>4. find(m) # i
    BY <2>3 DEF Target
  <2> QED BY <1>3, <2>1, <2>3, <2>4
<1>8. UsedNames' = UsedNames \cup {n}
  <2>1. \A m : m \in UsedNames' <=> Named(m)' # {}
    BY DEF UsedNames, Named, Unused
  <2> QED BY <2>1, <1>4, <1>6, NamedUsed
<1>9. Store' = [m \in UsedNames \cup {n} |-> Content(files'[find(m)'])]
  BY <1>8 DEF Store
<1>10. \A m \in UsedNames \cup {n} :
         Content(files'[find(m)']) = IF m = n THEN d ELSE Store[m]
  BY <1>2, <1>5, <1>7, StoreAt
<1> QED BY <1>9, <1>10, StoreAt

(* A removal: the map loses that name and nothing else.                    *)
LEMMA StoreRemoved ==
  ASSUME TableOK, NEW n \in Names, Named(n) # {},
         files' = [files EXCEPT ![find(n)] = Cleared(@)]
  PROVE  Store' = [m \in DOMAIN Store \ {n} |-> Store[m]]
<1> DEFINE i == find(n)
<1>1. i \in Slots /\ files[i].used /\ files[i].name = n
  BY FindSlot
<1>2. ~files'[i].used
  BY <1>1 DEF TableOK, Cleared
<1>3. \A j \in Slots : j # i => files'[j] = files[j]
  BY <1>1 DEF TableOK
<1>4. Named(n)' = {}
  BY <1>1, <1>2, <1>3 DEF Named, TableOK, UniqueNames, Unused
<1>5. \A m : m # n => Named(m)' = Named(m)
  BY <1>1, <1>2, <1>3 DEF Named
<1>6. \A m \in UsedNames : m # n => /\ find(m)' = find(m)
                                    /\ files'[find(m)] = files[find(m)]
  <2> SUFFICES ASSUME NEW m \in UsedNames, m # n
               PROVE  find(m)' = find(m) /\ files'[find(m)] = files[find(m)]
    OBVIOUS
  <2>1. find(m)' = find(m)
    BY <1>5 DEF find
  <2>2. Named(m) # {}
    BY NamedUsed
  <2>3. find(m) \in Slots /\ files[find(m)].name = m
    BY <2>2, FindSlot
  <2> QED BY <1>1, <1>3, <2>1, <2>3
<1>7. UsedNames' = UsedNames \ {n}
  <2>1. \A m : m \in UsedNames' <=> Named(m)' # {}
    BY DEF UsedNames, Named, Unused
  <2> QED BY <2>1, <1>4, <1>5, NamedUsed
<1>8. Store' = [m \in UsedNames \ {n} |-> Content(files'[find(m)'])]
  BY <1>7 DEF Store
<1> QED BY <1>6, <1>8, StoreAt

(* The table is full exactly when the map has MaxFiles names: each slot in *)
(* use holds a name of its own.                                            *)
LEMMA FullTable ==
  ASSUME UniqueNames
  PROVE  /\ Unused = {} => Cardinality(UsedNames) >= MaxFiles
         /\ Unused # {} => Cardinality(UsedNames) < MaxFiles
         /\ Cardinality(UsedNames) \in 0 .. MaxFiles
<1> DEFINE InUse == Slots \ Unused
           nameOf == [i \in InUse |-> files[i].name]
<1>1. IsFiniteSet(Slots) /\ Cardinality(Slots) = MaxFiles /\ MaxFiles \in Nat
  BY FS_Interval, RmfsAssumption DEF Slots
<1>2. IsFiniteSet(InUse)
  BY <1>1, FS_Subset
<1>3. nameOf \in Bijection(InUse, UsedNames)
  BY DEF UsedNames, UniqueNames, Bijection, Injection, Surjection, IsInjective
<1>4. ExistsBijection(InUse, UsedNames)
  BY <1>3 DEF ExistsBijection
<1> HIDE DEF InUse, nameOf
<1>5. Cardinality(UsedNames) = Cardinality(InUse)
  BY <1>2, <1>4, FS_Bijection
<1>6. ASSUME Unused = {} PROVE Cardinality(UsedNames) >= MaxFiles
  BY <1>1, <1>5, <1>6 DEF InUse
<1>7. ASSUME Unused # {} PROVE Cardinality(UsedNames) < MaxFiles
  <2>1. InUse \in SUBSET Slots /\ InUse # Slots
    BY <1>7 DEF InUse, Unused
  <2>2. Cardinality(InUse) <= Cardinality(Slots) /\ Cardinality(InUse) # Cardinality(Slots)
    BY <1>1, <2>1, FS_Subset
  <2>3. Cardinality(InUse) \in Nat
    BY <1>2, FS_CardinalityType
  <2> QED BY <1>1, <1>5, <2>2, <2>3
<1>8. Cardinality(UsedNames) \in 0 .. MaxFiles
  BY <1>1, <1>5, FS_Subset, FS_CardinalityType DEF InUse
<1> QED BY <1>6, <1>7, <1>8

(* What a write does to the map, and the cause of each code.               *)
LEMMA WriteEffect ==
  ASSUME TableOK, NEW n \in Names, NEW d \in Seq(Bytes), rmfs_write(n, d)
  PROVE  \/ /\ reply'.ret = 0 /\ Accepted(n, d)
            /\ n \in DOMAIN Store \/ Cardinality(DOMAIN Store) < MaxFiles
            /\ Store' = [m \in DOMAIN Store \cup {n} |-> IF m = n THEN d ELSE Store[m]]
         \/ /\ Store' = Store
            /\ \/ reply'.ret = -3 /\ ~valid_name(n)
               \/ reply'.ret = -2 /\ valid_name(n) /\ Len(d) > MaxSize
               \/ /\ reply'.ret = -1 /\ Accepted(n, d)
                  /\ n \notin DOMAIN Store /\ Cardinality(DOMAIN Store) = MaxFiles
<1>1. CASE WriteRejected(n, d)
  BY <1>1, TableUnchanged DEF WriteRejected, Answer
<1>2. CASE WriteFull(n, d)
  <2>1. Store' = Store
    BY <1>2, TableUnchanged DEF WriteFull
  <2>2. n \notin DOMAIN Store /\ Cardinality(DOMAIN Store) = MaxFiles
    BY <1>2, NamedUsed, StoreAt, FullTable, RmfsAssumption DEF WriteFull, TableOK
  <2> QED BY <1>2, <2>1, <2>2 DEF WriteFull, Answer
<1>3. CASE WriteExisting(n, d) \/ WriteNew(n, d)
  <2>1. Accepted(n, d) /\ Answer("write", n, 0, << >>)
    BY <1>3 DEF WriteExisting, WriteNew
  <2>2. PICK i : Target(i, n) /\ files' = [files EXCEPT ![i] = Copied(@, n, d)]
    <3>1. CASE WriteExisting(n, d)
      BY <3>1, ExistingTarget DEF WriteExisting, TableOK
    <3>2. CASE WriteNew(n, d)
      BY <3>2, NewTarget DEF WriteNew
    <3> QED BY <1>3, <3>1, <3>2
  <2>3. Store' = [m \in DOMAIN Store \cup {n} |-> IF m = n THEN d ELSE Store[m]]
    BY <2>1, <2>2, StoreWritten DEF Accepted
  <2>4. n \in DOMAIN Store \/ Cardinality(DOMAIN Store) < MaxFiles
    BY <1>3, NamedUsed, StoreAt, FullTable DEF WriteExisting, WriteNew, TableOK
  <2> QED BY <2>1, <2>3, <2>4 DEF Answer
<1> QED BY <1>1, <1>2, <1>3 DEF rmfs_write

(* What a removal does to the map.                                         *)
LEMMA RmEffect ==
  ASSUME TableOK, NEW n \in Names, rmfs_rm(n)
  PROVE  \/ reply'.ret = -1 /\ n \notin DOMAIN Store /\ Store' = Store
         \/ /\ reply'.ret = 0 /\ n \in DOMAIN Store
            /\ Store' = [m \in DOMAIN Store \ {n} |-> Store[m]]
<1>1. CASE Named(n) = {}
  BY <1>1, TableUnchanged, NamedUsed, StoreAt DEF rmfs_rm, Answer
<1>2. CASE Named(n) # {}
  <2>1. /\ files' = [files EXCEPT ![find(n)] = Cleared(@)]
        /\ reply' = [op |-> "rm", name |-> n, ret |-> 0, out |-> << >>]
    BY <1>2 DEF rmfs_rm, Answer
  <2>2. Store' = [m \in DOMAIN Store \ {n} |-> Store[m]]
    BY <1>2, <2>1, StoreRemoved
  <2>3. n \in DOMAIN Store
    BY <1>2, NamedUsed, StoreAt
  <2> QED BY <2>1, <2>2, <2>3
<1> QED BY <1>1, <1>2

(* What a reader gets: the file of that name, whole.                       *)
LEMMA FileOfName ==
  ASSUME TableOK, NEW n, Named(n) # {}
  PROVE  /\ n \in DOMAIN Store /\ Store[n] = Content(files[find(n)])
         /\ files[find(n)] \in File
         /\ Store[n] \in Seq(Bytes) /\ Len(Store[n]) = files[find(n)].size
<1>1. n \in DOMAIN Store /\ Store[n] = Content(files[find(n)])
  BY NamedUsed, StoreAt
<1>2. files[find(n)] \in File
  BY FindSlot DEF TableOK
<1> QED BY <1>1, <1>2, ContentSeq

(* FileStore counts with its own instance of FiniteSets.                   *)
LEMMA SameCardinality == \A S : FS!Cardinality(S) = Cardinality(S)
  BY DEF Cardinality, FS!Cardinality, IsFiniteSet, FS!IsFiniteSet

(* The table implements the bounded map with the same replies: for every   *)
(* number of slots, no history of writes, removals and reused slots loses  *)
(* a file, mixes the bytes of two or reports the wrong code.               *)
THEOREM RmfsImplementsFileStore == Spec => ImplementsFileStore
<1> DEFINE valid == {n \in Names : valid_name(n)}
<1>1. Init => FS!Init
  <2> SUFFICES ASSUME Init PROVE FS!Init
    OBVIOUS
  <2>1. UsedNames = {}
    BY DEF Init, rmfs_init, UsedNames, Unused
  <2>2. Store = << >>
    BY <2>1 DEF Store
  <2> QED BY <2>2 DEF Init, FS!Init
<1>2. Inv /\ [Next]_vars => [FS!Next]_FS!vars
  <2> SUFFICES ASSUME Inv, [Next]_vars PROVE [FS!Next]_FS!vars
    OBVIOUS
  <2>0. TableOK
    BY DEF Inv, TypeOK, TableOK
  <2>1. ASSUME NEW n \in Names, NEW d \in Contents, rmfs_write(n, d)
        PROVE  FS!Write(n, d)
    <3>1. \E r \in -3 .. 0 : Answer("write", n, r, << >>)
      BY <2>1 DEF rmfs_write, WriteRejected, WriteExisting, WriteNew, WriteFull
    <3>2. Answer("write", n, reply'.ret, << >>)
      BY <3>1 DEF Answer
    <3>3. d \in Seq(Bytes) /\ Len(d) \in Nat /\ MaxSize \in Nat /\ MaxFiles \in Nat
      BY RmfsAssumption
    <3> DEFINE put == [m \in DOMAIN Store \cup {n} |-> IF m = n THEN d ELSE Store[m]]
    <3> HIDE DEF put
    <3>0. \/ /\ reply'.ret = 0 /\ Accepted(n, d)
             /\ n \in DOMAIN Store \/ Cardinality(DOMAIN Store) < MaxFiles
             /\ Store' = put
          \/ /\ Store' = Store
             /\ \/ reply'.ret = -3 /\ ~valid_name(n)
                \/ reply'.ret = -2 /\ valid_name(n) /\ Len(d) > MaxSize
                \/ /\ reply'.ret = -1 /\ Accepted(n, d)
                   /\ n \notin DOMAIN Store /\ Cardinality(DOMAIN Store) = MaxFiles
      BY <2>0, <2>1, <3>3, WriteEffect, Zenon DEF put
    <3>4. CASE reply'.ret = 0
      <4>1. /\ Accepted(n, d) /\ (n \in DOMAIN Store \/ Cardinality(DOMAIN Store) < MaxFiles)
            /\ Store' = put
        BY <3>0, <3>4
      <4>2. FS!Put(n, d)
        BY <3>2, <3>4, <4>1, SameCardinality DEF Accepted, Answer, FS!Put, FS!Written, FS!Ok, put
      <4> QED BY <4>2 DEF FS!Write
    <3>5. CASE reply'.ret # 0
      <4>1. /\ Store' = Store
            /\ \/ reply'.ret = -3 /\ ~valid_name(n)
               \/ reply'.ret = -2 /\ valid_name(n) /\ Len(d) > MaxSize
               \/ /\ reply'.ret = -1 /\ Accepted(n, d)
                  /\ n \notin DOMAIN Store /\ Cardinality(DOMAIN Store) = MaxFiles
        BY <3>0, <3>5
      <4> QED BY <3>2, <3>3, <4>1, SameCardinality
              DEF Accepted, Answer, FS!Write, FS!Reject, FS!Written, FS!BadName, FS!TooBig, FS!NoEntry
    <3> QED BY <3>4, <3>5
  <2>2. ASSUME NEW n \in Names, NEW k \in OutSizes, rmfs_read(n, k)
        PROVE  FS!Read(n, k)
    <3>1. Store' = Store
      BY <2>0, <2>2, TableUnchanged DEF rmfs_read
    <3>2. CASE Named(n) = {}
      <4>1. n \notin DOMAIN Store
        BY <3>2, NamedUsed, StoreAt
      <4> QED BY <2>2, <3>1, <3>2, <4>1 DEF rmfs_read, Answer, FS!Read,
                                            FS!ReadOut, FS!NoEntry
    <3>3. CASE Named(n) # {}
      <4> DEFINE f == files[find(n)]
      <4>1. n \in DOMAIN Store /\ Store[n] = Content(f) /\ Len(Store[n]) = f.size
        BY <2>0, <3>3, FileOfName
      <4>2. Answer("read", n, f.size, SubSeq(Content(f), 1, Shorter(f.size, k)))
        BY <2>2, <3>3 DEF rmfs_read
      <4>3. FS!Shorter(f.size, k) = Shorter(f.size, k)
        BY DEF Shorter, FS!Shorter
      <4> HIDE DEF f
      <4> QED BY <3>1, <4>1, <4>2, <4>3 DEF Answer, FS!Read, FS!ReadOut
    <3> QED BY <3>2, <3>3
  <2>3. ASSUME NEW n \in Names, rmfs_rm(n) PROVE FS!Rm(n)
    <3>1. \E r \in -3 .. 0 : Answer("rm", n, r, << >>)
      BY <2>3 DEF rmfs_rm
    <3>2. Answer("rm", n, reply'.ret, << >>)
      BY <3>1 DEF Answer
    <3> QED BY <2>0, <2>3, <3>2, RmEffect DEF Answer, FS!Rm, FS!Removed, FS!NoEntry, FS!Ok
  <2>4. CASE UNCHANGED vars
    BY <2>0, <2>4, TableUnchanged DEF vars, FS!vars
  <2> QED BY <2>1, <2>2, <2>3, <2>4 DEF Next, FS!Next
<1> QED BY <1>1, <1>2, RmfsInvariant, PTL DEF Spec, FS!Spec, ImplementsFileStore
=============================================================================
