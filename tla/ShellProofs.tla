----------------------------- MODULE ShellProofs ----------------------------
(***************************************************************************)
(* Shell: for a table of any size, any names and any bytes, what a command *)
(* says and shows is true of the files, and it changes its target only.    *)
(*                                                                         *)
(* The table is well formed after every command (TableOK of RmfsProofs),   *)
(* and the two buffers hold bytes, of which nothing else is known: each    *)
(* command reads no more of them than it has staged itself.                *)
(***************************************************************************)
EXTENDS Shell, RmfsProofs

Memory ==
  TableOK /\ shell_iobuf \in [1 .. MaxSize + 1 -> Bytes] /\ program \in [1 .. MaxSize -> Bytes]

ShellInv == Memory /\ MessagesTrue /\ OutputTrue

(* What a step may do to the files: nothing but to the one of that name.   *)
Kept(n) ==
  \A m \in (DOMAIN Store \cup DOMAIN Store') \ {n} :
    Exists(m) /\ m \in DOMAIN Store' /\ Store'[m] = Store[m]

Targeted ==
  Kept(said'.name) /\ (said'.msg \notin {"created", "copied", "wrote", "deleted"} => Store' = Store)

-----------------------------------------------------------------------------
(* MessagesTrue message by message.                                        *)
Truths ==
  LET n == said.name
  IN  /\ said.msg = "created"        => Exists(n) /\ Store[n] = << >>
      /\ said.msg = "already exists" => Exists(n)
      /\ said.msg = "copied"         => Exists(n) /\ Exists(said.arg) /\ Store[n] = Store[said.arg]
      /\ said.msg = "wrote"          => Exists(n) /\ Store[n] = said.arg
      /\ said.msg = "deleted"        => ~Exists(n)
      /\ said.msg = "no such file"   =>
           ~Exists(n) \/ (said.cmd = "exec" /\ Len(Store[n]) < Len(Magic))
      /\ said.msg = "run"            => Len(Store[n]) >= Len(Magic) /\ StartsMagic(Store[n])
      /\ said.msg = "RMFS full"      => ~Exists(n) /\ TableFull
      /\ said.msg = "bad file name"  =>
           ~valid_name(n) \/ (said.cmd = "touch" /\ ~Exists(n) /\ TableFull)
      /\ said.msg = "copy failed"    => ~valid_name(n) \/ (~Exists(n) /\ TableFull)
      /\ said.msg # "file too big"

LEMMA MessagesByName == (Truths <=> MessagesTrue) /\ (Truths' <=> MessagesTrue')
BY DEF Truths, MessagesTrue

(* A write, as its caller sees it.                                         *)
LEMMA WriteStep ==
  ASSUME TableOK, NEW n \in Names, NEW d \in Seq(Bytes), rmfs_write(n, d)
  PROVE  /\ TableOK' /\ Kept(n) /\ reply'.ret \in {0, -1, -2, -3}
         /\ reply'.ret = 0  => n \in DOMAIN Store' /\ Store'[n] = d
         /\ reply'.ret # 0  => Store' = Store
         /\ reply'.ret = -1 => n \notin DOMAIN Store' /\ Cardinality(DOMAIN Store') = MaxFiles
         /\ reply'.ret = -2 => Len(d) > MaxSize
         /\ reply'.ret = -3 => ~valid_name(n)
<1>1. TableOK'
  BY WriteKeeps
<1> DEFINE put == [m \in DOMAIN Store \cup {n} |-> IF m = n THEN d ELSE Store[m]]
<1>2. /\ DOMAIN put = DOMAIN Store \cup {n} /\ put[n] = d
      /\ \A m \in DOMAIN Store \ {n} : put[m] = Store[m]
  OBVIOUS
<1> HIDE DEF put
<1>3. \/ reply'.ret = 0 /\ Store' = put
      \/ /\ Store' = Store
         /\ \/ reply'.ret = -3 /\ ~valid_name(n)
            \/ reply'.ret = -2 /\ Len(d) > MaxSize
            \/ reply'.ret = -1 /\ n \notin DOMAIN Store /\ Cardinality(DOMAIN Store) = MaxFiles
  BY WriteEffect, Zenon DEF put
<1>4. CASE reply'.ret = 0 /\ Store' = put
  BY <1>1, <1>2, <1>4 DEF Kept, Exists
<1>5. CASE reply'.ret # 0
  BY <1>1, <1>3, <1>5 DEF Kept, Exists
<1> QED BY <1>3, <1>4, <1>5

(* What is staged is the file; behind it is what was there.                *)
LEMMA StagedFile ==
  ASSUME TableOK, NEW n, Named(n) # {},
         NEW N \in Nat, MaxSize <= N, NEW buf \in [1 .. N -> Bytes]
  PROVE  /\ Staged(buf, n) \in [1 .. N -> Bytes]
         /\ Exists(n) /\ Store[n] \in Seq(Bytes)
         /\ Here(n).size \in 0 .. MaxSize /\ Len(Store[n]) = Here(n).size
         /\ \A k \in 1 .. Here(n).size : Staged(buf, n)[k] = Store[n][k]
         /\ SubSeq(Staged(buf, n), 1, Here(n).size) = Store[n]
<1> DEFINE f == Here(n)
<1>1. /\ Exists(n) /\ Store[n] = Content(f) /\ f \in File
      /\ Store[n] \in Seq(Bytes) /\ Len(Store[n]) = f.size
  BY FileOfName DEF Exists, Here
<1>2. f.size \in 0 .. MaxSize /\ f.data \in [1 .. MaxSize -> Bytes] /\ MaxSize \in Nat
  BY <1>1, RmfsAssumption DEF File
<1>3. Staged(buf, n) = [k \in 1 .. N |-> IF k <= f.size THEN f.data[k] ELSE buf[k]]
  BY DEF Staged
<1>4. Staged(buf, n) \in [1 .. N -> Bytes]
  BY <1>2, <1>3
<1>5. \A k \in 1 .. f.size : Staged(buf, n)[k] = Store[n][k]
  BY <1>1, <1>2, <1>3 DEF Content
<1> HIDE DEF f
<1>6. SubSeq(Staged(buf, n), 1, f.size) = Store[n]
  <2> DEFINE s == Staged(buf, n)
  <2>1. s \in [1 .. N -> Bytes] /\ s \in Seq(Bytes) /\ Len(s) = N
    BY <1>4
  <2> HIDE DEF s
  <2>2. \A k \in 1 .. f.size : k \in 1 .. N /\ s[k] \in Bytes
    BY <1>2, <2>1
  <2>3. /\ SubSeq(s, 1, f.size) \in Seq(Bytes) /\ Len(SubSeq(s, 1, f.size)) = f.size
        /\ \A k \in 1 .. f.size : SubSeq(s, 1, f.size)[k] = s[k]
    BY <1>2, <2>1, <2>2, SubSeqProperties
  <2> QED BY <1>1, <1>5, <2>3, SeqEqual DEF s
<1> QED BY <1>1, <1>2, <1>4, <1>5, <1>6 DEF f

-----------------------------------------------------------------------------
(* What every command establishes.                                         *)
Told == Memory' /\ Truths' /\ OutputTrue' /\ Targeted

LEMMA BytesFacts ==
  MaxSize \in Nat /\ MaxSize + 1 \in Nat /\ MaxSize <= MaxSize + 1 /\ << >> \in Seq(Bytes)
  /\ NUL \in Bytes /\ Len(<< >>) = 0
BY RmfsAssumption, ShellAssumption

(* A command that reads leaves the files alone.                            *)
LEMMA LookStep ==
  ASSUME TableOK, NEW n \in Names, NEW k \in Nat, rmfs_read(n, k)
  PROVE  TableOK' /\ Store' = Store /\ files' = files /\ (\A m \in Names : Kept(m))
BY ReadKeeps DEF rmfs_read, Kept, Exists

LEMMA NotFoundTold ==
  ASSUME Memory, NEW n \in Names, NEW c, NotFound(c, n)
  PROVE  Told
<1>1. said' = [cmd |-> c, msg |-> "no such file", name |-> n, arg |-> << >>, out |-> << >>]
  BY DEF NotFound, Say
<1>2. TableOK' /\ Store' = Store /\ Kept(n)
  BY LookStep, BytesFacts DEF NotFound, Memory
<1>3. Memory'
  BY <1>2 DEF NotFound, Memory
<1>4. n \notin DOMAIN Store'
  BY <1>2, NamedUsed, StoreAt DEF NotFound
<1>5. Truths'
  BY <1>1, <1>4 DEF Truths, Exists
<1>6. OutputTrue'
  BY <1>1 DEF OutputTrue
<1>7. Targeted
  BY <1>1, <1>2 DEF Targeted
<1> QED BY <1>3, <1>5, <1>6, <1>7 DEF Told

LEMMA TouchTold ==
  ASSUME Memory, NEW n \in Names, touch(n)
  PROVE  Told
<1>1. CASE Named(n) # {} /\ rmfs_read(n, 0) /\ Say("touch", "already exists", n, << >>, << >>)
  <2>1. said' = [cmd |-> "touch", msg |-> "already exists", name |-> n, arg |-> << >>, out |-> << >>]
    BY <1>1 DEF Say
  <2>2. TableOK' /\ Store' = Store /\ Kept(n)
    BY <1>1, LookStep DEF Memory
  <2>3. Memory'
    BY <2>2 DEF touch, Memory
  <2>4. n \in DOMAIN Store'
    BY <1>1, <2>2, NamedUsed, StoreAt
  <2>5. Truths' /\ OutputTrue'
    BY <2>1, <2>4 DEF Truths, Exists, OutputTrue
  <2> QED BY <2>1, <2>2, <2>3, <2>5 DEF Told, Targeted
<1>2. CASE /\ Named(n) = {} /\ rmfs_write(n, << >>)
           /\ Say("touch", IF reply'.ret = 0 THEN "created" ELSE "bad file name", n, << >>, << >>)
  <2> DEFINE m == IF reply'.ret = 0 THEN "created" ELSE "bad file name"
  <2>1. said' = [cmd |-> "touch", msg |-> m, name |-> n, arg |-> << >>, out |-> << >>]
    BY <1>2 DEF Say
  <2>0. PICK d \in Seq(Bytes) : d = << >> /\ Len(d) = 0
    BY BytesFacts
  <2>2. /\ TableOK' /\ Kept(n) /\ reply'.ret \in {0, -1, -2, -3}
        /\ reply'.ret = 0  => n \in DOMAIN Store' /\ Store'[n] = << >>
        /\ reply'.ret # 0  => Store' = Store
        /\ reply'.ret = -1 => n \notin DOMAIN Store' /\ Cardinality(DOMAIN Store') = MaxFiles
        /\ reply'.ret # -2
        /\ reply'.ret = -3 => ~valid_name(n)
    <3>1. rmfs_write(n, d) /\ TableOK
      BY <1>2, <2>0 DEF Memory
    <3>2. ~(Len(d) > MaxSize)
      BY <2>0, BytesFacts
    <3> QED BY <2>0, <3>1, <3>2, WriteStep
  <2>3. Memory'
    BY <2>2 DEF touch, Memory
  <2>4. Truths'
    BY <2>1, <2>2 DEF Truths, Exists, TableFull
  <2>5. OutputTrue' /\ Targeted
    BY <2>1, <2>2 DEF OutputTrue, Targeted
  <2> QED BY <2>3, <2>4, <2>5 DEF Told
<1> QED BY <1>1, <1>2 DEF touch

LEMMA CopyTold ==
  ASSUME Memory, NEW src \in Names, NEW dst \in Names, CopyFile(src, dst)
  PROVE  Told
<1> DEFINE m == IF reply'.ret = 0 THEN "copied" ELSE "copy failed"
           d == SubSeq(Staged(shell_iobuf, src), 1, Here(src).size)
<1>1. /\ said' = [cmd |-> "cp", msg |-> m, name |-> dst, arg |-> src, out |-> << >>]
      /\ rmfs_write(dst, d) /\ shell_iobuf' = Staged(shell_iobuf, src) /\ program' = program
  BY DEF CopyFile, Say
<1>2. /\ shell_iobuf' \in [1 .. MaxSize + 1 -> Bytes] /\ d = Store[src] /\ src \in DOMAIN Store
      /\ d \in Seq(Bytes) /\ Len(d) <= MaxSize
  <2>1. TableOK /\ Named(src) # {} /\ shell_iobuf \in [1 .. MaxSize + 1 -> Bytes]
    BY DEF Memory, CopyFile
  <2>2. /\ Staged(shell_iobuf, src) \in [1 .. MaxSize + 1 -> Bytes] /\ Exists(src)
        /\ Store[src] \in Seq(Bytes) /\ Here(src).size \in 0 .. MaxSize
        /\ Len(Store[src]) = Here(src).size /\ d = Store[src]
    BY <2>1, StagedFile, BytesFacts
  <2> HIDE DEF d
  <2>3. MaxSize \in Nat
    BY BytesFacts
  <2>4. shell_iobuf' \in [1 .. MaxSize + 1 -> Bytes] /\ src \in DOMAIN Store
    BY <1>1, <2>2 DEF Exists
  <2>5. d \in Seq(Bytes) /\ Len(d) <= MaxSize
    BY <2>2, <2>3
  <2> QED BY <2>2, <2>4, <2>5
<1> HIDE DEF d
<1>3. /\ TableOK' /\ Kept(dst) /\ reply'.ret \in {0, -1, -2, -3}
      /\ reply'.ret = 0  => dst \in DOMAIN Store' /\ Store'[dst] = d
      /\ reply'.ret # 0  => Store' = Store
      /\ reply'.ret = -1 => dst \notin DOMAIN Store' /\ Cardinality(DOMAIN Store') = MaxFiles
      /\ reply'.ret = -3 => ~valid_name(dst)
  BY <1>1, <1>2, WriteStep DEF Memory
<1>4. reply'.ret # -2
  <2>1. MaxSize \in Nat /\ Len(d) \in Nat
    BY <1>2, BytesFacts
  <2>2. reply'.ret = -2 => Len(d) > MaxSize
    BY <1>1, <1>2, WriteStep DEF Memory
  <2> QED BY <1>2, <2>1, <2>2
<1>5. src \in DOMAIN Store' /\ (reply'.ret = 0 => Store'[src] = d)
  <2>1. CASE src = dst
    BY <1>2, <1>3, <2>1
  <2>2. CASE src # dst
    BY <1>2, <1>3, <2>2 DEF Kept, Exists
  <2> QED BY <2>1, <2>2
<1>6. Memory'
  BY <1>1, <1>2, <1>3 DEF Memory
<1>7. Truths'
  BY <1>1, <1>3, <1>4, <1>5 DEF Truths, Exists, TableFull
<1>8. OutputTrue' /\ Targeted
  BY <1>1, <1>3 DEF OutputTrue, Targeted
<1> QED BY <1>6, <1>7, <1>8 DEF Told

LEMMA WriteTold ==
  ASSUME Memory, NEW n \in Names, NEW t \in Texts, write(n, t)
  PROVE  Told
<1> DEFINE m == CASE reply'.ret = 0  -> "wrote"
                  [] reply'.ret = -1 -> "RMFS full"
                  [] reply'.ret = -2 -> "file too big"
                  [] OTHER           -> "bad file name"
<1>1. /\ said' = [cmd |-> "write", msg |-> m, name |-> n, arg |-> t, out |-> << >>]
      /\ rmfs_write(n, t) /\ UNCHANGED <<shell_iobuf, program>>
  BY DEF write, Say
<1>2. t \in Seq(Bytes) /\ Len(t) <= MaxSize /\ Len(t) \in Nat
  BY ShellAssumption
<1>3. /\ TableOK' /\ Kept(n) /\ reply'.ret \in {0, -1, -2, -3}
      /\ reply'.ret = 0  => n \in DOMAIN Store' /\ Store'[n] = t
      /\ reply'.ret # 0  => Store' = Store
      /\ reply'.ret = -1 => n \notin DOMAIN Store' /\ Cardinality(DOMAIN Store') = MaxFiles
      /\ reply'.ret = -3 => ~valid_name(n)
      /\ reply'.ret # -2
  <2>1. ~(Len(t) > MaxSize)
    BY <1>2, BytesFacts
  <2> QED BY <1>1, <1>2, <2>1, WriteStep DEF Memory
<1>4. \/ m = "wrote" /\ reply'.ret = 0
      \/ m = "RMFS full" /\ reply'.ret = -1 /\ reply'.ret # 0
      \/ m = "bad file name" /\ reply'.ret = -3 /\ reply'.ret # 0
  BY <1>3
<1> HIDE DEF m
<1>5. Memory'
  BY <1>1, <1>3 DEF Memory
<1>6. Truths'
  BY <1>1, <1>3, <1>4 DEF Truths, Exists, TableFull
<1>7. said'.name = n /\ said'.msg \notin {"text", "counts"} /\ (said'.msg # "wrote" => Store' = Store)
  <2>1. said'.name = n /\ said'.msg = m
    BY <1>1
  <2>2. m \in {"wrote", "RMFS full", "bad file name"}
    BY <1>4
  <2>3. m \notin {"text", "counts"}
    BY <2>2
  <2>4. m # "wrote" => reply'.ret # 0
    BY <1>4
  <2> QED BY <1>3, <2>1, <2>3, <2>4
<1>8. OutputTrue' /\ Targeted
  BY <1>3, <1>7 DEF OutputTrue, Targeted
<1> QED BY <1>5, <1>6, <1>8 DEF Told

LEMMA RmTold ==
  ASSUME Memory, NEW n \in Names, rm(n)
  PROVE  Told
<1> DEFINE m == IF reply'.ret = 0 THEN "deleted" ELSE "no such file"
           left == [k \in DOMAIN Store \ {n} |-> Store[k]]
<1>1. /\ said' = [cmd |-> "rm", msg |-> m, name |-> n, arg |-> << >>, out |-> << >>]
      /\ rmfs_rm(n) /\ UNCHANGED <<shell_iobuf, program>>
  BY DEF rm, Say
<1>2. DOMAIN left = DOMAIN Store \ {n} /\ \A k \in DOMAIN left : left[k] = Store[k]
  OBVIOUS
<1> HIDE DEF left
<1>3. TableOK' /\ \/ reply'.ret = -1 /\ n \notin DOMAIN Store /\ Store' = Store
                  \/ reply'.ret = 0 /\ Store' = left
  BY <1>1, RmKeeps, RmEffect, Zenon DEF Memory, left
<1>4. Kept(n) /\ n \notin DOMAIN Store' /\ (m # "deleted" => Store' = Store)
  BY <1>2, <1>3 DEF Kept, Exists
<1>5. Memory'
  BY <1>1, <1>3 DEF Memory
<1>6. m \in {"deleted", "no such file"}
  OBVIOUS
<1> HIDE DEF m
<1>7. Truths' /\ OutputTrue' /\ Targeted
  BY <1>1, <1>4, <1>6 DEF Truths, Exists, OutputTrue, Targeted
<1> QED BY <1>5, <1>7 DEF Told

-----------------------------------------------------------------------------
(* What is printed of a staged text that is ended is the text's own.       *)
LEMMA SamePrefix ==
  ASSUME NEW a, NEW b, NEW m \in Nat, \A k \in 1 .. m : a[k] = b[k] /\ b[k] \in Bytes
  PROVE  /\ SubSeq(a, 1, m) = SubSeq(b, 1, m)
         /\ b \in Seq(Bytes) /\ Len(b) = m => SubSeq(b, 1, m) = b
<1>1. /\ SubSeq(a, 1, m) \in Seq(Bytes) /\ Len(SubSeq(a, 1, m)) = m
      /\ \A k \in 1 .. m : SubSeq(a, 1, m)[k] = a[k]
  BY SubSeqProperties
<1>2. /\ SubSeq(b, 1, m) \in Seq(Bytes) /\ Len(SubSeq(b, 1, m)) = m
      /\ \A k \in 1 .. m : SubSeq(b, 1, m)[k] = b[k]
  BY SubSeqProperties
<1>3. SubSeq(a, 1, m) = SubSeq(b, 1, m)
  BY <1>1, <1>2, SeqEqual
<1>4. ASSUME b \in Seq(Bytes), Len(b) = m PROVE SubSeq(b, 1, m) = b
  BY <1>2, <1>4, SeqEqual
<1> QED BY <1>3, <1>4

LEMMA FirstEnd ==
  ASSUME NEW S \in SUBSET Nat, S # {}
  PROVE  Min(S) \in S /\ \A j \in S : Min(S) <= j
BY LeastNat DEF Min

LEMMA PrintedEnded ==
  ASSUME NEW N \in Nat, NEW buf \in [1 .. N -> Bytes], NEW text \in Seq(Bytes),
         Len(text) + 1 \in 1 .. N, buf[Len(text) + 1] = NUL,
         \A k \in 1 .. Len(text) : buf[k] = text[k]
  PROVE  Printed(buf) = Printed(text)
<1> DEFINE E == {k \in DOMAIN buf : buf[k] = NUL}
           T == {k \in DOMAIN text : text[k] = NUL}
           s == Len(text)
           m == Min(E)
<1>1. s \in Nat /\ DOMAIN text = 1 .. s /\ \A k \in 1 .. s : text[k] \in Bytes
  OBVIOUS
<1>2. /\ E \in SUBSET Nat /\ s + 1 \in E /\ T \in SUBSET Nat
      /\ \A k \in 1 .. s : k \in E <=> k \in T
      /\ T \subseteq 1 .. s /\ \A k \in E : k >= 1
  BY <1>1
<1>3. Printed(buf) = SubSeq(buf, 1, m - 1)
  BY <1>2 DEF Printed
<1>4. Printed(text) = IF T = {} THEN [k \in DOMAIN text |-> text[k]] ELSE SubSeq(text, 1, Min(T) - 1)
  BY DEF Printed
<1>5. [k \in DOMAIN text |-> text[k]] = text
  OBVIOUS
<1> HIDE DEF E, T, s
<1>6. m \in E /\ m \in Nat /\ m >= 1 /\ m <= s + 1 /\ \A j \in E : m <= j
  BY <1>1, <1>2, FirstEnd
<1> HIDE DEF m
<1>7. m - 1 \in Nat /\ \A k \in 1 .. m - 1 : buf[k] = text[k] /\ text[k] \in Bytes
  BY <1>1, <1>6 DEF s
<1>8. /\ SubSeq(buf, 1, m - 1) = SubSeq(text, 1, m - 1)
      /\ s = m - 1 => SubSeq(text, 1, m - 1) = text
  BY <1>7, SamePrefix DEF s
<1>9. CASE T = {}
  <2>1. m = s + 1
    BY <1>1, <1>2, <1>6, <1>9
  <2> QED BY <1>1, <1>3, <1>4, <1>5, <1>8, <1>9, <2>1
<1>10. CASE T # {}
  <2>1. Min(T) \in T /\ (\A j \in T : Min(T) <= j) /\ Min(T) \in 1 .. s
    BY <1>2, <1>10, FirstEnd
  <2>2. m <= Min(T)
    BY <1>2, <1>6, <2>1
  <2>3. m \in 1 .. s
    BY <1>1, <1>6, <2>1, <2>2
  <2>4. Min(T) <= m
    BY <1>2, <1>6, <2>1, <2>3
  <2>5. Min(T) = m
    BY <1>1, <1>6, <2>1, <2>2, <2>4
  <2> QED BY <1>3, <1>4, <1>8, <1>10, <2>5
<1> QED BY <1>9, <1>10

LEMMA ShowTold ==
  ASSUME Memory, NEW n \in Names, ShowFile(n)
  PROVE  Told
<1> DEFINE sz  == Here(n).size
           buf == [Staged(shell_iobuf, n) EXCEPT ![sz + 1] = NUL]
<1>1. /\ said' = [cmd |-> "cat", msg |-> "text", name |-> n, arg |-> << >>, out |-> Printed(buf)]
      /\ shell_iobuf' = buf /\ rmfs_read(n, MaxSize) /\ program' = program /\ Named(n) # {}
  BY DEF ShowFile, Say
<1>2. /\ Staged(shell_iobuf, n) \in [1 .. MaxSize + 1 -> Bytes]
      /\ Store[n] \in Seq(Bytes) /\ sz \in 0 .. MaxSize /\ Len(Store[n]) = sz
      /\ \A k \in 1 .. sz : Staged(shell_iobuf, n)[k] = Store[n][k]
  <2>1. MaxSize \in Nat /\ MaxSize + 1 \in Nat /\ MaxSize <= MaxSize + 1
    BY BytesFacts
  <2> QED BY <1>1, <2>1, StagedFile DEF Memory
<1>3. sz + 1 \in 1 .. MaxSize + 1 /\ MaxSize + 1 \in Nat /\ sz \in Nat
  BY <1>2, BytesFacts
<1> HIDE DEF sz
<1>4. buf \in [1 .. MaxSize + 1 -> Bytes] /\ buf[sz + 1] = NUL
  BY <1>2, <1>3, BytesFacts
<1>5. \A k \in 1 .. sz : buf[k] = Store[n][k]
  BY <1>2, <1>3
<1> HIDE DEF buf
<1>6. Printed(buf) = Printed(Store[n])
  BY <1>2, <1>3, <1>4, <1>5, PrintedEnded
<1>7. TableOK' /\ Store' = Store /\ Kept(n)
  BY <1>1, LookStep, BytesFacts DEF Memory
<1>8. Memory'
  BY <1>1, <1>4, <1>7 DEF Memory
<1>9. said'.msg = "text" /\ said'.name = n /\ said'.out = Printed(buf)
  BY <1>1
<1>10. Truths' /\ OutputTrue' /\ Targeted
  BY <1>6, <1>7, <1>9 DEF Truths, OutputTrue, Targeted
<1> QED BY <1>8, <1>10 DEF Told

LEMMA CountTold ==
  ASSUME Memory, NEW n \in Names, CountFile(n)
  PROVE  Told
<1> DEFINE text   == SubSeq(Staged(shell_iobuf, n), 1, Here(n).size)
           counts == <<Lines(text), Here(n).size>>
<1>1. /\ said' = [cmd |-> "wc", msg |-> "counts", name |-> n, arg |-> << >>, out |-> counts]
      /\ shell_iobuf' = Staged(shell_iobuf, n) /\ program' = program
      /\ rmfs_read(n, MaxSize) /\ Named(n) # {}
  BY DEF CountFile, Say
<1>2. /\ Staged(shell_iobuf, n) \in [1 .. MaxSize + 1 -> Bytes]
      /\ text = Store[n] /\ Len(Store[n]) = Here(n).size
  <2>1. MaxSize \in Nat /\ MaxSize + 1 \in Nat /\ MaxSize <= MaxSize + 1
    BY BytesFacts
  <2> QED BY <1>1, <2>1, StagedFile DEF Memory
<1>3. counts = <<Lines(Store[n]), Len(Store[n])>>
  BY <1>2
<1> HIDE DEF counts, text
<1>4. TableOK' /\ Store' = Store /\ Kept(n)
  BY <1>1, LookStep, BytesFacts DEF Memory
<1>5. Memory'
  BY <1>1, <1>2, <1>4 DEF Memory
<1>6. said'.msg = "counts" /\ said'.name = n /\ said'.out = counts
  BY <1>1
<1>7. Truths' /\ OutputTrue' /\ Targeted
  BY <1>3, <1>4, <1>6 DEF Truths, OutputTrue, Targeted
<1> QED BY <1>5, <1>7 DEF Told

LEMMA RunTold ==
  ASSUME Memory, NEW n \in Names, RunFile(n)
  PROVE  Told
<1> DEFINE sz == Here(n).size
           m  == IF sz < Len(Magic) THEN "no such file"
                 ELSE IF StartsMagic(program') THEN "run" ELSE "bad magic"
<1>1. /\ said' = [cmd |-> "exec", msg |-> m, name |-> n, arg |-> << >>, out |-> << >>]
      /\ program' = Staged(program, n) /\ shell_iobuf' = shell_iobuf
      /\ rmfs_read(n, MaxSize) /\ Named(n) # {}
  BY DEF RunFile, Say
<1>2. /\ Staged(program, n) \in [1 .. MaxSize -> Bytes]
      /\ n \in DOMAIN Store /\ Store[n] \in Seq(Bytes) /\ sz \in 0 .. MaxSize /\ Len(Store[n]) = sz
      /\ \A k \in 1 .. sz : Staged(program, n)[k] = Store[n][k]
  <2>1. MaxSize \in Nat /\ MaxSize <= MaxSize
    BY BytesFacts
  <2> QED BY <1>1, <2>1, StagedFile DEF Memory, Exists
<1>3. TableOK' /\ Store' = Store /\ Kept(n)
  BY <1>1, LookStep, BytesFacts DEF Memory
<1>4. Memory'
  BY <1>1, <1>2, <1>3 DEF Memory
<1>5. Len(Magic) \in Nat /\ sz \in Nat
  BY <1>2, BytesFacts, ShellAssumption
<1>6. m = "run" => Len(Store[n]) >= Len(Magic) /\ StartsMagic(Store[n])
  <2> SUFFICES ASSUME ~(sz < Len(Magic)), StartsMagic(program')
               PROVE  Len(Store[n]) >= Len(Magic) /\ StartsMagic(Store[n])
    OBVIOUS
  <2> HIDE DEF sz
  <2>1. Len(Store[n]) >= Len(Magic)
    BY <1>2, <1>5
  <2>2. \A k \in 1 .. Len(Magic) : Staged(program, n)[k] = Store[n][k] /\ Store[n][k] \in Bytes
    BY <1>2, <1>5
  <2>3. SubSeq(program', 1, Len(Magic)) = SubSeq(Store[n], 1, Len(Magic))
    BY <1>1, <1>5, <2>2, SamePrefix
  <2> QED BY <2>1, <2>3 DEF StartsMagic
<1>7. m = "no such file" => Len(Store[n]) < Len(Magic)
  BY <1>2
<1>8. m \in {"no such file", "run", "bad magic"}
  OBVIOUS
<1> HIDE DEF m
<1>9. said'.cmd = "exec" /\ said'.msg = m /\ said'.name = n
  BY <1>1
<1>10. Truths'
  BY <1>3, <1>6, <1>7, <1>8, <1>9 DEF Truths, Exists
<1>11. OutputTrue' /\ Targeted
  BY <1>3, <1>8, <1>9 DEF OutputTrue, Targeted
<1> QED BY <1>4, <1>10, <1>11 DEF Told

-----------------------------------------------------------------------------
LEMMA ShellStep == Memory /\ shell => Told
<1> SUFFICES ASSUME Memory, shell PROVE Told
  OBVIOUS
<1>1. PICK n \in Names :
        \/ touch(n) \/ cat(n) \/ wc(n) \/ rm(n) \/ exec(n)
        \/ \E t \in Texts : write(n, t)
        \/ \E m \in Names : cp(n, m)
  BY DEF shell
<1>2. touch(n) \/ rm(n) \/ (\E t \in Texts : write(n, t)) => Told
  BY TouchTold, RmTold, WriteTold
<1>3. cat(n) \/ wc(n) \/ exec(n) => Told
  BY NotFoundTold, ShowTold, CountTold, RunTold DEF cat, wc, exec
<1>4. (\E m \in Names : cp(n, m)) => Told
  BY NotFoundTold, CopyTold DEF cp
<1> QED BY <1>1, <1>2, <1>3, <1>4

LEMMA ShellStutter == Memory /\ Truths /\ OutputTrue /\ UNCHANGED shellVars
                        => Memory' /\ Truths' /\ OutputTrue'
<1> SUFFICES ASSUME Memory, Truths, OutputTrue, UNCHANGED shellVars
             PROVE  Memory' /\ Truths' /\ OutputTrue'
  OBVIOUS
<1>1. TableOK' /\ Store' = Store
  BY TableUnchanged DEF shellVars, Memory
<1>2. said' = said /\ shell_iobuf' = shell_iobuf /\ program' = program
  BY DEF shellVars
<1>3. Memory'
  BY <1>1, <1>2 DEF Memory
<1>4. Truths'
  BY <1>1, <1>2 DEF Truths, Exists, TableFull
<1>5. OutputTrue'
  BY <1>1, <1>2 DEF OutputTrue
<1> QED BY <1>3, <1>4, <1>5

(* The files of kernel_main have names of their own, so that each is in    *)
(* the slot it was written to.                                             *)
LEMMA ShellStart == kernel_main => Memory /\ Truths /\ OutputTrue
<1> SUFFICES ASSUME kernel_main PROVE Memory /\ Truths /\ OutputTrue
  OBVIOUS
<1>1. PICK blank \in [Slots -> {f \in File : ~f.used /\ f.size = 0 /\ f.name = NoName}] :
        files = [i \in Slots |->
                   IF i < Len(BootFiles)
                     THEN Copied(blank[i], BootFiles[i + 1].name, BootFiles[i + 1].data)
                     ELSE blank[i]]
  BY DEF kernel_main
<1>2. /\ BootFiles \in Seq([name : Names, data : Seq(Bytes)])
      /\ \A i \in DOMAIN BootFiles :
           /\ valid_name(BootFiles[i].name) /\ Len(BootFiles[i].data) <= MaxSize
           /\ \A j \in DOMAIN BootFiles : BootFiles[i].name = BootFiles[j].name => i = j
  BY ShellAssumption
<1>3. \A i \in Slots : blank[i] \in File /\ ~blank[i].used
  OBVIOUS
<1>4. \A i \in Slots : i \in Int
  BY RmfsAssumption DEF Slots
<1>5. ASSUME NEW i \in Slots
      PROVE  /\ files[i] \in File
             /\ files[i].used => /\ i + 1 \in DOMAIN BootFiles
                                 /\ files[i].name = BootFiles[i + 1].name
                                 /\ files[i].name \in Names
  <2>1. CASE i < Len(BootFiles)
    <3>1. i + 1 \in DOMAIN BootFiles
      BY <1>2, <2>1, RmfsAssumption DEF Slots
    <3>2. BootFiles[i + 1].name \in Names /\ BootFiles[i + 1].data \in Seq(Bytes)
      <4> DEFINE Boot == [name : Names, data : Seq(Bytes)]
      <4>1. BootFiles \in Seq(Boot)
        BY <1>2
      <4> HIDE DEF Boot
      <4>2. BootFiles[i + 1] \in Boot
        BY ONLY <3>1, <4>1
      <4> QED BY <4>2 DEF Boot
    <3>3. files[i] = Copied(blank[i], BootFiles[i + 1].name, BootFiles[i + 1].data)
      BY <1>1, <2>1
    <3> QED BY <1>2, <1>3, <3>1, <3>2, <3>3, CopiedFile
  <2>2. CASE ~(i < Len(BootFiles))
    BY <1>1, <1>3, <2>2
  <2> QED BY <2>1, <2>2
<1>6. files \in [Slots -> File]
  BY <1>1, <1>5
<1>7. UniqueNames
  <2> SUFFICES ASSUME NEW i \in Slots, NEW j \in Slots, files[i].used, files[j].used,
                      files[i].name = files[j].name
               PROVE  i = j
    BY DEF UniqueNames, Unused
  <2>1. i + 1 = j + 1
    BY <1>2, <1>5
  <2> QED BY <1>4, <2>1
<1>8. NamesValid
  <2> SUFFICES ASSUME NEW i \in Slots, files[i].used
               PROVE  files[i].name \in Names /\ valid_name(files[i].name)
    BY DEF NamesValid, Unused
  <2>1. i + 1 \in DOMAIN BootFiles /\ files[i].name = BootFiles[i + 1].name
        /\ files[i].name \in Names
    BY <1>5
  <2> QED BY <1>2, <2>1
<1>9. Memory
  BY <1>6, <1>7, <1>8 DEF Memory, TableOK, kernel_main
<1>10. said.msg = "none"
  BY DEF kernel_main, Nothing
<1> QED BY <1>9, <1>10 DEF Truths, OutputTrue

(* After every command the table is well formed, and what was said and     *)
(* shown is true of it.                                                    *)
THEOREM ShellInvariant == ShellSpec => []ShellInv
<1> DEFINE I == Memory /\ Truths /\ OutputTrue
<1>1. I <=> ShellInv
  BY MessagesByName DEF ShellInv
<1>2. I /\ [shell]_shellVars => I'
  BY ShellStep, ShellStutter DEF Told
<1>3. kernel_main => I
  BY ShellStart
<1> HIDE DEF I
<1> QED BY <1>1, <1>2, <1>3, PTL DEF ShellSpec

(* Whatever the commands before have left in the table and in the buffers, *)
(* a message names what is there or gone, and an error its cause.          *)
THEOREM ShellMessagesTrue == ShellSpec => []MessagesTrue
<1>1. ShellInv => MessagesTrue
  BY DEF ShellInv
<1> QED BY <1>1, ShellInvariant, PTL

(* cat and wc show the file and nothing that was staged before.            *)
THEOREM ShellOutputTrue == ShellSpec => []OutputTrue
<1>1. ShellInv => OutputTrue
  BY DEF ShellInv
<1> QED BY <1>1, ShellInvariant, PTL

(* No command changes a file that is not its target, and those that fail   *)
(* or only look change none.                                               *)
THEOREM ShellOnlyTargetChanges == ShellSpec => OnlyTargetChanges
<1> DEFINE Only ==
      /\ \A n \in (DOMAIN Store \cup DOMAIN Store') \ {said'.name} :
           Exists(n) /\ n \in DOMAIN Store' /\ Store'[n] = Store[n]
      /\ said'.msg \notin {"created", "copied", "wrote", "deleted"} => Store' = Store
<1>1. ShellInv /\ [shell]_shellVars => [Only]_shellVars
  BY ShellStep DEF ShellInv, Told, Targeted, Kept
<1>2. OnlyTargetChanges <=> [][Only]_shellVars
  BY DEF OnlyTargetChanges
<1> HIDE DEF Only
<1> QED BY <1>1, <1>2, ShellInvariant, PTL DEF ShellSpec
=============================================================================
