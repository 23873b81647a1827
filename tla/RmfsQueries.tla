----------------------------- MODULE RmfsQueries ----------------------------
(***************************************************************************)
(* kernel/rmfs.c: the operations that only look at the table, as           *)
(* operators on the state of module Rmfs, and what a caller relies on when *)
(* it combines them with the others.                                       *)
(***************************************************************************)
EXTENDS Rmfs, SequencesExt

CONSTANT Dirs   \* the folder names passed to rmfs_ls_dir, none overlong

Parts == UNION {Range(n) : n \in Names \cup Dirs}   \* the components that occur

ASSUME DirsAssumption ==
  /\ Dirs \cap Overlong = {} /\ << >> \notin Dirs
  /\ Names \cup Dirs \subseteq Seq(Parts)

rmfs_count == Cardinality(Slots \ Unused)

rmfs_stat == [files |-> rmfs_count,
              bytes |-> MapThenSumSet(LAMBDA i : files[i].size, Slots \ Unused)]

(* rmfs_ls: the calls fn(name, size), in the order of the slots.           *)
Entry(f) == [name |-> f.name, size |-> f.size]

ListPacked ==   \* a bug: the listing stops at the first free slot
  LET inUse == {k \in 0 .. MaxFiles : \A j \in 0 .. k - 1 : files[j].used}
  IN  [k \in 1 .. Max(inUse) |-> Entry(files[k - 1])]

Listed(table) ==
  FoldLeft(LAMBDA out, f : IF f.used THEN Append(out, Entry(f)) ELSE out,
           << >>, [k \in 1 .. MaxFiles |-> table[k - 1]])

rmfs_ls == Listed(files)

(* rmfs_ls_dir: the trailing slashes of dir are cut, one slash is added    *)
(* and the entries that start with that prefix are shown without it.       *)
Stripped(dir) ==
  LET kept == {k \in 1 .. Len(dir) : dir[k] # Empty}
  IN  IF kept = {} THEN <<Empty>> ELSE SubSeq(dir, 1, Max(kept))

ls_dir_one(dir, e) ==
  Len(e.name) > Len(dir) /\ SubSeq(e.name, 1, Len(dir)) = dir

Inside(prefix, e) == [e EXCEPT !.name = SubSeq(@, Len(prefix) + 1, Len(@))]

rmfs_ls_dir(dir) ==
  FoldLeft(LAMBDA out, e : IF ls_dir_one(Stripped(dir), e)
                             THEN Append(out, Inside(Stripped(dir), e)) ELSE out,
           << >>, rmfs_ls)

-----------------------------------------------------------------------------
(* `mem` adds up what the map holds: the number of files and of bytes of   *)
(* rmfs_stat are those of the files a caller can read.                     *)
CensusAgrees ==
  LET sum == MapThenSumSet(LAMBDA n : Len(Store[n]), DOMAIN Store)
  IN  rmfs_stat = [files |-> Cardinality(DOMAIN Store), bytes |-> sum]

(* An entry shown by `ls dir`, joined to the folder again, opens a file of *)
(* that size; every file below the folder is shown, once; and a folder     *)
(* name typed with trailing slashes shows the same as without them.        *)
ListedFilesOpen ==
  \A dir \in Dirs :
    LET shown   == rmfs_ls_dir(dir)
        full(k) == Stripped(dir) \o shown[k].name
    IN  /\ \A k \in 1 .. Len(shown) :
              /\ full(k) \in DOMAIN Store
              /\ Len(Store[full(k)]) = shown[k].size
              /\ \A l \in 1 .. Len(shown) : full(k) = full(l) => k = l
        /\ \A n \in DOMAIN Store :
              (\E m \in 1 .. Len(n) - 1 : SubSeq(n, 1, m) = Stripped(dir))
                => \E k \in 1 .. Len(shown) : full(k) = n
=============================================================================
