-------------------------------- MODULE Rmfs --------------------------------
(***************************************************************************)
(* kernel/rmfs.c: the table of files in .bss and the operations on it.     *)
(*                                                                         *)
(* A name is the sequence of its components, the text between slashes:     *)
(* "a/b" is <<"a", "b">>, and a leading, trailing or double slash, or the  *)
(* empty string, leaves a component Empty.  A component with a blank in it *)
(* is any value outside Components.  Contents are sequences of bytes.      *)
(*                                                                         *)
(* A write copies byte by byte into the slot and a removal clears the slot *)
(* flag, the size and the name only, so that old bytes stay in the slot:   *)
(* the property that matters is that nobody ever sees them.                *)
(***************************************************************************)
EXTENDS Integers, Sequences, FiniteSets

CONSTANTS
  Names,       \* the names the callers pass (sequences of components)
  Components,  \* the well-formed components: not empty, without a blank
  Empty,       \* the component between two slashes with nothing in between
  Overlong,    \* the names of RMFS_MAX_NAME characters and more
  Bytes,       \* the values of a byte
  Contents,    \* the contents the callers pass
  OutSizes,    \* the buffer sizes the callers read into
  MaxFiles,    \* RMFS_MAX_FILES
  MaxSize,     \* RMFS_MAX_SIZE
  NoName,      \* the name field of a slot whose first character is 0
  NoCall       \* the reply before the first call

ASSUME RmfsAssumption ==
  /\ MaxFiles \in Nat \ {0}
  /\ MaxSize \in Nat
  /\ Bytes # {}
  /\ Contents \subseteq Seq(Bytes)
  /\ OutSizes \subseteq Nat
  /\ Empty \notin Components
  /\ NoName \notin Names

VARIABLES
  files,       \* rmfs_files
  reply        \* the last call and its result (what the caller gets)

vars == <<files, reply>>

Slots == 0 .. MaxFiles - 1

File == [used : BOOLEAN, name : Names \cup {NoName}, size : 0 .. MaxSize,
         data : [1 .. MaxSize -> Bytes]]

Lowest(S) == CHOOSE i \in S : \A j \in S : i <= j

valid_name(n) ==
  /\ n \notin Overlong
  /\ \A k \in 1 .. Len(n) : n[k] \in Components

(* find: the lowest slot of that name.  The set is what the loop may stop  *)
(* at; Lowest is where it stops.                                           *)
FindOffByOne(n) ==   \* a bug: the loop of find stops before the last slot
  {i \in 0 .. MaxFiles - 2 : files[i].used /\ files[i].name = n}

FindByPrefix(n) ==   \* a bug: names are compared up to the end of n only
  {i \in Slots : /\ files[i].used /\ Len(files[i].name) >= Len(n)
                 /\ SubSeq(files[i].name, 1, Len(n)) = n}

Named(n)  == {i \in Slots : files[i].used /\ files[i].name = n}
Unused    == {i \in Slots : ~files[i].used}
find(n)   == Lowest(Named(n))

(* rmfs_init: the data bytes of a slot are what the loader left there.     *)
rmfs_init ==
  files \in [Slots -> {f \in File : ~f.used /\ f.size = 0 /\ f.name = NoName}]

Init ==
  /\ rmfs_init
  /\ reply = NoCall

-----------------------------------------------------------------------------
(* rmfs_write.  The copy loop overwrites the first Len(d) bytes only.      *)
CopiedNeverShrinks(f, n, d) ==   \* a bug: an old, larger size is kept
  [used |-> TRUE, name |-> n, size |-> IF f.size > Len(d) THEN f.size ELSE Len(d),
   data |-> [k \in 1 .. MaxSize |-> IF k <= Len(d) THEN d[k] ELSE f.data[k]]]

Copied(f, n, d) ==
  [used |-> TRUE, name |-> n, size |-> Len(d),
   data |-> [k \in 1 .. MaxSize |-> IF k <= Len(d) THEN d[k] ELSE f.data[k]]]

Answer(o, n, r, out) == reply' = [op |-> o, name |-> n, ret |-> r, out |-> out]

WriteRejected(n, d) ==
  /\ \/ ~valid_name(n) /\ Answer("write", n, -3, << >>)
     \/ valid_name(n) /\ Len(d) > MaxSize /\ Answer("write", n, -2, << >>)
  /\ UNCHANGED files

AcceptedOffByOne(n, d) ==   \* a bug: len > RMFS_MAX_SIZE + 1 in the size check
  valid_name(n) /\ Len(d) <= MaxSize + 1

Accepted(n, d) == valid_name(n) /\ Len(d) <= MaxSize

WriteExisting(n, d) ==
  /\ Accepted(n, d)
  /\ Named(n) # {}
  /\ files' = [files EXCEPT ![find(n)] = Copied(@, n, d)]
  /\ Answer("write", n, 0, << >>)

WriteAlwaysNew(n, d) ==   \* a bug: a free slot is taken without a look for the name
  /\ Accepted(n, d)
  /\ Unused # {}
  /\ files' = [files EXCEPT ![Lowest(Unused)] = Copied(@, n, d)]
  /\ Answer("write", n, 0, << >>)

WriteNew(n, d) ==
  /\ Accepted(n, d)
  /\ Named(n) = {}
  /\ Unused # {}
  /\ files' = [files EXCEPT ![Lowest(Unused)] = Copied(@, n, d)]
  /\ Answer("write", n, 0, << >>)

WriteFull(n, d) ==
  /\ Accepted(n, d)
  /\ Named(n) = {}
  /\ Unused = {}
  /\ Answer("write", n, -1, << >>)
  /\ UNCHANGED files

rmfs_write(n, d) ==
  \/ WriteRejected(n, d)
  \/ WriteExisting(n, d)
  \/ WriteNew(n, d)
  \/ WriteFull(n, d)

(* rmfs_read returns the size of the file even when the buffer is smaller. *)
Shorter(a, b) == IF a <= b THEN a ELSE b
Content(f)    == [k \in 1 .. f.size |-> f.data[k]]

rmfs_read(n, k) ==
  /\ \/ Named(n) = {} /\ Answer("read", n, -1, << >>)
     \/ /\ Named(n) # {}
        /\ LET f == files[find(n)]
           IN  Answer("read", n, f.size, SubSeq(Content(f), 1, Shorter(f.size, k)))
  /\ UNCHANGED files

Cleared(f) == [used |-> FALSE, name |-> NoName, size |-> 0, data |-> f.data]

rmfs_rm(n) ==
  \/ Named(n) = {} /\ Answer("rm", n, -1, << >>) /\ UNCHANGED files
  \/ /\ Named(n) # {}
     /\ files' = [files EXCEPT ![find(n)] = Cleared(@)]
     /\ Answer("rm", n, 0, << >>)

Next ==
  \E n \in Names :
    \/ \E d \in Contents : rmfs_write(n, d)
    \/ \E k \in OutSizes : rmfs_read(n, k)
    \/ rmfs_rm(n)

Spec == Init /\ [][Next]_vars
-----------------------------------------------------------------------------
(* What the table stands for: the map from the names in use to contents.   *)
UsedNames == {files[i].name : i \in Slots \ Unused}
Store     == [n \in UsedNames |-> Content(files[find(n)])]

FS == INSTANCE FileStore WITH
        store <- Store, ValidNames <- {n \in Names : valid_name(n)}

(* The types of the table and of the reply.                                *)
Reply == [op : {"write", "read", "rm"}, name : Names,
          ret : -3 .. MaxSize, out : Seq(Bytes)]

TypeOK ==
  /\ files \in [Slots -> File]
  /\ reply \in Reply \cup {NoCall}

(* At most one slot in use bears a name: rmfs_write looks for the name     *)
(* before it takes a free slot, and an older slot never comes back.        *)
UniqueNames ==
  \A i, j \in Slots \ Unused : files[i].name = files[j].name => i = j

(* Only well-formed names ever enter the table: div relies on it when it   *)
(* cuts names at their slashes.                                            *)
NamesValid == \A i \in Slots \ Unused : files[i].name \in Names /\ valid_name(files[i].name)

(* The table implements the bounded map, return codes included: no write,  *)
(* removal or reuse of a slot shows another file's bytes, loses a file or  *)
(* reports a full table while a slot is free.                              *)
ImplementsFileStore == FS!Spec
=============================================================================
