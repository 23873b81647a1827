----------------------------- MODULE FileStore -----------------------------
(***************************************************************************)
(* What RMFS promises to its callers (kernel/rmfs.h): a bounded map from   *)
(* file names to contents, and the return codes of rmfs_write, rmfs_read   *)
(* and rmfs_rm.  Nothing is said of slots, of their order or of the bytes  *)
(* a slot keeps behind the end of a file: module Rmfs, the table of the    *)
(* implementation, is shown to refine this one.                            *)
(***************************************************************************)
EXTENDS Integers, Sequences, FiniteSets

CONSTANTS
  Names,       \* the names the callers pass, the malformed ones included
  ValidNames,  \* those that may name a file
  Contents,    \* the contents the callers pass, some of them too long
  OutSizes,    \* the buffer sizes the callers read into
  MaxFiles,    \* RMFS_MAX_FILES
  MaxSize,     \* RMFS_MAX_SIZE
  NoCall       \* the reply before the first call

VARIABLES
  store,       \* the files: a function from names to contents
  reply        \* the last call with its arguments and its result

vars == <<store, reply>>

Ok      == 0
NoEntry == -1          \* no such file, and no free slot
TooBig  == -2
BadName == -3

Written(n, r)   == [op |-> "write", name |-> n, ret |-> r, out |-> << >>]
Removed(n, r)   == [op |-> "rm", name |-> n, ret |-> r, out |-> << >>]
ReadOut(n, r, o) == [op |-> "read", name |-> n, ret |-> r, out |-> o]

Shorter(a, b) == IF a <= b THEN a ELSE b

Init ==
  /\ store = << >>
  /\ reply = NoCall

(* rmfs_write: the checks in the order in which the code makes them.       *)
Reject(n, r) ==
  /\ reply' = Written(n, r)
  /\ UNCHANGED store

Put(n, d) ==
  /\ n \in ValidNames
  /\ Len(d) <= MaxSize
  /\ n \in DOMAIN store \/ Cardinality(DOMAIN store) < MaxFiles
  /\ store' = [m \in DOMAIN store \cup {n} |-> IF m = n THEN d ELSE store[m]]
  /\ reply' = Written(n, Ok)

Write(n, d) ==
  \/ n \notin ValidNames /\ Reject(n, BadName)
  \/ n \in ValidNames /\ Len(d) > MaxSize /\ Reject(n, TooBig)
  \/ /\ n \in ValidNames
     /\ Len(d) <= MaxSize
     /\ n \notin DOMAIN store
     /\ Cardinality(DOMAIN store) >= MaxFiles
     /\ Reject(n, NoEntry)
  \/ Put(n, d)

(* rmfs_read: the size of the whole file, whatever fits of it copied out.  *)
Read(n, k) ==
  /\ \/ n \notin DOMAIN store /\ reply' = ReadOut(n, NoEntry, << >>)
     \/ /\ n \in DOMAIN store
        /\ reply' = ReadOut(n, Len(store[n]),
                            SubSeq(store[n], 1, Shorter(Len(store[n]), k)))
  /\ UNCHANGED store

Rm(n) ==
  \/ n \notin DOMAIN store /\ reply' = Removed(n, NoEntry) /\ UNCHANGED store
  \/ /\ n \in DOMAIN store
     /\ store' = [m \in DOMAIN store \ {n} |-> store[m]]
     /\ reply' = Removed(n, Ok)

Next ==
  \E n \in Names :
    \/ \E d \in Contents : Write(n, d)
    \/ \E k \in OutSizes : Read(n, k)
    \/ Rm(n)

Spec == Init /\ [][Next]_vars
=============================================================================
