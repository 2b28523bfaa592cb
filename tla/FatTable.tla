------------------------------ MODULE FatTable ------------------------------
(***************************************************************************)
(* What the FAT access routines promise their callers: a table of entries  *)
(* that can be read and written, held on a disk.  Entries reach the disk   *)
(* at some time after they are set, each on its own, and all of them when  *)
(* the table is stored; a restart finds those that have reached it.        *)
(* Nothing is promised once a transfer has failed while the table was in   *)
(* use (ok = FALSE), until the volume is mounted again.                    *)
(***************************************************************************)
CONSTANTS Entry,   \* the entries of the table
          Value    \* what an entry can hold

VARIABLES table,   \* what a reader finds in each entry
          durable, \* what the disk holds for each entry
          got,     \* the value last read
          ok       \* no transfer has failed

vars == <<table, durable, got, ok>>

Init == /\ durable \in [Entry -> Value] /\ table = durable
        /\ got \in Value /\ ok = TRUE

\* Some entries may reach the disk during any operation.
SomeStored == \A e \in Entry : durable'[e] \in {durable[e], table[e]}

Get(e) == got' = table[e] /\ SomeStored /\ UNCHANGED <<table, ok>>
Set(e, v) == table' = [table EXCEPT ![e] = v] /\ SomeStored /\ UNCHANGED <<got, ok>>
Store == durable' = table /\ UNCHANGED <<table, got, ok>>
StoreInterrupted == SomeStored /\ UNCHANGED <<table, got, ok>>
LoseTrack == ok' = FALSE
Restart == table' = durable' /\ durable' = durable /\ ok' = TRUE /\ UNCHANGED got

Next == \/ /\ ok
           /\ \/ \E e \in Entry : Get(e) \/ \E v \in Value : Set(e, v)
              \/ Store \/ StoreInterrupted
        \/ LoseTrack
        \/ Restart

Spec == Init /\ [][Next]_vars
=============================================================================
