---------------------------- MODULE MountedDisk ----------------------------
(***************************************************************************)
(* What mounting promises: while a volume is mounted its users see and     *)
(* change a content that starts as what the disk holds.  Changes reach the *)
(* disk one by one, at any time, and have all reached it when the volume   *)
(* has been unmounted; a crash loses those that have not.  Nothing else of *)
(* the disk changes.                                                       *)
(***************************************************************************)
CONSTANTS Sector,  \* the sectors of the disk
          Value    \* what a sector can hold

VARIABLES content,  \* what the users see
          durable,  \* what the disk holds
          mounted,
          crashed   \* the last mount has ended in a crash

vars == <<content, durable, mounted, crashed>>

Init == /\ durable \in [Sector -> Value] /\ content = durable
        /\ mounted = FALSE /\ crashed = FALSE

SomeStored == \A s \in Sector : durable'[s] \in {durable[s], content[s]}

Mount == ~mounted /\ mounted' = TRUE /\ crashed' = FALSE /\ UNCHANGED <<content, durable>>
Change(s, v) == /\ mounted /\ content' = [content EXCEPT ![s] = v]
                /\ UNCHANGED <<durable, mounted, crashed>>
Flush == mounted /\ SomeStored /\ UNCHANGED <<content, mounted, crashed>>
Unmount == /\ mounted /\ durable = content /\ mounted' = FALSE
           /\ UNCHANGED <<content, durable, crashed>>
Crash == /\ mounted /\ SomeStored /\ mounted' = FALSE
         /\ content' = durable' /\ crashed' = TRUE

Next == Mount \/ (\E s \in Sector, v \in Value : Change(s, v)) \/ Flush \/ Unmount \/ Crash

Spec == Init /\ [][Next]_vars
=============================================================================
