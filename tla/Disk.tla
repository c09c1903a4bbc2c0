-------------------------------- MODULE Disk --------------------------------
(***************************************************************************)
(* What ide_read() and ide_write() promise: a request for several chunks   *)
(* of the disk takes effect chunk by chunk between the call and the return,*)
(* a read delivers what the chunk holds, and the call returns only when    *)
(* every chunk has taken effect.  The promise is void from the moment the  *)
(* device fails or falls behind without the driver looking for it.         *)
(***************************************************************************)
EXTENDS Naturals, Sequences

CONSTANTS MaxChunks, Data, Blank

VARIABLES
  media,   \* chunk |-> what the disk holds there
  req,     \* the request under way, or [kind |-> "none"]
  done,    \* how many chunks of it have taken effect
  got,     \* what a read has delivered so far
  void     \* nothing is promised any more

diskVars == <<media, req, done, got, void>>

Idle == [kind |-> "none"]
Request == [kind : {"read"}, n : 1..MaxChunks]
             \cup [kind : {"write"}, n : 1..MaxChunks, val : Data]

DiskInit ==
  /\ media = [i \in 1..MaxChunks |-> Blank]
  /\ req = Idle
  /\ done = 0
  /\ got = <<>>
  /\ void = FALSE

Call ==
  /\ req = Idle
  /\ req' \in Request
  /\ done' = 0 /\ got' = <<>>
  /\ UNCHANGED media

Read ==
  /\ req.kind = "read" /\ done < req.n
  /\ done' = done + 1
  /\ got' = Append(got, media[done'])
  /\ UNCHANGED <<media, req>>

Write ==
  /\ req.kind = "write" /\ done < req.n
  /\ done' = done + 1
  /\ media' = [media EXCEPT ![done'] = req.val]
  /\ UNCHANGED <<req, got>>

Return ==
  /\ req # Idle /\ done = req.n
  /\ req' = Idle
  /\ done' = 0
  /\ UNCHANGED <<media, got>>

DiskNext ==
  \/ ~void /\ ~void' /\ (Call \/ Read \/ Write \/ Return)
  \/ void'

DiskSpec == DiskInit /\ [][DiskNext]_diskVars
=============================================================================
