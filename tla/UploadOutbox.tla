---------------------------- MODULE UploadOutbox ----------------------------
(***************************************************************************)
(* What the upload queue promises the rest of the app, whatever its slots, *)
(* drains, sessions and retries do: a recording handed to it waits until   *)
(* it is either delivered, which the server has then archived, or given    *)
(* up, after which only the user hands it over again.  Nothing delivered   *)
(* ever leaves that state.  UploadService implements this specification.   *)
(***************************************************************************)
CONSTANTS Items, RecordingOf

VARIABLES phase,     \* what the app may know of each queue row
          archive    \* the recordings the server has accepted

vars == <<phase, archive>>

Init == /\ phase = [i \in Items |-> "absent"]
        /\ archive = {}

Move(i, from, to) == /\ phase[i] = from
                     /\ phase' = [phase EXCEPT ![i] = to]
                     /\ UNCHANGED archive

Submit(i)   == Move(i, "absent", "waiting")
Deliver(i)  == RecordingOf[i] \in archive /\ Move(i, "waiting", "delivered")
GiveUp(i)   == Move(i, "waiting", "failed")
Resubmit(i) == Move(i, "failed", "waiting")

\* The server accepts some of the recordings that wait, and no others.
Accept == /\ \E R \in SUBSET {RecordingOf[i] : i \in {j \in Items : phase[j] = "waiting"}} :
                archive' = archive \cup R
          /\ UNCHANGED phase

Next == \/ Accept
        \/ \E i \in Items : Submit(i) \/ Deliver(i) \/ GiveUp(i) \/ Resubmit(i)

Spec == Init /\ [][Next]_vars

\* A recording the app shows as delivered is one the server has accepted.
DeliveredIsArchived == \A i \in Items : phase[i] = "delivered" => RecordingOf[i] \in archive
=============================================================================
