----------------------------- MODULE DurableLog -----------------------------
(***************************************************************************)
(* What a log on disk promises to those who write to it and read it, with  *)
(* processes and files left out: the log only grows, by one entry at a     *)
(* time, what a caller has been told of is in it, and it goes on being in  *)
(* it.  An entry may be in the log although nobody was told (the process   *)
(* died before it answered); a later reader may then be told.  The promise *)
(* ends with the first write that the file system did not carry out as a   *)
(* whole.  The block store and the transfer log are shown to implement     *)
(* this specification.                                                     *)
(***************************************************************************)
EXTENDS Naturals, Sequences

VARIABLES
    log,    \* what a reader finds, now or after the next start
    acked,  \* the entries that some caller was told of
    intact  \* no write has failed or been cut short so far

vars == <<log, acked, intact>>

Entries(s) == {s[i] : i \in 1 .. Len(s)}

Init ==
    /\ log = <<>>
    /\ acked = {}
    /\ intact = TRUE

\* One entry is added, and its writer is answered or not.
Extend ==
    /\ Len(log') = Len(log) + 1
    /\ SubSeq(log', 1, Len(log)) = log
    /\ acked \subseteq acked'
    /\ acked' \subseteq acked \cup {log'[Len(log')]}
    /\ UNCHANGED intact

\* Readers are told of entries of the log.
Tell ==
    /\ UNCHANGED <<log, intact>>
    /\ acked \subseteq acked'
    /\ acked' \subseteq Entries(log)

\* A write fails or is cut short: from then on nothing is promised.
Break == ~intact'

Next == Extend \/ Tell \/ Break

Spec == Init /\ [][Next]_vars
=============================================================================
