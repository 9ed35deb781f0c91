---------------------------- MODULE DeliveryLog ----------------------------
(***************************************************************************)
(* What the archive outbox promises, without files, locks or batches.      *)
(*                                                                         *)
(* Source records live in an append-only log without repetitions.  The     *)
(* archive service receives them in any order and any number of times.  A  *)
(* record counts as acknowledged only once it was delivered, never stops   *)
(* being acknowledged, and the acknowledged records are at all times the   *)
(* oldest part of the log.                                                 *)
(***************************************************************************)
EXTENDS Naturals, Sequences, Functions

CONSTANT Record

VARIABLES
    log,            \* the records captured so far, oldest first
    delivered,      \* the records the archive service has taken over
    acknowledged    \* the records that will not be sent again

vars == <<log, delivered, acknowledged>>

\* S is an initial part of the log: whoever is in it, so are all older ones.
IsOldestPart(S) ==
    /\ S \subseteq Range(log)
    /\ \A i, j \in DOMAIN log : i < j /\ log[j] \in S => log[i] \in S

Init ==
    /\ log = <<>>
    /\ delivered = {}
    /\ acknowledged = {}

Extend ==
    /\ log' \in Seq(Record)
    /\ Len(log) =< Len(log')
    /\ \A i \in DOMAIN log : log'[i] = log[i]
    /\ IsInjective(log')
    /\ UNCHANGED <<delivered, acknowledged>>

Deliver ==
    /\ delivered \subseteq delivered'
    /\ delivered' \subseteq Range(log)
    /\ UNCHANGED <<log, acknowledged>>

Acknowledge ==
    /\ acknowledged \subseteq acknowledged'
    /\ acknowledged' \subseteq delivered
    /\ IsOldestPart(acknowledged')
    /\ UNCHANGED <<log, delivered>>

Next == Extend \/ Deliver \/ Acknowledge

Spec == Init /\ [][Next]_vars

----------------------------------------------------------------------------
\* What a user of the log may rely on at any time: no record is in it twice, the
\* service has only what was captured, and what will not be sent again is its
\* oldest part, which the service has (archive_sync.py:183-211).
Promise ==
    /\ log \in Seq(Record) /\ IsInjective(log)
    /\ delivered \subseteq Range(log)
    /\ acknowledged \subseteq delivered
    /\ IsOldestPart(acknowledged)

=============================================================================
