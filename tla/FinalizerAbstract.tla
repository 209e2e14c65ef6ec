-------------------------- MODULE FinalizerAbstract --------------------------
(***************************************************************************)
(* What the part writer and its Finalizer promise their callers (spec      *)
(* sections 4.1, 7 and 8.2), without the files' write buffers or the       *)
(* storage transaction:                                                    *)
(*                                                                         *)
(*   - the handle is created once, with the part's checksums frozen, and   *)
(*     is used once: finished, failed or cancelled, never two of these;   *)
(*   - readers see nothing of the part until the caller publishes a       *)
(*     finished part, and then they see exactly the files its checksums   *)
(*     name plus plain metadata files, which carry no checksum.           *)
(***************************************************************************)
CONSTANTS
    Hashed,     \* the files a checksum may name
    Plain       \* the plain metadata files, which have no checksum

VARIABLES
    h,          \* the commit handle: "none", "live", "finished", "failed", "cancelled"
    sums,       \* the files named in the part's checksums
    visible     \* the files of the part readers see

avars == <<h, sums, visible>>

AInit ==
    /\ h = "none"
    /\ sums = {}
    /\ visible = {}

\* Finalization produces a handle and freezes the checksums.
APrepare ==
    /\ h = "none"
    /\ h' = "live"
    /\ sums' \in SUBSET Hashed
    /\ visible' = visible

\* The handle is used once.
AFinish ==
    /\ h = "live"
    /\ h' \in {"finished", "failed"}
    /\ UNCHANGED <<sums, visible>>

ACancel ==
    /\ h = "live"
    /\ h' = "cancelled"
    /\ UNCHANGED <<sums, visible>>

\* A finished part is published whole.
APublish ==
    /\ h = "finished"
    /\ visible = {}
    /\ \E p \in SUBSET Plain : visible' = sums \cup p
    /\ UNCHANGED <<h, sums>>

ANext == APrepare \/ AFinish \/ ACancel \/ APublish

ASpec == AInit /\ [][ANext]_avars
=============================================================================
