---------------------------- MODULE StashAbstract ----------------------------
(***************************************************************************)
(* What the stash promises about its durable state, sync.state (spec 3,    *)
(* 4.1, 4.3): it only ever moves toward a listing that a sync fetched from  *)
(* S3, one SDK and one revision at a time; a completed sync leaves it      *)
(* holding exactly that listing for every SDK it does not ignore, keeps    *)
(* the ignored SDKs the listing still has and drops everything the listing *)
(* lacks, again under a new revision.  Nothing else ever writes it.        *)
(*                                                                         *)
(* listing is the S3 listing the running sync works against, or no listing *)
(* (every entry None) when no sync holds one.                              *)
(***************************************************************************)
EXTENDS Integers

CONSTANTS SDKs, Versions, Ignored, None

VARIABLES remote, listing, durable

Etag == Versions \cup {None}
NoListing == [s \in SDKs |-> None]
Rev(st) == IF st.rev = None THEN 0 ELSE st.rev
Revised(st, m) == [sdks |-> m, rev |-> Rev(st) + 1]

\* The state a completed sync records for listing l over state st.
Reconciled(st, l) ==
    [s \in SDKs |-> IF l[s] = None THEN None
                    ELSE IF s \in Ignored THEN st.sdks[s] ELSE l[s]]

Init ==
    /\ remote \in [SDKs -> Etag]
    /\ listing = NoListing
    /\ durable \in [sdks: [SDKs -> Etag], rev: Nat \cup {None}]

\* S3 changes its listing.
Publish(s, e) ==
    /\ remote' = [remote EXCEPT ![s] = e]
    /\ UNCHANGED <<listing, durable>>

\* A sync fetches the listing it will work against.
Fetch ==
    /\ listing' = remote
    /\ UNCHANGED <<remote, durable>>

\* One listed, not ignored SDK is recorded at the listed version.
Upsert(s) ==
    /\ listing[s] # None
    /\ s \notin Ignored
    /\ durable' = Revised(durable, [durable.sdks EXCEPT ![s] = listing[s]])
    /\ UNCHANGED <<remote, listing>>

\* The last save of a completed sync.
Finish ==
    /\ durable' = Revised(durable, Reconciled(durable, listing))
    /\ UNCHANGED <<remote, listing>>

\* The sync ends (completed, failed or the process crashed).
Forget ==
    /\ listing' = NoListing
    /\ UNCHANGED <<remote, durable>>

Next ==
    \/ \E s \in SDKs, e \in Etag : Publish(s, e)
    \/ Fetch
    \/ \E s \in SDKs : Upsert(s)
    \/ Finish
    \/ Forget

Spec == Init /\ [][Next]_<<remote, listing, durable>>

=============================================================================
