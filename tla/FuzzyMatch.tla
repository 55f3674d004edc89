----------------------------- MODULE FuzzyMatch -----------------------------
(***************************************************************************)
(* MemDbStash::fuzzy_match_sdk_id (src/src/memdb/stash.rs): score every    *)
(* SDK of the local sync state against the SDK parsed from the query,      *)
(* sort the pairs by (score, info > target, Rev(info)) with the stable     *)
(* sort_by_key, and keep the first 10 infos.  The SDKs of the state come   *)
(* out of a HashMap in an arbitrary order, which is an input here.         *)
(*                                                                         *)
(* SdkInfo values are integers (their Ord), SdkInfo::from_filename either  *)
(* yields a target or None, and SdkInfo::get_fuzzy_match (outside this     *)
(* source tree) is an arbitrary score in Scores or None for no match.      *)
(***************************************************************************)
EXTENDS Integers, Sequences, SequencesExt, FiniteSets

CONSTANTS
    SDKs,       \* SdkInfo values that the local state may hold
    Targets,    \* SdkInfo values a query may parse to
    Scores,     \* results of get_fuzzy_match other than None
    TakeLimit,  \* the 10 of take(10)
    None

ASSUME /\ SDKs \cup Targets \subseteq Int
       /\ Scores \subseteq 0..99998
       /\ TakeLimit \in Nat \ {0}

VARIABLES
    pc,      \* where the call is: idle, scan, return, done
    query,   \* the running call's inputs, or None
    rv,      \* the local rv of (score, info) pairs
    result   \* what the call returned

vars == <<pc, query, rv, result>>

\* A query: the local SDKs in HashMap iteration order, the parsed target
\* (None when from_filename fails) and get_fuzzy_match of each local SDK.
Queries ==
    UNION {{[order |-> o, target |-> t, fuzzy |-> f] :
              o \in SetToSeqs(l), t \in Targets \cup {None},
              f \in [l -> Scores \cup {None}]} : l \in SUBSET SDKs}

\* get_fuzzy_match(..).unwrap_or(99999)
Quality(f, s) == IF f[s] = None THEN 99999 ELSE f[s]

\* Variant: the Rev(info) tie-break is left out of the key.
FuzzyKeyNoRev(f, t, a, b) ==
    \/ Quality(f, a) < Quality(f, b)
    \/ /\ Quality(f, a) = Quality(f, b)
       /\ ~(a > t) /\ b > t

\* The order of sort_by_key on (q, info > &sdk_info, Rev(info)): tuples
\* compare lexicographically, false < true, and Rev reverses the SdkInfo order.
FuzzyKeyLess(f, t, a, b) ==
    \/ Quality(f, a) < Quality(f, b)
    \/ /\ Quality(f, a) = Quality(f, b)
       /\ ~(a > t) /\ b > t
    \/ /\ Quality(f, a) = Quality(f, b)
       /\ (a > t) = (b > t)
       /\ a > b

\* slice::sort_by_key is stable: a pair goes after every pair already
\* placed whose key is not greater than its own.
StableInsert(f, t, sorted, x) ==
    InsertAt(sorted,
             Cardinality({i \in 1..Len(sorted) :
                            ~FuzzyKeyLess(f, t, x[2], sorted[i][2])}) + 1,
             x)

SortByKey(f, t, seq) ==
    FoldLeft(LAMBDA acc, x : StableInsert(f, t, acc, x), <<>>, seq)

\* rv.into_iter().take(n).map(|(_, info)| info)
TakeInfos(seq, n) ==
    [i \in 1..(IF n < Len(seq) THEN n ELSE Len(seq)) |-> seq[i][2]]

Init ==
    /\ pc = "idle"
    /\ query = None
    /\ rv = <<>>
    /\ result = <<>>

\* get_local_state and SdkInfo::from_filename: the call starts.
FuzzyMatchStart(q) ==
    /\ pc = "idle"
    /\ query' = q
    /\ pc' = IF q.target = None THEN "return" ELSE "scan"
    /\ UNCHANGED <<rv, result>>

\* One iteration of the loop over local_state.sdks().
ScoreNext ==
    /\ pc = "scan"
    /\ Len(rv) < Len(query.order)
    /\ LET other == query.order[Len(rv) + 1] IN
         rv' = Append(rv, <<Quality(query.fuzzy, other), other>>)
    /\ UNCHANGED <<pc, query, result>>

\* rv.sort_by_key once every SDK is scored.
SortCandidates ==
    /\ pc = "scan"
    /\ Len(rv) = Len(query.order)
    /\ rv' = SortByKey(query.fuzzy, query.target, rv)
    /\ pc' = "return"
    /\ UNCHANGED <<query, result>>

\* take(10) and return (an unparsable query returns the empty rv).
FuzzyMatchReturn ==
    /\ pc = "return"
    /\ result' = TakeInfos(rv, TakeLimit)
    /\ pc' = "done"
    /\ UNCHANGED <<query, rv>>

\* The caller consumes the result; the next call starts afresh.
Consume ==
    /\ pc = "done"
    /\ pc' = "idle"
    /\ query' = None
    /\ rv' = <<>>
    /\ result' = <<>>

Next ==
    \/ \E q \in Queries : FuzzyMatchStart(q)
    \/ ScoreNext \/ SortCandidates \/ FuzzyMatchReturn \/ Consume

Spec == Init /\ [][Next]_vars

-----------------------------------------------------------------------------
(* Reference: spec 4.6 read declaratively.  Candidates are ranked by the   *)
(* vector <<score, 1 if newer than the target else 0, -info>> in           *)
(* lexicographic order; the i-th result is the candidate with exactly i-1  *)
(* candidates ranked before it.                                           *)

RECURSIVE LexBefore(_, _)
LexBefore(u, v) ==
    /\ u # <<>>
    /\ \/ Head(u) < Head(v)
       \/ Head(u) = Head(v) /\ LexBefore(Tail(u), Tail(v))

RankVector(q, s) ==
    <<Quality(q.fuzzy, s), IF s > q.target THEN 1 ELSE 0, -s>>

Reference(q) ==
    LET local == Range(q.order)
        n == IF TakeLimit < Cardinality(local) THEN TakeLimit
             ELSE Cardinality(local)
        Before(a, b) == LexBefore(RankVector(q, a), RankVector(q, b))
    IN IF q.target = None THEN <<>>
       ELSE [i \in 1..n |->
               CHOOSE s \in local :
                  Cardinality({x \in local : Before(x, s)}) = i - 1]

TypeOK ==
    /\ pc \in {"idle", "scan", "return", "done"}
    /\ query \in Queries \cup {None}
    /\ rv \in Seq((Scores \cup {99999}) \X SDKs)
    /\ result \in Seq(SDKs)

=============================================================================
