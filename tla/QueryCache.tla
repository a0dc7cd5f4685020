----------------------------- MODULE QueryCache -----------------------------
(***************************************************************************)
(* The cache behind the console's screens: the QueryClient of AppProviders *)
(* with a staleTime and queries that are asked for by mounting, refetched, *)
(* invalidated and polled.  The library is @tanstack/react-query 5, taken  *)
(* as its documentation has it.  A failing request is repeated once, which *)
(* only makes it slower, so Fail is the failure that is left.              *)
(***************************************************************************)
CONSTANTS
    Queries,        \* the query keys
    Values,         \* Values[q]: what the requests of q may read
    NoData,         \* nothing has been read yet
    NoFetch,        \* no request is under way
    Sent,           \* a request the server has not answered
    Refused,        \* the server's refusal
    MayFail         \* whether requests fail

ASSUME CacheAssumption ==
    /\ MayFail \in BOOLEAN
    /\ NoFetch # Sent /\ NoFetch # Refused /\ Sent # Refused
    /\ \A q \in Queries : {NoData, NoFetch, Sent, Refused} \cap Values[q] = {}

VARIABLES
    query           \* query[q]: its data, whether they are invalidated or failed, its request

Query(q) == [data : Values[q] \cup {NoData}, invalid : BOOLEAN, failed : BOOLEAN,
             fetch : Values[q] \cup {NoFetch, Sent, Refused}]
Unasked == [data |-> NoData, invalid |-> FALSE, failed |-> FALSE, fetch |-> NoFetch]

Loaded(q) == query[q].data # NoData
Fetching(q) == query[q].fetch # NoFetch

\* A query's error is forgotten when its first data are asked for again.
Started(entry) == [entry EXCEPT !.fetch = Sent, !.failed = @ /\ entry.data # NoData]

\* A fetch that joins the one under way: mounting, the interval.
Joining(entry) == IF entry.fetch = NoFetch THEN Started(entry) ELSE entry

\* A fetch that replaces the one under way, unless that is the first: refetch,
\* invalidation.
Replacing(entry) == IF entry.data = NoData THEN Joining(entry) ELSE Started(entry)

\* Mounting asks for what is missing or out of date; data expire after staleTime.
Mounted(entry, expired) ==
    IF entry.data = NoData \/ entry.invalid \/ expired THEN Joining(entry) ELSE entry

\* invalidateQueries: out of date, and fetched again when a screen shows it.
Invalidated(entry, shown) ==
    LET marked == [entry EXCEPT !.invalid = TRUE] IN IF shown THEN Replacing(marked) ELSE marked

-----------------------------------------------------------------------------
(* What happens to a request.                                              *)

\* The server reads its answer, or refuses.
Serve(q, answer) ==
    /\ query[q].fetch = Sent
    /\ query' = [query EXCEPT ![q].fetch = answer]

Answered(entry) == [data |-> entry.fetch, invalid |-> FALSE, failed |-> FALSE, fetch |-> NoFetch]
Broken(entry) == [entry EXCEPT !.invalid = TRUE, !.failed = TRUE, !.fetch = NoFetch]

\* The answer arrives, and is up to date whatever was invalidated meanwhile.
Arrive(q) ==
    /\ query[q].fetch \in Values[q] \cup {Refused}
    /\ query' = [query EXCEPT ![q] = IF @.fetch = Refused THEN Broken(@) ELSE Answered(@)]

Fail(q) ==
    /\ MayFail
    /\ Fetching(q)
    /\ query' = [query EXCEPT ![q] = Broken(@)]
=============================================================================
