-------------------------- MODULE BulkWriteBatches --------------------------
(***************************************************************************)
(* How a bulk write to the server is split across requests, see            *)
(* bulk-write-batches.ts.  A document is its size in bytes; a request is   *)
(* the sequence of its documents' positions in the write.                  *)
(***************************************************************************)
EXTENDS Integers, Sequences

CONSTANTS MaxBytes, MaxDocuments   \* BulkWriteLimits

ASSUME LimitsAssumption == MaxBytes \in Nat \ {0} /\ MaxDocuments \in Nat \ {0}

\* The requests so far, and the one that is being filled
Start == [requests |-> <<>>, current |-> <<>>, currentBytes |-> 0]

\* Mutant: the limit of documents is checked after one more was added.
AddOneTooMany(s, size, i) ==
    IF /\ s.current # <<>>
       /\ s.currentBytes + size[i] > MaxBytes \/ Len(s.current) > MaxDocuments
    THEN [requests |-> Append(s.requests, s.current),
          current |-> <<i>>, currentBytes |-> size[i]]
    ELSE [s EXCEPT !.current = Append(s.current, i), !.currentBytes = s.currentBytes + size[i]]

\* One document more: the request is closed when it would exceed a budget.
Add(s, size, i) ==
    IF /\ s.current # <<>>
       /\ s.currentBytes + size[i] > MaxBytes \/ Len(s.current) >= MaxDocuments
    THEN [requests |-> Append(s.requests, s.current),
          current |-> <<i>>, currentBytes |-> size[i]]
    ELSE [s EXCEPT !.current = Append(s.current, i), !.currentBytes = s.currentBytes + size[i]]

\* The request that was being filled is the last one.
Closed(s) == IF s.current = <<>> THEN s.requests ELSE Append(s.requests, s.current)

\* splitIntoRequests(): documents are taken in their order.
SplitIntoRequests(size) ==
    LET after[n \in 0..Len(size)] == IF n = 0 THEN Start ELSE Add(after[n - 1], size, n)
    IN Closed(after[Len(size)])

-----------------------------------------------------------------------------
\* Bytes of the documents at these positions
Bytes(size, positions) ==
    LET sum[n \in 0..Len(positions)] ==
            IF n = 0 THEN 0 ELSE sum[n - 1] + size[positions[n]]
    IN sum[Len(positions)]

\* The position that request k begins with
FirstOf(requests, k) == IF k = 1 THEN 1 ELSE requests[k - 1][Len(requests[k - 1])] + 1

\* The documents from the first one on, each once and in order
Lists(request, first) ==
    /\ request # <<>> /\ request[1] = first
    /\ \A j \in 1..(Len(request) - 1) : request[j + 1] = request[j] + 1

\* A request stays within both budgets, unless it is a single document that is too large.
Fits(size, request) ==
    /\ Len(request) <= MaxDocuments
    /\ Bytes(size, request) <= MaxBytes \/ Len(request) = 1

\* It is not closed early: the first document of the next one would not have fitted.
IsFull(size, request, next) ==
    Len(request) = MaxDocuments \/ Bytes(size, request) + size[next[1]] > MaxBytes

\* The requests list all documents, one after the other.
IsSplit(size, requests) ==
    /\ \A k \in DOMAIN requests :
          Lists(requests[k], FirstOf(requests, k)) /\ Fits(size, requests[k])
    /\ \A k \in 1..(Len(requests) - 1) : IsFull(size, requests[k], requests[k + 1])
    /\ FirstOf(requests, Len(requests) + 1) = Len(size) + 1
=============================================================================
