----------------------------- MODULE MCJobQueue -----------------------------
(***************************************************************************)
(* Instances of JobQueue for TLC.                                          *)
(***************************************************************************)
EXTENDS JobQueue, TLC

CONSTANTS j1, j2, j3, w1, w2, l1, k1, c1, c2

Plain(type, loc, key) == [type |-> type, loc |-> loc, key |-> key, retryOf |-> None]

\* One scan request (the scheduler's and the API's are the same row), one
\* deduplicated index request, and one job of the kinds that never look at
\* their cancellation flag.
ScanRequest  == Plain("scan_location", l1, None)
IndexRequest == Plain("index_file", None, k1)
OtherRequest == Plain("maintenance", None, None)

AllRequests == {ScanRequest, IndexRequest, OtherRequest}
ScanAndOther == {ScanRequest, OtherRequest}
ScanAndIndex == {ScanRequest, IndexRequest}

SlotSymmetry == Permutations({w1, w2}) \cup Permutations({j1, j2})
RowSymmetry == Permutations({j1, j2, j3}) \cup Permutations({c1, c2})
=============================================================================
