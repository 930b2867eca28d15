--------------------------- MODULE MCFetchSegments ---------------------------
(***************************************************************************)
(* A line of twelve columns, two of them added by its tab, and quotes that *)
(* occur at its start, twice, at its end, next to each other, or nowhere.  *)
(***************************************************************************)
EXTENDS FetchSegments

Quote(at, len, says) == [at |-> at, len |-> len, says |-> says]

MCQuotes ==
    {Quote({}, 2, "text"), Quote({3}, 0, "text"), Quote({0}, 2, "text"),
     Quote({2, 6}, 1, "blank"), Quote({3}, 2, "text"), Quote({5}, 1, "text"),
     Quote({4, 7}, 1, "undefined"), Quote({1, 2}, 3, "text"),
     Quote({7, 9}, 2, "text"), Quote({9}, 3, "text"), Quote({11}, 1, "text"),
     Quote({4, 8}, 1, "blank")}
=============================================================================
