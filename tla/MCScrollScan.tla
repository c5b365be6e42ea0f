---------------------------- MODULE MCScrollScan ----------------------------
(***************************************************************************)
(* Small instances of ScrollScan for TLC.                                  *)
(***************************************************************************)
EXTENDS ScrollScanImplements, ScrollScanInvariant

\* Documents are numbers; the hash puts odd and even ones in different slices.
MCHashCode == [d \in Doc |-> d]

Ask(pageSizes, maxRows, partitions, searchAfter, asked, columns) ==
  [page_size : pageSizes, max_rows : maxRows, partitions : partitions,
   search_after : searchAfter, limit : asked, columns : columns]

Plain == {{"nullable"}}

\* One stream: every page size, row cap and LIMIT around the page boundaries.
PagingQueries ==
  Ask(0..2, {None, 2}, {1}, BOOLEAN, {None, 0, 1, 3}, Plain)

\* Sliced scrolls over a changing index.
SlicedQueries == Ask({1}, {None}, {2}, {FALSE}, {None, 2}, Plain)

\* One or two streams while things go wrong, among them a batch that cannot be
\* built and a page larger than the cluster serves.
FaultQueries ==
  Ask({0, 1}, {None}, {2}, {FALSE}, {None}, {{"nullable"}, {"required"}})
    \cup Ask({2, 3}, {None}, {0}, {FALSE}, {None, 3}, {{"nullable"}, {"nullable", "unsupported"}})

\* A LIMIT above max_rows; a scan without columns; an ordinary scan.
MaxRowsQueries == Ask({1}, {2}, {1}, {FALSE}, {3}, Plain)
CountQueries   == Ask({2}, {None}, {1}, {FALSE}, {None}, {{}})
PartialQueries == Ask({2}, {None}, {1}, {FALSE}, {None}, Plain)

Whole == {Doc}
WholeOrMissing == {Doc, None}
MostOrMissing == {Doc \ {4}, None}
=============================================================================
