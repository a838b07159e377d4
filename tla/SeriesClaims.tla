---------------------------- MODULE SeriesClaims ----------------------------
(* What comments of the scoped edits say and the code does not do. *)
EXTENDS MCSeries

\* Two simultaneous scoped edits "cannot silently lose one another" (editSeries), and
\* an "all" edit does not resurrect deleted occurrences (ReplaceMaster): a deletion of
\* an occurrence stays as long as the series is there.  The "all" edit takes its
\* EXDATEs from a read before editSeries begins; the If-Match and the retries guard
\* the overrides only, and a deletion that came in between is undone.
DeletionsStay == [][row # None /\ row' # None => row.ex \subseteq row'.ex]_vars
=============================================================================
