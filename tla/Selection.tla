----------------------------- MODULE Selection ------------------------------
(***************************************************************************)
(* Which tests a run executes (TestSelector.cpp).  A test is its suite,    *)
(* name, tags and whether it is enabled; a filter is a set of globs for    *)
(* each of them.  A glob is "*" or a literal text; one for names has a     *)
(* part for the suite, which is "*" when only a name was given.            *)
(***************************************************************************)
EXTENDS Naturals, Sequences, FiniteSets, SequencesExt

NoFilter == [suites |-> {}, names |-> {}, tags |-> {}, excludeTags |-> {},
             excludeSuites |-> {}, includeDisabled |-> FALSE]

IsEmptyFilter(filter) ==
  \A field \in {"suites", "names", "tags", "excludeTags", "excludeSuites"} : filter[field] = {}

MatchesAnyGlob(patterns, text) == patterns \cap {"*", text} # {}

Matches(filter, t) ==
  /\ t.enabled \/ filter.includeDisabled
  /\ filter.suites # {} => MatchesAnyGlob(filter.suites, t.suite)
  /\ ~MatchesAnyGlob(filter.excludeSuites, t.suite)
  /\ filter.names # {} => \E glob \in filter.names :
       MatchesAnyGlob({glob[1]}, t.suite) /\ MatchesAnyGlob({glob[2]}, t.name)
  /\ filter.tags # {} => \E tag \in t.tags : MatchesAnyGlob(filter.tags, tag)
  /\ \A tag \in t.tags : ~MatchesAnyGlob(filter.excludeTags, tag)

\* Mutant: a test's place in the selection decides about its shard.
BugInShardByPlace(hash, selected, t, count, index) ==
  count <= 1 \/ Cardinality({u \in selected : hash[u] < hash[t]}) % count = index % count

\* The shard of a test depends on the hash of its name alone.
InShard(hash, selected, t, count, index) ==
  count <= 1 \/ hash[t] % count = index % count

\* select() before the shuffle, as a set: the order follows from the names.
SelectFrom(candidates, filter, hash, count, index) ==
  LET selected == {t \in candidates : Matches(filter, t)}
  IN {t \in selected : InShard(hash, selected, t, count, index)}

\* runCommand(): a run that asks for nothing in particular leaves out the suites
\* that are excluded by default.
RunFilter(filter, excludedByDefault) ==
  IF IsEmptyFilter(filter) THEN [filter EXCEPT !.excludeSuites = excludedByDefault] ELSE filter

\* listTests(): a listing shows the disabled tests too.
ListFilter(filter) == [filter EXCEPT !.includeDisabled = TRUE]
=============================================================================
