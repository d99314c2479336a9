------------------------------ MODULE SpecRepo ------------------------------
(***************************************************************************)
(* The repository of module specifications (spec.ModuleSpecRepo) and the   *)
(* choice of a mode for a task (executor._guess_mode).  A specification is *)
(* its name and its tags.  A repository has the tags of each specification *)
(* and, in `index`, the names that were ever imported under a tag.         *)
(***************************************************************************)
EXTENDS Sequences, SequencesExt, Integers, TLC

ModuleSpec(name, tags) == [name |-> name, tags |-> tags]

EmptyRepo == [tags |-> <<>>, index |-> <<>>]

Names(repo) == DOMAIN repo.tags

\* _tag_index.get(tag), with the empty set for None: `not index` holds of both.
Indexed(repo, tag) ==
  IF tag \in DOMAIN repo.index THEN repo.index[tag] ELSE {}

\* import_spec(spec, overwrite=True).  A name that is overwritten stays in the
\* index under the tags it had before.
ImportSpec(repo, spec) ==
  [tags  |-> (spec.name :> spec.tags) @@ repo.tags,
   index |-> [tag \in spec.tags |-> Indexed(repo, tag) \cup {spec.name}]
               @@ repo.index]

ImportAll(repo, specs) == FoldLeft(ImportSpec, repo, specs)

\* ModuleSpecFactory._import_default and get_repo: a fresh repository with the
\* specifications of the three packages under workers/.
DefaultRepo ==
  ImportAll(EmptyRepo, <<ModuleSpec("async", {"async"}),
                         ModuleSpec("process", {"process", "thread", "async"}),
                         ModuleSpec("thread", {"thread", "async"})>>)

\* Mutant of FilterByTags: the names of all the tags are put together.
FilterByTags_Union(repo, tags) ==
  UNION {Indexed(repo, tags[i]) : i \in DOMAIN tags}

\* The names that are left after each of the tags: an empty set stands for `no
\* tag seen yet`, so that an intersection that became empty starts anew with the
\* next tag.
NamesLeft(repo, tags) ==
  LET left[i \in 0 .. Len(tags)] ==
        IF i = 0 THEN {}
        ELSE IF left[i - 1] = {} THEN Indexed(repo, tags[i])
        ELSE left[i - 1] \cap Indexed(repo, tags[i])
  IN  left

\* filter_by_tags(*tags): nothing, if a tag is unknown.
FilterByTags(repo, tags) ==
  IF \E i \in DOMAIN tags : Indexed(repo, tags[i]) = {} THEN {}
  ELSE NamesLeft(repo, tags)[Len(tags)]

(***************************************************************************)
(* What the caller asks for: `mode` is AnyMode for None, `tags` a sequence *)
(* with <<>> for None, `async` whether the function is one.                *)
(***************************************************************************)
AnyMode == "any"

\* _guess_mode(fn, mode, tags).  A mode that is named without tags need not be
\* in the repository.
GuessMode(repo, ask) ==
  LET filter == FilterByTags(repo, ask.tags)
      res == CASE ask.mode # AnyMode ->
                    IF ask.tags = <<>> \/ ask.mode \in filter
                    THEN {ask.mode} ELSE {}
               [] ask.mode = AnyMode /\ ask.tags # <<>> -> filter
               [] OTHER -> IF ask.async THEN {"async"} ELSE {"thread"}
  IN  IF res = {"async"} /\ ~ask.async THEN {} ELSE res

=============================================================================
