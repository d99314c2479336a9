----------------------------- MODULE MCExecutor -----------------------------
(***************************************************************************)
(* Values for the constants of Executor that a cfg cannot write.           *)
(***************************************************************************)
EXTENDS Executor

AskFor(async, mode, tags) == [async |-> async, mode |-> mode, tags |-> tags]

\* A plain function; a coroutine function with tags of two modes; a mode that
\* does not fit, and one that is unknown; tags that no specification has
\* together.
SomeAsks == {AskFor(FALSE, AnyMode, <<>>),
             AskFor(TRUE, AnyMode, <<"async", "thread">>),
             AskFor(FALSE, "async", <<>>),
             AskFor(FALSE, "gpu", <<>>),
             AskFor(FALSE, AnyMode, <<"process", "remote", "thread">>)}

\* One specification of a new mode, and one that takes a tag of the default
\* specification of threads away.
SomeExtraLists == {<<ModuleSpec("remote", {"remote", "async"}),
                     ModuleSpec("thread", {"thread"})>>}

=============================================================================
