-------------------------- MODULE RecoverableView --------------------------
(***************************************************************************)
(* What a pipeline promises about its materialized view and its durable    *)
(* copy, whatever its source: the view only grows while the pipeline runs, *)
(* a durable copy is always a view the running pipeline really had, and a  *)
(* restart resumes from the newest durable copy, so durable contributions  *)
(* are never undone.                                                       *)
(*                                                                         *)
(* A view counts, for every source change, how often the change has been   *)
(* applied.  KafkaPipeline and PgPipeline implement this module.           *)
(***************************************************************************)
EXTENDS Integers

CONSTANTS
    Changes,    \* the changes a source can deliver
    NoCopy,     \* there is no durable copy
    BadCopy     \* the durable copy cannot be read

VARIABLES
    live,       \* the pipeline has recovered and is applying changes
    view,       \* the view in memory
    durable     \* the copy a restart would read

viewVars == <<live, view, durable>>

NoChanges == [c \in Changes |-> 0]

\* v contains every contribution u contains.
Covers(v, u) == \A c \in Changes : u[c] <= v[c]

Readable == durable \notin {NoCopy, BadCopy}

RVInit ==
    /\ live = FALSE
    /\ view = NoChanges
    /\ durable = NoCopy

\* Changes are applied to the view of a live pipeline.
Advance ==
    /\ live
    /\ view' # view
    /\ Covers(view', view)
    /\ UNCHANGED <<live, durable>>

\* The view becomes the durable copy.
Persist ==
    /\ live
    /\ durable' = view
    /\ UNCHANGED <<live, view>>

\* A pipeline comes up from the durable copy, or from the view it still has in
\* memory when nothing was ever saved.
Recover ==
    /\ ~live
    /\ durable # BadCopy
    /\ live' = TRUE
    /\ view' = IF durable = NoCopy THEN view ELSE durable
    /\ UNCHANGED durable

\* The pipeline's task ends; the process, and with it the view, lives on.
Halt ==
    /\ live
    /\ live' = FALSE
    /\ UNCHANGED <<view, durable>>

\* The process dies.
Forget ==
    /\ live' = FALSE
    /\ view' = NoChanges
    /\ UNCHANGED durable

\* A source with a bootstrap fills the view before the pipeline is live.
Preload ==
    /\ ~live
    /\ durable = NoCopy
    /\ Covers(view', view)
    /\ UNCHANGED <<live, durable>>

\* The bootstrapped view becomes the first durable copy.
FirstCopy ==
    /\ ~live
    /\ durable = NoCopy
    /\ live' = TRUE
    /\ durable' = view
    /\ UNCHANGED view

\* The write of the first copy is cut short: by an error, or by a crash that
\* takes the view with it.
FirstCopyTorn ==
    /\ ~live
    /\ durable = NoCopy
    /\ durable' = BadCopy
    /\ view' \in {view, NoChanges}
    /\ UNCHANGED live

RVNext ==
    \/ Advance \/ Persist
    \/ Recover \/ Halt \/ Forget
    \/ Preload \/ FirstCopy \/ FirstCopyTorn

RVSpec == RVInit /\ [][RVNext]_viewVars
=============================================================================
