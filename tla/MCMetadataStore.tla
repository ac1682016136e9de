-------------------------- MODULE MCMetadataStore ---------------------------
(* Finite instances of MetadataStore for TLC.                               *)
EXTENDS MetadataStore, TLC

CONSTANTS w1, w2, w3, g1, bug, story, summary, own, kanban, s1, high, label

Sync(types, fields, boards, sprints, items) ==
    [issue_types |-> types, fields |-> fields, boards |-> boards,
     sprints |-> sprints, items |-> items]

\* Three syncs of one project while it changes: types, boards and labels differ,
\* and one board id configured by hand is not among the project's boards.  The
\* summary and the priority are the site's and always there.
SameSite == (w1 :> Sync({bug}, {summary}, {kanban}, {<<kanban, s1>>}, {high, label}))
         @@ (w2 :> Sync({bug, story}, {summary, own}, {}, {<<kanban, s1>>}, {high}))
         @@ (w3 :> Sync({bug}, {summary, own}, {kanban}, {}, {high, label}))

\* The connection was pointed at another project between two syncs.  Fields and
\* priorities are the same, and labels have the same keys: fetch_fields,
\* fetch_priorities and fetch_labels ask for those of the whole site.
OtherProject == (w1 :> Sync({bug}, {summary}, {}, {}, {high, label}))
             @@ (w2 :> Sync({story}, {summary}, {}, {}, {high, label}))
=============================================================================
