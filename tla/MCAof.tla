------------------------------- MODULE MCAof -------------------------------
EXTENDS Aof

\* `again` is the number of groups the next life may run besides those left over.
Load(policies, chains, small, large, group, again, rewrite, move, draw, crash) ==
    [policies |-> policies,
     events |-> [chains |-> chains, small |-> small, large |-> large, group |-> group,
                 again |-> again, rewrite |-> rewrite, move |-> move, draw |-> draw,
                 crash |-> crash]]

Both == {"always", "everysec"}

MCWorkloads ==
    {Load(Both, 2, 2, 0, 0, 0, 0, 0, 2, 1),         \* chains that complete out of order
     Load(Both, 2, 1, 0, 0, 0, 2, 0, 2, 1),         \* rotation, failed and completed rewrites
     Load(Both, 1, 0, 0, 0, 0, 3, 0, 0, 1),         \* a rewrite after an aborted one
     Load({"everysec"}, 2, 1, 0, 1, 0, 0, 0, 0, 1), \* a group among other records
     Load({"always"}, 2, 0, 0, 1, 0, 1, 0, 1, 1),   \* a group around a rotation
     Load({"everysec"}, 1, 0, 1, 1, 0, 0, 0, 0, 1), \* a commit record and a large record
     Load({"everysec"}, 1, 0, 0, 1, 1, 0, 0, 0, 2), \* groups in two lives
     Load({"always"}, 2, 2, 0, 0, 0, 0, 1, 1, 0)}   \* a shard moves
=============================================================================
