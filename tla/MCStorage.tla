------------------------------ MODULE MCStorage ------------------------------
EXTENDS Storage, TLC

Of(ops) == {r \in Request : r.op \in ops}

\* What touches one volume and the pool under it: two workers interleave any
\* two of these requests.
MCPosts ==
  Of({"start", "stop", "delete", "create"})
  \cup {r \in Of({"del_volume"}) : r.name.imgs = 0}
  \cup {r \in Of({"iso_upload"}) : Len(r.files) = 1}

\* Every request there is, uploads of two files among them; of clones those of
\* the volume that uploads write, whose name gets ".img" twice.
MCFaultPosts ==
  {r \in Request : r.op = "cln_volume" => r.from.imgs = 0 /\ r.format = "dir"}

Interchangeable == Permutations(Worker)
=============================================================================
