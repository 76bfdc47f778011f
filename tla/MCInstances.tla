----------------------------- MODULE MCInstances -----------------------------
(* Instances for TLC. *)
EXTENDS Instances, TLC

\* All forms; of the texts for change_xml those with empty drives and no
\* balloon, of the settings those where the four fields can be told apart.
MCPosts ==
  {r \in Request :
     /\ r.op = "change_xml" => /\ r.conf.disks = Disk /\ r.conf.mem.cur = r.conf.mem.max
                               /\ \A cd \in Cd : r.conf.cd[cd] = ""
     /\ r.op = "change_settings" => /\ r.max # r.cur
                                    /\ r.maxCustom # r.max /\ r.curCustom # r.cur}

\* Sessions, and settings of the console, are interchangeable.
Interchangeable == Permutations(Session) \cup Permutations(Graphics)
=============================================================================
