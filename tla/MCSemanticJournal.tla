------------------------- MODULE MCSemanticJournal -------------------------
(* Small instances of SemanticJournal for TLC. *)
EXTENDS SemanticJournal, TLC

Symmetry == Permutations(Ids) \cup Permutations(Saves) \cup Permutations(Owners) \cup Permutations(Vecs)

(* One process at a time has all of the bounds; while two are up, each makes *)
(* one change and binds no provenance, and there is no delta on disk.        *)
Shared      == \A o \in Owners : status[o] # "down"
SmallShared ==
    Shared =>
        /\ manifest.version = 3
        /\ manifest.deltas = <<>>
        /\ \A o \in Owners :
              tracker[o].revision <= 1 /\ pending[o] = {} /\ Proven(mem[o]) = {}

(* What later steps and the properties depend on: not the files that nothing *)
(* names, and of a save only what the rest of its way reads.                 *)
Building == {"writing", "written", "staged", "renamed", "published"}
Named ==
    UNION ({Referenced(m) : m \in {manifest, durable}}
           \cup {Referenced(tracker[o].saved) : o \in {p \in Owners : status[p] = "loading"}}
           \cup {{job[s].file} \cup Referenced(job[s].next) : s \in {t \in Saves : pc[t] \in Building}})

StillRead(s) ==
    LET j == job[s] IN
    CASE pc[s] = "idle"                    -> <<>>
      [] pc[s] = "prepared"                -> <<j.owner, j.revision, j.cells, j.dirty>>
      [] pc[s] \in {"rebased", "locked"}   -> <<j.owner, j.revision, j.cells, j.dirty, j.saved>>
      [] pc[s] = "writing"                 -> <<j.owner, j.revision, j.cells, j.dirty, j.next, j.file>>
      [] pc[s] \in {"written", "staged"}   -> <<j.owner, j.revision, j.cells, j.next>>
      [] pc[s] \in {"renamed", "published"} -> <<j.owner, j.revision, j.next>>
      [] pc[s] = "released"                -> <<j.owner, j.revision, j.saved, j.dirty>>

View ==
    <<memory, locks, pc, manifest, durable, minted, synced \cap Named,
      [n \in DOMAIN artifact \cap Named |-> artifact[n]],
      [s \in Saves |-> StillRead(s)]>>
=============================================================================
