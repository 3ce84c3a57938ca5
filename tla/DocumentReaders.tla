-------------------------- MODULE DocumentReaders --------------------------
(***************************************************************************)
(* A literal document query of a process that holds no store               *)
(* (open_literal_reader, src/src/documents/store.rs): it reads the commit  *)
(* payload, the generation the payload names, and then the index, without  *)
(* a lock, while the stores of DocumentGenerations publish and collect.    *)
(***************************************************************************)
EXTENDS DocumentGenerations

CONSTANT Readers

VARIABLE reader  \* per reader: where it is, the generation, its file states, the chunks

readVars == <<reader>>

Shut == [at |-> "shut", gen |-> 0, files |-> NoFiles, docs |-> {}]

ReadersInit == Init /\ reader = [r \in Readers |-> Shut]

ReadPayload(r) ==
    /\ reader[r].at = "shut" /\ payload # 0
    /\ reader' = [reader EXCEPT ![r].at = "named", ![r].gen = payload]

\* The generation may have been collected since: an error.
ReadGeneration(r) ==
    /\ reader[r].at = "named"
    /\ \/ /\ reader[r].gen \in DOMAIN generations
          /\ reader' = [reader EXCEPT ![r].at = "loaded",
                                      ![r].files = generations[reader[r].gen].files]
       \/ /\ reader[r].gen \notin DOMAIN generations
          /\ reader' = [reader EXCEPT ![r] = Shut]

PinIndex(r) ==
    /\ reader[r].at = "loaded"
    /\ reader' = [reader EXCEPT ![r].at = "pinned", ![r].docs = docs]

Release(r) ==
    /\ reader[r].at = "pinned"
    /\ reader' = [reader EXCEPT ![r] = Shut]

Read(r) == ReadPayload(r) \/ ReadGeneration(r) \/ PinIndex(r) \/ Release(r)

ReadersNext ==
    \/ Next /\ UNCHANGED readVars
    \/ (\E r \in Readers : Read(r)) /\ UNCHANGED vars

ReadersSpec == ReadersInit /\ [][ReadersNext]_<<vars, readVars>>

\* The chunks a literal query returns are those of the generation it reports
\* with them, so that a handle made of both is read from that generation
\* (store.rs:514, read_chunk at store.rs:2932).
HitsNameTheirGeneration ==
    \A r \in Readers : reader[r].at = "pinned" => reader[r].docs = DocsOf(reader[r].files)
=============================================================================
