----------------------------- MODULE AudioSpool -----------------------------
(***************************************************************************)
(* The durable audio spool (voicetext-gateway storage/spool.rs): one file  *)
(* per job and audio digest, and one identity claim per job that binds the *)
(* job to a digest.  store and remove run under the spool's mutation lock  *)
(* and each file appears atomically (write, fsync, hard link), so each is  *)
(* one step; the points at which one may fail part-way are its failure     *)
(* outcomes, and a crash inside one is such an outcome followed by the     *)
(* crash.                                                                  *)
(***************************************************************************)
EXTENDS BatchJob

CONSTANT MaxFiles  \* the byte quota of the spool, in files

ASSUME QuotaAssumption == MaxFiles \in Nat \ {0}

VARIABLES files,   \* set of <<job, audio>>
          claims,  \* [Jobs -> Audios \cup {NoAudio}]
          stale    \* the files found again so old that they expire before the finder is done

spoolVars == <<files, claims, stale>>

SpoolInit ==
    /\ files = {}
    /\ claims = [j \in Jobs |-> NoAudio]
    /\ stale = {}

\* The quota is examined only when the file is not there yet.
HasRoom(j, a) == <<j, a>> \in files \/ Cardinality(files) < MaxFiles

\* Stored (owns) when this call created the file, Existing otherwise: the file
\* keeps its time of modification, which may be long ago (aged).
Store(j, a, owns, aged) ==
    /\ HasRoom(j, a)
    /\ claims[j] \in {NoAudio, a}
    /\ owns = (<<j, a>> \notin files)
    /\ aged => ~owns
    /\ stale' = IF aged THEN stale \cup {<<j, a>>} ELSE stale
    /\ files' = files \cup {<<j, a>>}
    /\ claims' = [claims EXCEPT ![j] = a]

\* CapacityExceeded, before anything is written.
StoreRefused(j, a) ==
    /\ ~HasRoom(j, a)
    /\ UNCHANGED spoolVars

\* IdentityConflict: the job is claimed by another digest, and a file this
\* call created is removed again.
StoreConflict(j, a) ==
    /\ HasRoom(j, a)
    /\ claims[j] \notin {NoAudio, a}
    /\ UNCHANGED spoolVars

\* An I/O error: before the file was created, between file and claim (also:
\* while removing the file of a refused claim), or after the claim (the
\* directory sync failed).
StoreFails(j, a) ==
    /\ HasRoom(j, a)
    /\ stale' = stale
    /\ \/ UNCHANGED <<files, claims>>
       \/ /\ files' = files \cup {<<j, a>>}
          /\ claims' = claims
       \/ /\ claims[j] = NoAudio
          /\ files' = files \cup {<<j, a>>}
          /\ claims' = [claims EXCEPT ![j] = a]

\* The file and, when it names the same digest, the claim.
Remove(j, a) ==
    /\ files' = files \ {<<j, a>>}
    /\ stale' = stale \ {<<j, a>>}
    /\ claims' = [claims EXCEPT ![j] = IF claims[j] = a THEN NoAudio ELSE @]

\* An I/O error before the file is removed, before the claim is, or after.
RemoveFails(j, a) ==
    \/ UNCHANGED spoolVars
    \/ /\ files' = files \ {<<j, a>>}
       /\ stale' = stale \ {<<j, a>>}
       /\ claims' = claims
    \/ Remove(j, a)
=============================================================================
