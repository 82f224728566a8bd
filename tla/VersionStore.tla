----------------------------- MODULE VersionStore -----------------------------
(***************************************************************************)
(* The versions of one model: persist of src/src/model-graph-store.mjs, and  *)
(* the lock file that it and src/src/design-intent-store.mjs put around it.  *)
(*                                                                         *)
(* A graph is published by a link, then the manifest that lists it replaces  *)
(* the one read under the lock.  A lock whose process has ended, or that was *)
(* never written whole and is old, is moved away by whoever waits for it; it *)
(* is judged in one step and moved in a later one, when the file of that     *)
(* name may be the lock of another process.  `displaced' records that this   *)
(* has happened: the code promises nothing then, and little still holds.     *)
(***************************************************************************)
EXTENDS Naturals, Sequences, Functions, SequencesExt

CONSTANTS
  Writer,     \* processes, each with one call of persist at a time
  Graph,      \* graphs of the model, each named by its content
  MaxCrashes, \* bound
  Absent

ASSUME CrashAssumption == MaxCrashes \in Nat

VARIABLES
  storeLock, \* .store.lock
  file,      \* graphs/<id>.json
  manifest,
  writer,
  crashes,
  displaced, \* history: a lock that is held has been moved away
  damaged,   \* history: graphs with an unreadable file at the start
  kept       \* history: graphs whose persist has returned

disk == <<file, manifest>>
past == <<crashes, displaced, damaged, kept>>
storeVars == <<storeLock, disk, writer, past>>

\* left: the process that created it has ended, or given it up.
Lock == [by : Writer, whole : BOOLEAN, left : BOOLEAN]

Empty == [versions |-> <<>>, current |-> Absent]
Listed(m) == ToSet(m.versions)

StorePlace == {"idle", "open", "fill", "judge", "move",
               "read", "check", "orphan", "link", "commit", "release", "unlock"}
Idle == [pc |-> "idle", g |-> Absent, judged |-> Absent, saw |-> Empty, done |-> FALSE]

ASSUME AbsentAssumption == Absent \notin Graph \cup Lock \cup {"unreadable", "graph"}

StoreInit ==
  /\ storeLock = Absent /\ manifest = Empty /\ writer = [w \in Writer |-> Idle]
  /\ file \in [Graph -> {Absent, "unreadable"}]
  /\ damaged = {g \in Graph : file[g] # Absent}
  /\ crashes = 0 /\ displaced = FALSE /\ kept = {}

-----------------------------------------------------------------------------
(* The lock: withModelLock                                                  *)

Goes(w, from, to) ==
  /\ writer[w].pc = from
  /\ writer' = [writer EXCEPT ![w] = IF to = "idle" THEN Idle ELSE [@ EXCEPT !.pc = to]]

Persist(w, g) ==
  /\ writer[w].pc = "idle" /\ writer' = [writer EXCEPT ![w] = [Idle EXCEPT !.pc = "open", !.g = g]]
  /\ UNCHANGED <<storeLock, disk, past>>

\* The file is created, or is there.
Open(w) ==
  /\ IF storeLock = Absent
     THEN Goes(w, "open", "fill") /\ storeLock' = [by |-> w, whole |-> FALSE, left |-> FALSE]
     ELSE Goes(w, "open", "judge") /\ storeLock' = storeLock
  /\ UNCHANGED <<disk, past>>

IsMine(w) == storeLock # Absent /\ storeLock.by = w /\ ~storeLock.left

\* It is written, wherever it is by now; or that fails, and it stays as it is.
Fill(w) ==
  /\ \/ Goes(w, "fill", "read")
        /\ storeLock' = IF IsMine(w) THEN [storeLock EXCEPT !.whole = TRUE] ELSE storeLock
     \/ Goes(w, "fill", "idle")
        /\ storeLock' = IF IsMine(w) THEN [storeLock EXCEPT !.left = TRUE] ELSE storeLock
  /\ UNCHANGED <<disk, past>>

\* Mutant of JudgeStale: an old lock will do, whether its process runs or not.
JudgeByAge(w) ==
  /\ IF storeLock = Absent THEN Goes(w, "judge", "open")
     ELSE /\ writer[w].pc = "judge"
          /\ writer' = [writer EXCEPT ![w].pc = "move", ![w].judged = storeLock]
  /\ UNCHANGED <<storeLock, disk, past>>

\* The first half of reclaimStaleLock: an old lock without a process that runs.
\* A lock that has not been written names no process.
JudgeStale(w) ==
  /\ \/ storeLock = Absent /\ Goes(w, "judge", "open")
     \/ storeLock # Absent /\ (storeLock.whole => storeLock.left) /\ writer[w].pc = "judge"
        /\ writer' = [writer EXCEPT ![w].pc = "move", ![w].judged = storeLock]
  /\ UNCHANGED <<storeLock, disk, past>>

\* The lock is not old yet, or is held: the caller waits, or gives up.
Wait(w) ==
  /\ storeLock # Absent /\ (Goes(w, "judge", "open") \/ Goes(w, "judge", "idle"))
  /\ UNCHANGED <<storeLock, disk, past>>

\* The second half: what has the name is renamed, and then removed.
Move(w) ==
  LET old == writer[w].judged IN
  /\ writer[w].pc = "move" /\ storeLock' = Absent
  /\ writer' = [writer EXCEPT ![w].pc = "open", ![w].judged = Absent]
  /\ displaced' = (displaced \/ (storeLock # Absent /\ ~storeLock.left /\ (old.left \/ ~old.whole)))
  /\ UNCHANGED <<disk, crashes, damaged, kept>>

-----------------------------------------------------------------------------
(* Under the lock: persist                                                  *)

ReadManifest(w) ==
  /\ writer[w].pc = "read"
  /\ writer' = [writer EXCEPT ![w].pc = "check", ![w].saw = manifest]
  /\ UNCHANGED <<storeLock, disk, past>>

\* Mutant of Check: a file that is there is taken as it is.
CheckName(w) ==
  /\ writer[w].pc = "check"
  /\ Goes(w, "check", IF file[writer[w].g] = Absent THEN "link" ELSE "commit")
  /\ UNCHANGED <<storeLock, disk, past>>

\* writeGraphIfAbsent reads the file: one that cannot be read is in the way if
\* no version refers to it, and an error otherwise.
Check(w) ==
  LET g == writer[w].g IN
  /\ writer[w].pc = "check"
  /\ Goes(w, "check", CASE file[g] = "graph" -> "commit"
                        [] file[g] = Absent -> "link"
                        [] OTHER -> IF g \in Listed(writer[w].saw) THEN "release" ELSE "orphan")
  /\ UNCHANGED <<storeLock, disk, past>>

\* What has the name by now is moved aside and removed.
Orphan(w) ==
  /\ Goes(w, "orphan", "link") /\ file' = [file EXCEPT ![writer[w].g] = Absent]
  /\ UNCHANGED <<storeLock, manifest, past>>

\* A graph that another writer has linked first is as good.
Link(w) ==
  LET g == writer[w].g IN
  /\ \/ Goes(w, "link", "commit") /\ file[g] # "unreadable" /\ file' = [file EXCEPT ![g] = "graph"]
     \/ Goes(w, "link", "release") /\ file[g] = "unreadable" /\ UNCHANGED file
  /\ UNCHANGED <<storeLock, manifest, past>>

\* Mutant of Commit: a graph that has a version becomes the last one.
CommitAsLast(w) ==
  LET saw == writer[w].saw
      g == writer[w].g IN
  /\ writer[w].pc = "commit"
  /\ manifest' = [versions |-> Append(SelectSeq(saw.versions, LAMBDA v : v # g), g), current |-> g]
  /\ writer' = [writer EXCEPT ![w].pc = "release", ![w].saw = Empty, ![w].done = TRUE]
  /\ UNCHANGED <<storeLock, file, past>>

\* A graph that has a version becomes the current one; another one is compared
\* with the last version, which must be readable, and appended.
Commit(w) ==
  LET saw == writer[w].saw
      g == writer[w].g IN
  /\ writer[w].pc = "commit"
  /\ \/ g \in Listed(saw) /\ manifest' = [saw EXCEPT !.current = g]
     \/ /\ g \notin Listed(saw)
        /\ saw.versions # <<>> => file[Last(saw.versions)] = "graph"
        /\ manifest' = [versions |-> Append(saw.versions, g), current |-> g]
  /\ writer' = [writer EXCEPT ![w].pc = "release", ![w].saw = Empty, ![w].done = TRUE]
  /\ UNCHANGED <<storeLock, file, past>>

\* Any call under the lock may fail, before the manifest is replaced.
Fail(w) ==
  /\ \E from \in {"read", "check", "orphan", "link", "commit"} : Goes(w, from, "release")
  /\ UNCHANGED <<storeLock, disk, past>>

Returns(w) == kept' = IF writer[w].done THEN kept \cup {writer[w].g} ELSE kept

\* releaseOwnedLock reads the owner, and fails over a lock not written yet.
Release(w) ==
  /\ \/ IsMine(w) /\ Goes(w, "release", "unlock") /\ UNCHANGED kept
     \/ ~IsMine(w) /\ Goes(w, "release", "idle")
        /\ IF storeLock = Absent \/ storeLock.whole THEN Returns(w) ELSE UNCHANGED kept
  /\ UNCHANGED <<storeLock, disk, crashes, displaced, damaged>>

\* Then it removes what has the name.
Unlock(w) ==
  /\ Goes(w, "unlock", "idle") /\ storeLock' = Absent /\ Returns(w)
  /\ UNCHANGED <<disk, crashes, displaced, damaged>>

Crash(w) ==
  /\ writer[w].pc # "idle" /\ crashes < MaxCrashes /\ crashes' = crashes + 1
  /\ writer' = [writer EXCEPT ![w] = Idle]
  /\ storeLock' = IF IsMine(w) THEN [storeLock EXCEPT !.left = TRUE] ELSE storeLock
  /\ UNCHANGED <<disk, displaced, damaged, kept>>

Serve(w) ==
  \/ (\E g \in Graph : Persist(w, g)) \/ Open(w) \/ Fill(w) \/ JudgeStale(w) \/ Wait(w) \/ Move(w)
  \/ ReadManifest(w) \/ Check(w) \/ Orphan(w) \/ Link(w) \/ Commit(w) \/ Fail(w)
  \/ Release(w) \/ Unlock(w) \/ Crash(w)

StoreNext == \E w \in Writer : Serve(w)

StoreSpec == StoreInit /\ [][StoreNext]_storeVars

-----------------------------------------------------------------------------
(* Properties                                                               *)

ManifestOK(m) ==
  /\ m.versions \in Seq(Graph) /\ IsInjective(m.versions)
  /\ m.current \in Listed(m) \cup {Absent}

\* A manifest, read or on disk, lists a graph once, and shows one of them.
StoreTypeOK ==
  /\ storeLock \in Lock \cup {Absent} /\ file \in [Graph -> {Absent, "unreadable", "graph"}]
  /\ ManifestOK(manifest)
  /\ \A w \in Writer :
       LET r == writer[w] IN
       /\ r.pc \in StorePlace /\ r.g \in Graph \cup {Absent} /\ r.judged \in Lock \cup {Absent}
       /\ ManifestOK(r.saw) /\ r.done \in BOOLEAN
  /\ crashes \in 0 .. MaxCrashes /\ displaced \in BOOLEAN
  /\ damaged \subseteq Graph /\ kept \subseteq Graph

\* A graph whose persist has returned stays in the manifest, through the crashes
\* of its writers and of those who hold or take the lock, as long as no lock
\* that is held is moved away.
KeptVersionsStay == displaced \/ kept \subseteq Listed(manifest)

\* The manifest is a history: a commit adds a version at its end or shows an
\* earlier one again, whoever else writes, crashes or takes the lock over, as
\* long as no lock that is held is moved away (persist, currentVersion).
HistoryGrows ==
  [][displaced' \/ IsPrefix(manifest.versions, manifest'.versions)]_storeVars

\* What the manifest lists can be read, though any writer may end between the
\* link and the manifest.  Without a lock this is lost only for a graph whose
\* file was unreadable at the start and is moved aside by two.
ListedCanBeRead ==
  \A g \in Listed(manifest) : file[g] = "graph" \/ (displaced /\ g \in damaged)
=============================================================================
