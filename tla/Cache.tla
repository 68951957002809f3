------------------------------- MODULE Cache --------------------------------
(***************************************************************************)
(* core/cache and core/execution/state_manager.py: the directory of JSON   *)
(* records that all jobs share, one file per state_uuid.  A job looks its  *)
(* data set up when it begins and saves its record when it ends; both run  *)
(* in worker threads, without a lock.  One action is one call to the file  *)
(* system.  A file holds a whole record, named by the job that saved it,   *)
(* or something json.load cannot parse.  What save writes has no "dag" and *)
(* no "fingerprint" at its top level, so every lookup ends in a miss,      *)
(* whatever it reads; MetaAgent's CanHit stands for the other case.        *)
(***************************************************************************)
EXTENDS Naturals

CONSTANTS
  Jobs,
  Keys,       \* the state_uuids
  Uuid,       \* Uuid[j]: the state_uuid of j's data set
  MaxDamage   \* BOUND: how many files are damaged from outside

ASSUME CacheAssumption ==
  /\ Uuid \in [Jobs -> Keys]
  /\ MaxDamage \in Nat
  /\ "none" \notin Jobs /\ "bad" \notin Jobs

VARIABLES
  file,     \* file[k]: the job whose record k.json holds, "none" or "bad"
  tmp,      \* the jobs whose temporary file exists
  pc,       \* where job j is
  key,      \* the file j is reading
  todo,     \* what find_many has yet to read; "one" while find_one reads
  damage,   \* how many files have been damaged
  damaged,  \* history: the keys of damaged files
  saved     \* history: the keys under which a record has been saved

disk == <<file, tmp>>
history == <<damage, damaged, saved>>
vars == <<disk, pc, key, todo, history>>

FindOne == [many |-> FALSE, rest |-> {}]
FindMany(ks) == [many |-> TRUE, rest |-> ks]

Reading == {"exists", "open", "remove"}
LookingUp == Reading \cup {"listdir", "scan"}
Saving == {"dump", "replace"}

Init ==
  /\ file = [k \in Keys |-> "none"]
  /\ tmp = {}
  /\ pc = [j \in Jobs |-> "submitted"]
  /\ key = Uuid
  /\ todo = [j \in Jobs |-> FindOne]
  /\ damage = 0
  /\ damaged = {}
  /\ saved = {}

Goto(j, l) == pc' = [pc EXCEPT ![j] = l]

-----------------------------------------------------------------------------
(* JsonStorage.read, called by find_one and by find_many.                   *)

\* read returns, with a record or None; no caller looks at anything in it.
Returned(j) == Goto(j, IF todo[j].many THEN "scan" ELSE "listdir")

\* read raises FileNotFoundError: find_many goes on, find_one and the job do not.
Raised(j) == Goto(j, IF todo[j].many THEN "scan" ELSE "failed")

exists_NotAsked(j) ==
  /\ pc[j] = "exists"
  /\ Goto(j, "open")
  /\ UNCHANGED <<disk, key, todo, history>>

exists(j) ==
  /\ pc[j] = "exists"
  /\ IF file[key[j]] = "none" THEN Returned(j) ELSE Goto(j, "open")
  /\ UNCHANGED <<disk, key, todo, history>>

\* open and json.load: once open, the file is read whole, replaced or not.
open(j) ==
  /\ pc[j] = "open"
  /\ \/ file[key[j]] = "none" /\ Raised(j)
     \/ file[key[j]] = "bad"  /\ Goto(j, "remove")
     \/ file[key[j]] \in Jobs /\ Returned(j)
  /\ UNCHANGED <<disk, key, todo, history>>

\* The purge: it removes the file that has the name now.
remove(j) ==
  /\ pc[j] = "remove"
  /\ \/ file[key[j]] = "none" /\ Raised(j) /\ UNCHANGED file
     \/ file[key[j]] # "none" /\ Returned(j) /\ file' = [file EXCEPT ![key[j]] = "none"]
  /\ UNCHANGED <<tmp, key, todo, history>>

-----------------------------------------------------------------------------
(* CacheManager.lookup and StateRegistry.                                   *)

lookup(j) ==
  /\ pc[j] = "submitted"
  /\ Goto(j, "exists")
  /\ UNCHANGED <<disk, key, todo, history>>

listdir_AnySuffix(j) ==
  /\ pc[j] = "listdir"
  /\ todo' = [todo EXCEPT ![j] = FindMany({k \in Keys : file[k] # "none"} \cup tmp)]
  /\ Goto(j, "scan")
  /\ UNCHANGED <<disk, key, history>>

\* os.listdir, the names that end in .json.
listdir(j) ==
  /\ pc[j] = "listdir"
  /\ todo' = [todo EXCEPT ![j] = FindMany({k \in Keys : file[k] # "none"})]
  /\ Goto(j, "scan")
  /\ UNCHANGED <<disk, key, history>>

find_many_Rereads(j) ==
  /\ pc[j] = "scan"
  /\ \/ \E k \in todo[j].rest :
          key' = [key EXCEPT ![j] = k] /\ Goto(j, "exists") /\ UNCHANGED todo
     \/ /\ todo[j].rest = {}
        /\ Goto(j, "running")
        /\ UNCHANGED <<key, todo>>
  /\ UNCHANGED <<disk, history>>

\* The loop of find_many: the next file, or the end and a miss.
find_many(j) ==
  /\ pc[j] = "scan"
  /\ \/ \E k \in todo[j].rest :
          /\ key' = [key EXCEPT ![j] = k]
          /\ todo' = [todo EXCEPT ![j] = FindMany(@.rest \ {k})]
          /\ Goto(j, "exists")
     \/ /\ todo[j].rest = {}
        /\ Goto(j, "running")
        /\ UNCHANGED <<key, todo>>
  /\ UNCHANGED <<disk, history>>

-----------------------------------------------------------------------------
(* StateManager.save and JsonStorage.write.                                 *)

\* The job reaches _finalize, or ends before it.  To cancel it is no more than that:
\* the thread of a lookup or of a write runs on.
save(j) ==
  /\ pc[j] = "running"
  /\ Goto(j, "dump") \/ Goto(j, "failed")
  /\ UNCHANGED <<disk, key, todo, history>>

dump_InPlace(j) ==
  /\ pc[j] = "dump"
  /\ file' = [file EXCEPT ![Uuid[j]] = "bad"]
  /\ Goto(j, "replace")
  /\ UNCHANGED <<tmp, key, todo, history>>

dump_NoFinally(j) ==
  /\ pc[j] = "dump"
  /\ tmp' = tmp \cup {j}
  /\ Goto(j, "replace") \/ Goto(j, "failed")
  /\ UNCHANGED <<file, key, todo, history>>

\* mkstemp and json.dump; if the dump raises, the finally removes what it left.
dump(j) ==
  /\ pc[j] = "dump"
  /\ \/ tmp' = tmp \cup {j} /\ Goto(j, "replace")
     \/ UNCHANGED tmp /\ Goto(j, "failed")
  /\ UNCHANGED <<file, key, todo, history>>

\* os.replace, the atomic commit.
replace(j) ==
  /\ pc[j] = "replace"
  /\ file' = [file EXCEPT ![Uuid[j]] = j]
  /\ saved' = saved \cup {Uuid[j]}
  /\ tmp' = tmp \ {j}
  /\ Goto(j, "done")
  /\ UNCHANGED <<key, todo, damage, damaged>>

-----------------------------------------------------------------------------
(* What happens to the directory and the process from outside.              *)

\* A file becomes unreadable: a disk, an editor, or a power failure, since write
\* does not flush what it renames.
Damage(k) ==
  /\ damage < MaxDamage
  /\ file[k] \in Jobs
  /\ file' = [file EXCEPT ![k] = "bad"]
  /\ damage' = damage + 1
  /\ damaged' = damaged \cup {k}
  /\ UNCHANGED <<tmp, pc, key, todo, saved>>

\* The process dies and is restarted; the jobs it had begun are gone.
Crash ==
  /\ pc' = [j \in Jobs |-> IF pc[j] \in LookingUp \cup Saving \cup {"running"}
                           THEN "lost" ELSE pc[j]]
  /\ UNCHANGED <<disk, key, todo, history>>

LookupStep(j) == exists(j) \/ open(j) \/ remove(j) \/ listdir(j) \/ find_many(j)

Next ==
  \/ \E j \in Jobs : lookup(j) \/ LookupStep(j) \/ save(j) \/ dump(j) \/ replace(j)
  \/ \E k \in Keys : Damage(k)
  \/ Crash

Spec == Init /\ [][Next]_vars

\* A thread that has begun a lookup goes on with it.
FairSpec == Spec /\ \A j \in Jobs : WF_vars(LookupStep(j))

-----------------------------------------------------------------------------
(* Correctness.                                                             *)

\* Files, threads and what is left to read have values the code can give them.
TypeOK ==
  /\ file \in [Keys -> Jobs \cup {"none", "bad"}]
  /\ tmp \subseteq Jobs
  /\ pc \in [Jobs -> LookingUp \cup Saving
                       \cup {"submitted", "running", "done", "failed", "lost"}]
  /\ key \in [Jobs -> Keys]
  /\ todo \in [Jobs -> [many : BOOLEAN, rest : SUBSET Keys]]
  /\ damage \in 0..MaxDamage
  /\ damaged \subseteq Keys
  /\ saved \subseteq Keys

\* A record that has been saved stays readable under its key, whole, for every later
\* reader, while others write the same file and crash, unless it was damaged from outside:
\* no reader takes a write in progress for a corrupted file and purges it.
SavedRecordsStay == \A k \in saved \ damaged : file[k] \in Jobs

\* A lookup raises, and so fails its job, only over a file that was damaged: the gap
\* between os.path.exists and open is closed as long as nothing is purged.
LookupFailsOnlyOnDamage ==
  \A j \in Jobs : pc[j] = "failed" /\ ~todo[j].many => Uuid[j] \in damaged

\* A temporary file outlives its write only when the process died in between.
TmpOnlyWhileWriting == \A j \in tmp : pc[j] \in {"replace", "lost"}

\* A lookup ends, however many files come and go while it scans the directory.
EveryLookupEnds == \A j \in Jobs : pc[j] = "exists" ~> pc[j] \notin LookingUp

-----------------------------------------------------------------------------
(* What the comments of the code say.                                       *)

\* "purge corrupted cache" (json_storage.py:46): what is purged is corrupted.
OnlyCorruptedIsPurged ==
  [][\A k \in Keys : file[k] \in Jobs => file'[k] # "none"]_vars
=============================================================================
