----------------------------- MODULE ShardCache ------------------------------
(***************************************************************************)
(* LeRobotV30Source.read_episode: worker threads share one current shard   *)
(* under a lock and slice it after the lock is released.  A table is known *)
(* by the shard it was read from.                                          *)
(***************************************************************************)
CONSTANTS Thread, Shard, NoShard

ASSUME ShardCacheAssumption == NoShard \notin Shard

VARIABLES
  wanted,      \* data_path of the episode each thread reads
  reading,     \* "idle", "locked" or "holding"
  sliced,      \* shard that the thread's slice has been cut from
  tablePath,   \* _table_path
  table        \* _table

cacheVars == <<wanted, reading, sliced, tablePath, table>>

ShardCacheInit ==
  /\ wanted = [t \in Thread |-> NoShard] /\ reading = [t \in Thread |-> "idle"]
  /\ sliced = [t \in Thread |-> NoShard]
  /\ tablePath = NoShard /\ table = NoShard

ReadEpisode(t, s) ==
  /\ reading[t] = "idle" /\ \A u \in Thread : reading[u] # "locked"
  /\ wanted' = [wanted EXCEPT ![t] = s]
  /\ reading' = [reading EXCEPT ![t] = "locked"]
  /\ sliced' = [sliced EXCEPT ![t] = NoShard]
  /\ UNCHANGED <<tablePath, table>>

Miss(t) == tablePath # wanted[t] \/ table = NoShard

(* Mutant: the path is stored before the file is read.                     *)
LoadPathFirst(t) ==
  /\ reading[t] = "locked"
  /\ tablePath' = wanted[t]
  /\ \/ /\ table' = IF Miss(t) THEN wanted[t] ELSE table
        /\ reading' = [reading EXCEPT ![t] = "holding"]
        /\ sliced' = [sliced EXCEPT ![t] = table']
     \/ /\ Miss(t)
        /\ reading' = [reading EXCEPT ![t] = "idle"]
        /\ UNCHANGED <<table, sliced>>
  /\ UNCHANGED wanted

(* A shard that cannot be read leaves the cache as it was.  The thread     *)
(* takes the table with it when it releases the lock.                      *)
Load(t) ==
  /\ reading[t] = "locked"
  /\ \/ /\ Miss(t)
        /\ tablePath' = wanted[t] /\ table' = wanted[t]
        /\ reading' = [reading EXCEPT ![t] = "holding"]
        /\ sliced' = [sliced EXCEPT ![t] = wanted[t]]
     \/ /\ ~Miss(t)
        /\ reading' = [reading EXCEPT ![t] = "holding"]
        /\ sliced' = [sliced EXCEPT ![t] = table]
        /\ UNCHANGED <<tablePath, table>>
     \/ /\ Miss(t)
        /\ reading' = [reading EXCEPT ![t] = "idle"]
        /\ UNCHANGED <<tablePath, table, sliced>>
  /\ UNCHANGED wanted

(* The slice is used outside the lock, while others replace the table.     *)
UseSlice(t) ==
  /\ reading[t] = "holding"
  /\ reading' = [reading EXCEPT ![t] = "idle"]
  /\ UNCHANGED <<wanted, sliced, tablePath, table>>

ShardCacheNext ==
  \E t \in Thread : Load(t) \/ UseSlice(t) \/ \E s \in Shard : ReadEpisode(t, s)

ShardCacheSpec == ShardCacheInit /\ [][ShardCacheNext]_cacheVars
-----------------------------------------------------------------------------
(* A thread that gets rows gets them from its episode's shard, whatever    *)
(* others read in between and whichever reads have failed.                 *)
SlicesComeFromOwnShard ==
  \A t \in Thread : reading[t] = "holding" => sliced[t] = wanted[t]
=============================================================================
