---------------------------- MODULE ContentCache ----------------------------
(***************************************************************************)
(* The content-addressed cache of downloads (engine/cache.py): get_path,   *)
(* put_file, put_bytes, evict_lru and clear, called by several processes   *)
(* that share nothing but the directory.                                   *)
(*                                                                         *)
(* An entry is a payload file, which appears by a rename, and a metadata   *)
(* file, which is written in place.  A call is split where another process *)
(* can come in between: at every file it touches.  What a file holds is    *)
(* left out but for its being complete; so are the unique temporary names, *)
(* and access times but for their order.  One source bucket.  Where a file *)
(* operation may raise an OSError that the code swallows, it may do so     *)
(* here (setup.fails): the call goes on, as the code does, without it.     *)
(***************************************************************************)
EXTENDS Integers, Sequences, FiniteSets

CONSTANTS CacheProcs,
          CacheKeys,
          CacheBytes,     \* key -> size of its payload
          CacheSetups     \* what the processes do, and what may go wrong

ASSUME CacheAssumption ==
    /\ IsFiniteSet(CacheKeys) /\ CacheBytes \in [CacheKeys -> Nat]
    /\ CacheSetups \subseteq [procs : SUBSET CacheProcs,
                              evicts : BOOLEAN, clears : BOOLEAN, dies : BOOLEAN,
                              fails : BOOLEAN,   \* file operations may raise
                              target : Nat,   \* target_bytes of evict_lru
                              calls : Nat]    \* bound: calls in all

VARIABLES cacheSetup,
          payload,    \* key -> none, torn or whole: <key>.payload
          metadata,   \* key -> none, torn or whole: <key>.meta.json
          older,      \* pairs of keys with a payload, of which the first was used before the second
          call,       \* process -> the call it is in
          calls,      \* calls begun
          news        \* process -> keys put since its call listed the entries, or that it could
                      \* not list or not unlink

cacheVars == <<cacheSetup, payload, metadata, older, call, calls, news>>

Files == {"none", "torn", "whole"}
Idle == [at |-> "idle", entries |-> <<>>, listed |-> {}, described |-> {}, current |-> 0]
CallOf(at, k) == [at |-> at, entries |-> <<k>>, listed |-> {}, described |-> {}, current |-> 0]
KeyOf(p) == Head(call[p].entries)
Cached == {k \in CacheKeys : payload[k] # "none"}
SizeOf(keys) == Cardinality(UNION {{k} \X (1 .. CacheBytes[k]) : k \in keys})
At(p, at) == call[p].at = at

\* k is used after those in before, and before the others there are.
Others(k) == {pair \in older : k \notin {pair[1], pair[2]}}
Placed(k, before) ==
    Others(k) \cup before \X {k} \cup {k} \X (Cached \ (before \cup {k}))
\* Mutated form: the entry keeps its old place as well.
TouchedTwice(k) == older \cup (Cached \ {k}) \X {k}

Touched(k) == Placed(k, Cached \ {k})

CacheStart(s) ==
    /\ cacheSetup = s
    /\ payload = [k \in CacheKeys |-> "none"] /\ metadata = payload
    /\ older = {} /\ calls = 0
    /\ call = [p \in CacheProcs |-> Idle]
    /\ news = [p \in CacheProcs |-> {}]

CacheInit == \E s \in CacheSetups : CacheStart(s)

Begin(p) == p \in cacheSetup.procs /\ At(p, "idle") /\ calls < cacheSetup.calls /\ calls' = calls + 1
Go(p, c) == call' = [call EXCEPT ![p] = c]

-----------------------------------------------------------------------------
(* --- get_path and put ---------------------------------------------------- *)

\* get_path, also as put_file calls it for an entry that is there.
Get(p, k) ==
    /\ Begin(p) /\ k \in Cached
    /\ \/ older' = Touched(k)
       \/ cacheSetup.fails /\ older' = older    \* os.utime raised
    /\ UNCHANGED <<cacheSetup, payload, metadata, call, news>>

Put(p, k) ==
    /\ Begin(p) /\ k \notin Cached
    /\ Go(p, CallOf("copy", k))
    /\ UNCHANGED <<cacheSetup, payload, metadata, older, news>>

\* Mutated form: the payload is copied to its place.
CopyInPlace(p) ==
    /\ At(p, "copy")
    /\ \/ payload' = [payload EXCEPT ![KeyOf(p)] = "torn"] /\ Go(p, [call[p] EXCEPT !.at = "rename"])
          /\ older' = Touched(KeyOf(p))
       \/ Go(p, Idle) /\ UNCHANGED <<payload, older>>
    /\ UNCHANGED <<cacheSetup, metadata, calls, news>>

\* To a temporary file; it may raise.
Copy(p) ==
    /\ At(p, "copy")
    /\ \/ Go(p, [call[p] EXCEPT !.at = "rename"])
       \/ Go(p, Idle)
    /\ UNCHANGED <<cacheSetup, payload, metadata, older, calls, news>>

\* os.replace.  The file brings its own access time, an older one when the
\* caller had it moved.  It raises when clear() has taken the temporary file.
Rename(p) ==
    /\ At(p, "rename")
    /\ \/ LET k == KeyOf(p)
          IN  /\ payload' = [payload EXCEPT ![k] = "whole"]
              /\ \E before \in SUBSET (Cached \ {k}) :
                   /\ \A pair \in Others(k) : pair[2] \in before => pair[1] \in before
                   /\ older' = Placed(k, before)
              /\ news' = [q \in CacheProcs |-> news[q] \cup {k}]
              /\ Go(p, [call[p] EXCEPT !.at = "stat"])
       \/ Go(p, Idle) /\ UNCHANGED <<payload, older, news>>
    /\ UNCHANGED <<cacheSetup, metadata, calls>>

\* target.stat() raises when another process has evicted the payload; before it,
\* the unlink of a source that had to be copied may.
Stat(p) ==
    /\ At(p, "stat")
    /\ \/ KeyOf(p) \in Cached /\ Go(p, [call[p] EXCEPT !.at = "meta"])
       \/ (KeyOf(p) \notin Cached \/ cacheSetup.fails) /\ Go(p, Idle)
    /\ UNCHANGED <<cacheSetup, payload, metadata, older, calls, news>>

\* write_text: a file that cannot be opened is done without ...
OpenMeta(p) ==
    /\ At(p, "meta")
    /\ \/ /\ metadata' = [metadata EXCEPT ![KeyOf(p)] = "torn"]
          /\ Go(p, [call[p] EXCEPT !.at = "fill"])
       \/ cacheSetup.fails /\ Go(p, Idle) /\ metadata' = metadata
    /\ UNCHANGED <<cacheSetup, payload, older, calls, news>>

\* ... and one that cannot be written is left as it is.  clear() may have removed
\* the open file.
FillMeta(p) ==
    /\ At(p, "fill")
    /\ \/ metadata' = [metadata EXCEPT ![KeyOf(p)] = IF @ = "torn" THEN "whole" ELSE @]
       \/ cacheSetup.fails /\ metadata' = metadata
    /\ Go(p, Idle)
    /\ UNCHANGED <<cacheSetup, payload, older, calls, news>>

-----------------------------------------------------------------------------
(* --- evict_lru and clear ------------------------------------------------- *)

Described == {k \in Cached : metadata[k] = "whole"}
\* Mutated form: the sizes are those the metadata give.
ListByMetadata(p) ==
    /\ Begin(p) /\ cacheSetup.evicts
    /\ Go(p, [at |-> "sort", entries |-> <<>>, listed |-> Cached, described |-> Described,
              current |-> SizeOf(Described)])
    /\ news' = [news EXCEPT ![p] = {}]
    /\ UNCHANGED <<cacheSetup, payload, metadata, older>>

\* list_entries: every payload with its size, but for those whose size cannot be
\* read, and its metadata if they load.
List(p) ==
    /\ Begin(p) /\ cacheSetup.evicts
    /\ \E missed \in SUBSET Cached :
         /\ missed = {} \/ cacheSetup.fails
         /\ Go(p, [at |-> "sort", entries |-> <<>>, listed |-> Cached \ missed, described |-> Described,
                   current |-> SizeOf(Cached \ missed)])
         /\ news' = [news EXCEPT ![p] = missed]
    /\ UNCHANGED <<cacheSetup, payload, metadata, older>>

\* Mutated form: the most recently used first.
EarlierAccess(j, k) == k \in Cached /\ (j \notin Cached \/ <<j, k>> \in older)

\* A payload that has gone sorts first.
LaterAccess(j, k) == j \in Cached /\ (k \notin Cached \/ <<k, j>> \in older)

\* All of them, once, none before one that was used earlier.
Sortings(keys) ==
    {list \in [1 .. Cardinality(keys) -> keys] :
        /\ \A k \in keys : \E i \in DOMAIN list : list[i] = k
        /\ \A i, j \in DOMAIN list : i < j => list[i] # list[j] /\ ~LaterAccess(list[i], list[j])}

\* If a payload goes between exists() and stat(), or stat() fails, the call raises.
Sort(p) ==
    /\ At(p, "sort")
    /\ \/ \E list \in Sortings(call[p].listed) :
            Go(p, [call[p] EXCEPT !.at = "evict", !.entries = list])
       \/ (cacheSetup.fails \/ \E k \in call[p].listed : k \notin Cached) /\ Go(p, Idle)
    /\ UNCHANGED <<cacheSetup, payload, metadata, older, calls, news>>

Enough(p) == call[p].entries = <<>> \/ call[p].current <= cacheSetup.target

Passed(p) == [call[p] EXCEPT !.at = "evict", !.entries = Tail(@)]
Counted(p) == [Passed(p) EXCEPT !.current = @ - CacheBytes[KeyOf(p)]]

\* A payload that is gone, or cannot be removed, raises an OSError: it is passed
\* over without being counted.
Unlink(p) ==
    /\ At(p, "evict") /\ ~Enough(p)
    /\ LET k == KeyOf(p)
       IN  \/ /\ payload' = [payload EXCEPT ![k] = "none"]
              /\ older' = Others(k)
              /\ Go(p, IF k \in Cached THEN [call[p] EXCEPT !.at = "unmeta"] ELSE Passed(p))
              /\ news' = news
           \/ /\ cacheSetup.fails /\ k \in Cached
              /\ Go(p, Passed(p))
              /\ news' = [news EXCEPT ![p] = @ \cup {k}]
              /\ UNCHANGED <<payload, older>>
    /\ UNCHANGED <<cacheSetup, metadata, calls>>

\* Mutated form: the metadata stay.
UnlinkMetaForgotten(p) == At(p, "unmeta") /\ Go(p, Counted(p))
                          /\ UNCHANGED <<cacheSetup, payload, metadata, older, calls, news>>

\* Where the metadata are is read in the metadata: without them, not found.  If
\* their unlink raises they stay, and the payload that is gone is not counted.
UnlinkMeta(p) ==
    /\ At(p, "unmeta")
    /\ \/ /\ metadata' = IF KeyOf(p) \in call[p].described
                          THEN [metadata EXCEPT ![KeyOf(p)] = "none"] ELSE metadata
          /\ Go(p, Counted(p))
       \/ cacheSetup.fails /\ Go(p, Passed(p)) /\ metadata' = metadata
    /\ UNCHANGED <<cacheSetup, payload, older, calls, news>>

Evicted(p) ==
    /\ At(p, "evict") /\ Enough(p)
    /\ Go(p, Idle)
    /\ UNCHANGED <<cacheSetup, payload, metadata, older, calls, news>>

\* clear(): rmtree lists the bucket, temporary files of puts under way with it ...
Clear(p) ==
    /\ Begin(p) /\ cacheSetup.clears
    /\ Go(p, [Idle EXCEPT !.at = "clear", !.listed = Cached,
                          !.described = {k \in CacheKeys : metadata[k] # "none"}])
    /\ UNCHANGED <<cacheSetup, payload, metadata, older, news>>

\* ... and removes what it has listed file by file, in no order it could know.
ClearFile(p) ==
    /\ At(p, "clear")
    /\ \/ \E k \in call[p].listed :
            /\ payload' = [payload EXCEPT ![k] = "none"] /\ older' = Others(k)
            /\ Go(p, [call[p] EXCEPT !.listed = @ \ {k}])
            /\ metadata' = metadata
       \/ \E k \in call[p].described :
            /\ metadata' = [metadata EXCEPT ![k] = "none"]
            /\ Go(p, [call[p] EXCEPT !.described = @ \ {k}])
            /\ UNCHANGED <<payload, older>>
    /\ UNCHANGED <<cacheSetup, calls, news>>

\* It raises at a file that another process has taken, or that cannot be removed.
Cleared(p) ==
    /\ At(p, "clear")
    /\ \/ call[p].listed = {} /\ call[p].described = {}
       \/ cacheSetup.fails
       \/ \E k \in call[p].listed : k \notin Cached
       \/ \E k \in call[p].described : metadata[k] = "none"
    /\ Go(p, Idle)
    /\ UNCHANGED <<cacheSetup, payload, metadata, older, calls, news>>

CacheDies(p) ==
    /\ cacheSetup.dies /\ ~At(p, "idle")
    /\ Go(p, Idle)
    /\ UNCHANGED <<cacheSetup, payload, metadata, older, calls, news>>

CacheNext ==
    \E p \in CacheProcs :
        \/ \E k \in CacheKeys : Get(p, k) \/ Put(p, k)
        \/ Copy(p) \/ Rename(p) \/ Stat(p) \/ OpenMeta(p) \/ FillMeta(p)
        \/ List(p) \/ Sort(p) \/ Unlink(p) \/ UnlinkMeta(p) \/ Evicted(p)
        \/ Clear(p) \/ ClearFile(p) \/ Cleared(p) \/ CacheDies(p)

CacheSpec == CacheInit /\ [][CacheNext]_cacheVars

-----------------------------------------------------------------------------
(* --- properties ---------------------------------------------------------- *)

OneProcess == \A p, q \in cacheSetup.procs : p = q

\* Types, and the payloads there are are in one order of use.
CacheTypeOK ==
    /\ payload \in [CacheKeys -> Files] /\ metadata \in [CacheKeys -> Files]
    /\ older \subseteq Cached \X Cached
    /\ \A j, k \in Cached : <<j, k>> \in older <=> j # k /\ <<k, j>> \notin older
    /\ \A i, j, k \in Cached : <<i, j>> \in older /\ <<j, k>> \in older => <<i, k>> \in older
    /\ calls \in 0 .. cacheSetup.calls
    /\ \A p \in CacheProcs :
         /\ call[p].at \in {"idle", "copy", "rename", "stat", "meta", "fill", "sort", "evict", "unmeta",
                           "clear"}
         /\ call[p].current \in Nat
         /\ call[p].at \notin {"idle", "sort", "evict", "clear"} => call[p].entries # <<>>

\* What has() and get_path() find under a payload's name is all of it, whatever
\* processes die in a put and however many put the same key at once.
PayloadIsWhole == \A k \in Cached : payload[k] = "whole"

\* An eviction that returns has brought what was there when it began, and that it
\* could list and unlink, under target_bytes, though other processes evict the same
\* entries: entries that have gone are not counted as its own work.
TrimmedToTarget ==
    \A p \in CacheProcs :
        At(p, "evict") /\ Enough(p) => SizeOf(Cached \ news[p]) <= cacheSetup.target

\* With one process an eviction takes the entry that was used least recently of
\* those that can be unlinked; and none when the cache is small enough, unless the
\* unlink of some metadata failed.  A process that died and came back, in a put or
\* in a clear, makes no difference.
Evicting == \E p \in CacheProcs : At(p, "evict") /\ call'[p].at = "unmeta"
Stuck == UNION {news[p] : p \in {q \in CacheProcs : ~At(q, "idle")}}
EvictsOldestWhenFull ==
    [][Evicting /\ OneProcess
         => /\ \E k \in Cached : /\ payload' = [payload EXCEPT ![k] = "none"]
                               /\ \A j \in Cached \ Stuck : <<j, k>> \notin older
            /\ cacheSetup.fails \/ SizeOf(Cached) > cacheSetup.target]_cacheVars

\* When no process is in a call, an entry has metadata exactly if it has a
\* payload, as long as no process has died, no file operation failed and evictions
\* have not met puts: metadata are never written for an entry by the put that finds
\* it there.
MetadataFollowPayload ==
    (/\ ~cacheSetup.dies /\ ~cacheSetup.fails
     /\ OneProcess \/ ~(cacheSetup.evicts \/ cacheSetup.clears)
     /\ \A p \in CacheProcs : At(p, "idle"))
    => \A k \in CacheKeys : metadata[k] = (IF k \in Cached THEN "whole" ELSE "none")

\* Where nothing is evicted or cleared, there never are metadata without their
\* payload, whatever dies or fails, and however many put the same key.
MetadataComeSecond ==
    ~(cacheSetup.evicts \/ cacheSetup.clears)
    => \A k \in CacheKeys : metadata[k] # "none" => k \in Cached

\* What processes find in the cache that they share: whole payloads, with their
\* metadata, within the target after an eviction (cache.py:113-292).
CacheIsSound == PayloadIsWhole /\ TrimmedToTarget /\ MetadataFollowPayload /\ MetadataComeSecond
=============================================================================
