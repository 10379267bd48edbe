----------------------------- MODULE ImageCache -----------------------------
(***************************************************************************)
(* The directory of fetched images (display/remote.py): what fetch_image,  *)
(* called by the display thread, the request threads and the event loop at *)
(* once, and its _prune do to the files.  A file is <<url, suffix>>; what   *)
(* counts of it is when it was last stored or touched and whether its body *)
(* is complete.                                                            *)
(***************************************************************************)
EXTENDS Integers, FiniteSets

CONSTANTS Urls, Suffixes,   \* a URL may answer with another format tomorrow
          Threads,          \* the callers of fetch_image
          CacheFiles,       \* CACHE_FILES
          MaxItems,         \* MAX_PLAYLIST_ITEMS
          None,             \* no answer
          Faults,           \* of "remote", "disk" and "crash": what may go wrong
          MaxCalls          \* bound: calls of fetch_image

ASSUME CacheAssumption ==
  /\ CacheFiles \in Nat \ {0} /\ MaxItems \in 1 .. CacheFiles /\ MaxCalls \in Nat
  /\ IsFiniteSet(Urls) /\ IsFiniteSet(Suffixes) /\ IsFiniteSet(Threads)
  /\ None \notin Urls \X Suffixes

VARIABLES files,    \* the url- files there are: when last used, and the body
          parts,    \* the .part- files there are, each by when it was written
          fetch,    \* what each thread does
          clock,    \* a time stamp nothing in the directory has yet
          calls,    \* calls of fetch_image so far
          got,      \* the names a thread's request was answered so far
          alone,    \* no other call has run since the thread's request began
          lost      \* the names others removed or dated back since the thread's listing

vars == <<files, parts, fetch, clock, calls, got, alone, lost>>
ghosts == <<got, alone, lost>>

Names == Urls \X Suffixes

\* A file that is not there has no body; 0 is earlier than any time.
Absent == [at |-> 0, body |-> "none"]
Present == {n \in Names : files[n].body # "none"}

Unseen == [n \in Names |-> 0]
Idle == [pc |-> "idle", name |-> None, at |-> 0, todo |-> {}, seen |-> Unseen]

Init ==
  /\ files = [n \in Names |-> Absent] /\ parts = {}
  /\ fetch = [t \in Threads |-> Idle]
  /\ clock = 1 /\ calls = 0
  /\ got = [t \in Threads |-> {}]
  /\ alone = [t \in Threads |-> TRUE]
  /\ lost = [t \in Threads |-> {}]

\* A file is stored or touched at a time of its own.
Store(n, at, body) == files' = [files EXCEPT ![n] = [at |-> at, body |-> body]]

\* What a thread makes older or takes away under the prunes of the others.
Loses(t) ==
  lost' = [s \in Threads |->
             IF s # t /\ fetch[s].pc \in {"stat", "unlink"}
             THEN lost[s] \cup {n \in Names : files'[n].at < files[n].at}
             ELSE lost[s]]

Goto(t, pc) == fetch' = [fetch EXCEPT ![t].pc = pc]

\* fetch_image returns the name, or raises: the request of a playlist is over then.
Returns(t, n) ==
  /\ fetch' = [fetch EXCEPT ![t] = Idle]
  /\ got' = [got EXCEPT ![t] = @ \cup {n}]
  /\ lost' = [lost EXCEPT ![t] = {}]
  /\ UNCHANGED alone

Raises(t) ==
  /\ fetch' = [fetch EXCEPT ![t] = Idle]
  /\ got' = [got EXCEPT ![t] = {}]
  /\ lost' = [lost EXCEPT ![t] = {}]
  /\ UNCHANGED alone

-----------------------------------------------------------------------------
(* fetch_image, from one access of the directory to the next. *)

\* A cached file, whatever its suffix, is the answer; without one the URL is fetched.
Call(t, u) ==
  /\ fetch[t].pc = "idle" /\ calls < MaxCalls
  /\ calls' = calls + 1
  /\ alone' = [s \in Threads |-> IF s = t
                 THEN /\ got[t] = {} \/ alone[t]
                      /\ \A r \in Threads \ {t} : fetch[r].pc = "idle"
                 ELSE alone[s] /\ fetch[s].pc = "idle" /\ got[s] = {}]
  /\ LET cached == {n \in Present : n[1] = u} IN
     \/ \E n \in cached :
          fetch' = [fetch EXCEPT ![t] = [Idle EXCEPT !.pc = "touch", !.name = n]]
     \/ /\ cached = {}
        /\ \E s \in Suffixes :
             fetch' = [fetch EXCEPT ![t] = [Idle EXCEPT !.pc = "download", !.name = <<u, s>>]]
  /\ UNCHANGED <<files, parts, clock, got, lost>>

\* Mutant: a hit returns nothing.
Touch_NoName(t) ==
  /\ fetch[t].pc = "touch"
  /\ Store(fetch[t].name, clock, "whole") /\ clock' = clock + 1
  /\ Returns(t, None)
  /\ UNCHANGED <<parts, calls>>

\* existing.touch(): a file pruned meanwhile is created again, empty.
Touch(t) ==
  LET n == fetch[t].name IN
  /\ fetch[t].pc = "touch"
  /\ Store(n, clock, IF n \in Present THEN files[n].body ELSE "empty")
  /\ clock' = clock + 1
  /\ Returns(t, n)
  /\ UNCHANGED <<parts, calls>>

\* _download and _verify: the data in memory, or a RemoteImageError.
Download(t) ==
  /\ fetch[t].pc = "download"
  /\ \/ Goto(t, "write") /\ UNCHANGED ghosts
     \/ "remote" \in Faults /\ Raises(t)
  /\ UNCHANGED <<files, parts, clock, calls>>

\* Mutant: the data is written under the file's name.
Write_InPlace(t) ==
  /\ fetch[t].pc = "write"
  /\ Store(fetch[t].name, clock, "half") /\ clock' = clock + 1
  /\ fetch' = [fetch EXCEPT ![t].pc = "rename", ![t].at = clock]
  /\ UNCHANGED <<parts, calls, ghosts>>

\* The data goes to a file of its own, which is what dates it.
Write(t) ==
  /\ fetch[t].pc = "write"
  /\ parts' = parts \cup {clock}
  /\ fetch' = [fetch EXCEPT ![t].pc = "rename", ![t].at = clock]
  /\ clock' = clock + 1
  /\ UNCHANGED <<files, calls, ghosts>>

\* mkdir, the write, chmod or the rename fails: what was written stays behind.
DiskFails(t) ==
  /\ "disk" \in Faults
  /\ \/ fetch[t].pc = "write" /\ parts' \in {parts, parts \cup {clock}}
     \/ fetch[t].pc = "rename" /\ parts' = parts
  /\ Raises(t)
  /\ clock' = clock + 1
  /\ UNCHANGED <<files, calls>>

Rename(t) ==
  /\ fetch[t].pc = "rename"
  /\ Store(fetch[t].name, fetch[t].at, "whole")
  /\ parts' = parts \ {fetch[t].at}
  /\ Goto(t, "list")
  /\ Loses(t)
  /\ UNCHANGED <<clock, calls, got, alone>>

-----------------------------------------------------------------------------
(* _prune: list, ask each file for its time, remove all but the newest. *)

List(t) ==
  /\ fetch[t].pc = "list"
  /\ fetch' = [fetch EXCEPT ![t].pc = "stat", ![t].todo = Present]
  /\ UNCHANGED <<files, parts, clock, calls, ghosts>>

\* A file removed since it was listed raises, out of fetch_image.
Stat(t) ==
  /\ fetch[t].pc = "stat"
  /\ \E n \in fetch[t].todo :
       IF n \in Present
       THEN /\ fetch' = [fetch EXCEPT ![t].todo = @ \ {n}, ![t].seen[n] = files[n].at]
            /\ UNCHANGED ghosts
       ELSE Raises(t)
  /\ UNCHANGED <<files, parts, clock, calls>>

\* Mutant: the newest go.
Stale_Newest(seen) ==
  {n \in Names : seen[n] # 0 /\ Cardinality({m \in Names : seen[m] # 0 /\ seen[m] < seen[n]}) >= CacheFiles}

\* Mutant: one file too many stays.
Stale_OffByOne(seen) ==
  {n \in Names : seen[n] # 0 /\ Cardinality({m \in Names : seen[m] > seen[n]}) > CacheFiles}

\* What is left of the listing, newest first, behind the first CACHE_FILES.
Stale(seen) ==
  {n \in Names : seen[n] # 0 /\ Cardinality({m \in Names : seen[m] > seen[n]}) >= CacheFiles}

Sort(t) ==
  /\ fetch[t].pc = "stat" /\ fetch[t].todo = {}
  /\ fetch' = [fetch EXCEPT ![t].pc = "unlink", ![t].todo = Stale(fetch[t].seen)]
  /\ UNCHANGED <<files, parts, clock, calls, ghosts>>

\* One that is gone already is only logged.
Unlink(t) ==
  /\ fetch[t].pc = "unlink"
  /\ \E n \in fetch[t].todo :
       /\ \A m \in fetch[t].todo : fetch[t].seen[m] <= fetch[t].seen[n]
       /\ files' = [files EXCEPT ![n] = Absent]
       /\ fetch' = [fetch EXCEPT ![t].todo = @ \ {n}]
  /\ Loses(t)
  /\ UNCHANGED <<parts, clock, calls, got, alone>>

Answer(t) ==
  /\ fetch[t].pc = "unlink" /\ fetch[t].todo = {}
  /\ Returns(t, fetch[t].name)
  /\ UNCHANGED <<files, parts, clock, calls>>

-----------------------------------------------------------------------------
(* Who calls, and what a restart leaves. *)

\* A request has all its names: put_playlist hands them to the worker.
StartPlaylist(t) ==
  /\ fetch[t].pc = "idle" /\ got[t] # {} /\ Cardinality(got[t]) <= MaxItems
  /\ got' = [got EXCEPT ![t] = {}]
  /\ UNCHANGED <<files, parts, fetch, clock, calls, alone, lost>>

\* The process is killed; the directory stays.
Crash ==
  /\ "crash" \in Faults /\ \E t \in Threads : fetch[t].pc # "idle"
  /\ fetch' = [t \in Threads |-> Idle]
  /\ got' = [t \in Threads |-> {}]
  /\ lost' = [t \in Threads |-> {}]
  /\ UNCHANGED <<files, parts, clock, calls, alone>>

Step(t) ==
  \/ \E u \in Urls : Call(t, u)
  \/ Touch(t) \/ Download(t) \/ Write(t) \/ DiskFails(t) \/ Rename(t)
  \/ List(t) \/ Stat(t) \/ Sort(t) \/ Unlink(t) \/ Answer(t)
  \/ StartPlaylist(t)

Next == Crash \/ \E t \in Threads : Step(t)

Spec == Init /\ [][Next]_vars
-----------------------------------------------------------------------------
(* Properties. *)

Fetch == [pc : {"idle", "touch", "download", "write", "rename", "list", "stat", "unlink"},
          name : Names \cup {None}, at : Nat, todo : SUBSET Names, seen : [Names -> Nat]]

TypeOK ==
  /\ files \in [Names -> [at : Nat, body : {"whole", "half", "empty", "none"}]]
  /\ parts \subseteq Nat /\ clock \in Nat /\ calls \in Nat /\ calls <= MaxCalls
  /\ fetch \in [Threads -> Fetch]
  /\ alone \in [Threads -> BOOLEAN]
  /\ got \in [Threads -> SUBSET Names] /\ lost \in [Threads -> SUBSET Names]

(* "A reader never sees half a file" (remote.py:107): whatever fetches fail,
   are killed or run into each other, no name the lookup serves holds a body
   cut off in the middle of a write. *)
NeverHalf == \A n \in Present : files[n].body # "half"

(* Every file and every call is of its kind, and no name holds half a file. *)
Whole == TypeOK /\ NeverHalf

(* _prune removes the oldest: a file goes that nobody used since the prune
   looked at it only behind CACHE_FILES others, each of them newer, or made older
   or taken away by another call while this prune was under way.  A prune that
   ran by itself leaves CACHE_FILES newer ones for each it removes. *)
PruneTakesOldest ==
  [][\A n \in Present \ Present' :
       \E t \in Threads :
         /\ n \in fetch[t].todo \ fetch'[t].todo
         /\ files[n].at = fetch[t].seen[n] =>
              Cardinality({m \in Names \ {n} : files[m].at > files[n].at \/ m \in lost[t]})
                >= CacheFiles]_vars

(* A request nobody fetched beside has what it needs: each name it is answered
   with is there, a fetch that stored something leaves at most CACHE_FILES
   behind, and no image of a playlist was pruned for a later one of it ("more
   than a playlist can name", remote.py:42), however many prunes were cut short
   by a crash or by each other before. *)
AloneIsFound ==
  [][\A t \in Threads : alone[t] =>
       /\ fetch[t].pc # "idle" /\ fetch'[t].pc = "idle" /\ got'[t] # {} =>
            /\ fetch[t].name \in Present'
            /\ fetch[t].pc = "unlink" => Cardinality(Present') <= CacheFiles
       /\ fetch[t].pc = "idle" /\ got'[t] = {} => got[t] \subseteq Present]_vars
=============================================================================
