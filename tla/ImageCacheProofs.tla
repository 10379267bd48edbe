-------------------------- MODULE ImageCacheProofs --------------------------
(* What every fetch_image, however many run at once, keeps of the cache: no file
   is ever half written, a prune removes what lies behind CACHE_FILES others, and
   a request nobody fetches beside has all it was answered. *)
EXTENDS ImageCache, FiniteSetTheorems, WellFoundedInduction, TLAPS

\* A call under way knows the file it is about.
Named == \A t \in Threads : fetch[t].pc # "idle" => fetch[t].name \in Names

Inv == TypeOK /\ NeverHalf /\ Named

LEMMA IdleType == ASSUME TypeOK PROVE Idle \in Fetch
BY CacheAssumption DEF TypeOK, Fetch, Idle, Unseen

(* Types hold at the start: an empty directory and no call. *)
LEMMA InitInv == Init => Inv
<1> SUFFICES ASSUME Init PROVE Inv
  OBVIOUS
<1>1. TypeOK
  BY CacheAssumption DEF Init, TypeOK, Fetch, Idle, Unseen, Absent
<1>2. NeverHalf
  BY DEF Init, NeverHalf, Present, Absent
<1>3. Named
  BY DEF Init, Named, Idle
<1> QED BY <1>1, <1>2, <1>3 DEF Inv

(* Storing a body that is not cut off keeps the files whole. *)
LEMMA StoreKeeps ==
  ASSUME Inv, NEW n \in Names, NEW at \in Nat, NEW body \in {"whole", "empty", "none"},
         files' = [files EXCEPT ![n] = [at |-> at, body |-> body]]
  PROVE  /\ files' \in [Names -> [at : Nat, body : {"whole", "half", "empty", "none"}]]
         /\ NeverHalf'
BY DEF Inv, TypeOK, NeverHalf, Present

(* What the ends of a call, returned or raised, have in common. *)
LEMMA EndKeeps ==
  ASSUME Inv, NEW t \in Threads, fetch[t].pc # "idle",
         Returns(t, fetch[t].name) \/ Raises(t)
  PROVE  /\ fetch' \in [Threads -> Fetch] /\ Named'
         /\ alone' \in [Threads -> BOOLEAN]
         /\ got' \in [Threads -> SUBSET Names] /\ lost' \in [Threads -> SUBSET Names]
<1>1. fetch' = [fetch EXCEPT ![t] = Idle] /\ fetch[t].name \in Names
  BY DEF Returns, Raises, Inv, Named
<1>2. fetch' \in [Threads -> Fetch]
  BY <1>1, IdleType DEF Inv, TypeOK
<1>3. Named'
  BY <1>1 DEF Inv, TypeOK, Named, Idle
<1> QED BY <1>1, <1>2, <1>3 DEF Returns, Raises, Inv, TypeOK

(* A call that goes on keeps its name. *)
LEMMA GoesOn ==
  ASSUME Inv, NEW t \in Threads, fetch[t].pc # "idle",
         NEW f \in Fetch, f.name = fetch[t].name, fetch' = [fetch EXCEPT ![t] = f]
  PROVE  fetch' \in [Threads -> Fetch] /\ Named'
BY DEF Inv, TypeOK, Named

(* Every step of a thread keeps the invariant. *)
LEMMA StepInv == ASSUME Inv, NEW t \in Threads, Step(t) PROVE Inv'
<1> USE CacheAssumption
<1>1. /\ files \in [Names -> [at : Nat, body : {"whole", "half", "empty", "none"}]]
      /\ clock \in Nat /\ parts \subseteq Nat /\ calls \in Nat /\ calls <= MaxCalls
      /\ fetch \in [Threads -> Fetch] /\ alone \in [Threads -> BOOLEAN]
      /\ got \in [Threads -> SUBSET Names] /\ lost \in [Threads -> SUBSET Names]
      /\ Idle \in Fetch /\ MaxCalls \in Nat
  BY IdleType DEF TypeOK, Inv
<1>2. /\ fetch[t] \in Fetch
      /\ fetch[t].at \in Nat /\ fetch[t].todo \subseteq Names /\ fetch[t].seen \in [Names -> Nat]
      /\ fetch[t].pc # "idle" => fetch[t].name \in Names
  BY <1>1 DEF Fetch, Inv, Named
<1>3. ASSUME NEW u \in Urls, Call(t, u) PROVE Inv'
  <2>1. calls' \in Nat /\ calls' <= MaxCalls
    <3>1. calls' = calls + 1 /\ calls < MaxCalls
      BY <1>3 DEF Call
    <3> QED BY <1>1, <3>1
  <2>2. alone' \in [Threads -> BOOLEAN]
    BY <1>1, <1>3 DEF Call
  <2>3. PICK pc \in {"touch", "download"}, n \in Names :
          fetch' = [fetch EXCEPT ![t] = [Idle EXCEPT !.pc = pc, !.name = n]]
    BY <1>3 DEF Call, Present, Names
  <2>4. [Idle EXCEPT !.pc = pc, !.name = n] \in Fetch
    BY <1>1 DEF Fetch
  <2>5. fetch' \in [Threads -> Fetch] /\ Named'
    BY <1>1, <2>3, <2>4 DEF Named, Inv, Fetch
  <2> QED BY <1>1, <1>3, <2>1, <2>2, <2>5 DEF Call, TypeOK, NeverHalf, Present, Inv
<1>4. CASE Touch(t)
  <2>1. /\ Returns(t, fetch[t].name) /\ clock' \in Nat
        /\ NeverHalf' /\ files' \in [Names -> [at : Nat, body : {"whole", "half", "empty", "none"}]]
    <3> DEFINE body == IF fetch[t].name \in Present THEN files[fetch[t].name].body ELSE "empty"
    <3>1. body \in {"whole", "empty", "none"}
      BY <1>1, <1>2, <1>4 DEF Touch, Inv, NeverHalf, Present
    <3>2. files' = [files EXCEPT ![fetch[t].name] = [at |-> clock, body |-> body]]
      BY <1>4 DEF Touch, Store
    <3> HIDE DEF body
    <3>3. clock' = clock + 1 /\ fetch[t].pc = "touch" /\ Returns(t, fetch[t].name)
      BY <1>4 DEF Touch
    <3>4. fetch[t].name \in Names
      BY <1>2, <3>3
    <3>5. NeverHalf' /\ files' \in [Names -> [at : Nat, body : {"whole", "half", "empty", "none"}]]
      BY <1>1, <3>1, <3>2, <3>4, StoreKeeps
    <3>6. clock' \in Nat
      BY <1>1, <3>3
    <3> QED BY <3>3, <3>5, <3>6
  <2> QED BY <1>1, <1>4, <2>1, EndKeeps DEF Touch, TypeOK, Inv
<1>5. CASE Download(t)
  <2>1. fetch' \in [Threads -> Fetch] /\ Named' /\ alone' \in [Threads -> BOOLEAN]
        /\ got' \in [Threads -> SUBSET Names] /\ lost' \in [Threads -> SUBSET Names]
    <3>1. CASE Goto(t, "write") /\ UNCHANGED ghosts
      <4>1. [fetch[t] EXCEPT !.pc = "write"] \in Fetch
        BY <1>2 DEF Fetch
      <4> QED BY <1>1, <1>2, <1>5, <3>1, <4>1, GoesOn DEF Goto, Download, ghosts, Fetch
    <3>2. CASE Raises(t)
      BY <1>5, <3>2, EndKeeps DEF Download
    <3> QED BY <1>5, <3>1, <3>2 DEF Download
  <2> QED BY <1>1, <1>5, <2>1 DEF Download, TypeOK, Inv, NeverHalf, Present
<1>6. CASE Write(t)
  <2>1. [fetch[t] EXCEPT !.pc = "rename", !.at = clock] \in Fetch
    BY <1>1, <1>2 DEF Fetch
  <2>2. fetch' \in [Threads -> Fetch] /\ Named'
    <3>1. /\ fetch[t].pc = "write"
          /\ fetch' = [fetch EXCEPT ![t] = [fetch[t] EXCEPT !.pc = "rename", !.at = clock]]
      BY <1>1, <1>6 DEF Write
    <3> QED BY <1>2, <2>1, <3>1, GoesOn DEF Fetch
  <2>3. clock' \in Nat /\ parts' \subseteq Nat
    BY <1>1, <1>6 DEF Write
  <2> QED BY <1>1, <1>6, <2>2, <2>3 DEF Write, ghosts, TypeOK, Inv, NeverHalf, Present
<1>7. CASE DiskFails(t)
  <2>1. parts' \subseteq Nat /\ clock' \in Nat
    <3>1. clock' = clock + 1 /\ parts' \subseteq parts \cup {clock}
      BY <1>7 DEF DiskFails
    <3> QED BY <1>1, <3>1
  <2> QED BY <1>1, <1>7, <2>1, EndKeeps DEF DiskFails, TypeOK, Inv, NeverHalf, Present
<1>8. CASE Rename(t)
  <2>1. [fetch[t] EXCEPT !.pc = "list"] \in Fetch
    BY <1>1, <1>2 DEF Fetch
  <2>2. fetch' \in [Threads -> Fetch] /\ Named'
    BY <1>1, <1>2, <1>8, <2>1, GoesOn DEF Rename, Goto, Fetch
  <2>3. NeverHalf' /\ files' \in [Names -> [at : Nat, body : {"whole", "half", "empty", "none"}]]
    BY <1>1, <1>2, <1>8, StoreKeeps DEF Rename, Store
  <2>4. lost' \in [Threads -> SUBSET Names]
    BY <1>1, <1>8 DEF Rename, Loses
  <2> QED BY <1>1, <1>8, <2>2, <2>3, <2>4 DEF Rename, TypeOK, Inv
<1>9. CASE List(t)
  <2>1. [fetch[t] EXCEPT !.pc = "stat", !.todo = Present] \in Fetch
    BY <1>1, <1>2 DEF Fetch, Present
  <2>2. fetch' \in [Threads -> Fetch] /\ Named'
    <3>1. /\ fetch[t].pc = "list"
          /\ fetch' = [fetch EXCEPT ![t] = [fetch[t] EXCEPT !.pc = "stat", !.todo = Present]]
      BY <1>1, <1>9 DEF List
    <3> QED BY <1>2, <2>1, <3>1, GoesOn DEF Fetch
  <2> QED BY <1>1, <1>9, <2>2 DEF List, ghosts, TypeOK, Inv, NeverHalf, Present
<1>10. CASE Stat(t)
  <2>1. fetch' \in [Threads -> Fetch] /\ Named' /\ alone' \in [Threads -> BOOLEAN]
        /\ got' \in [Threads -> SUBSET Names] /\ lost' \in [Threads -> SUBSET Names]
    <3>1. ASSUME NEW n \in fetch[t].todo, UNCHANGED ghosts,
                 fetch' = [fetch EXCEPT ![t].todo = @ \ {n}, ![t].seen[n] = files[n].at]
          PROVE  fetch' \in [Threads -> Fetch] /\ Named' /\ alone' \in [Threads -> BOOLEAN]
                 /\ got' \in [Threads -> SUBSET Names] /\ lost' \in [Threads -> SUBSET Names]
      <4>1. [fetch[t] EXCEPT !.todo = @ \ {n}, !.seen[n] = files[n].at] \in Fetch
        BY <1>1, <1>2, <3>1 DEF Fetch
      <4>2. /\ fetch[t].pc = "stat"
            /\ fetch' = [fetch EXCEPT ![t] = [fetch[t] EXCEPT !.todo = @ \ {n}, !.seen[n] = files[n].at]]
        <5>1. fetch[t].pc = "stat"
          BY <1>10 DEF Stat
        <5>2. [fetch EXCEPT ![t].todo = @ \ {n}, ![t].seen[n] = files[n].at]
                = [fetch EXCEPT ![t] = [fetch[t] EXCEPT !.todo = @ \ {n}, !.seen[n] = files[n].at]]
          BY <1>1, Zenon
        <5> QED BY <3>1, <5>1, <5>2
      <4>3. fetch' \in [Threads -> Fetch] /\ Named'
        BY <1>2, <4>1, <4>2, GoesOn DEF Fetch
      <4> QED BY <1>1, <3>1, <4>3 DEF ghosts
    <3>2. CASE Raises(t)
      BY <1>10, <3>2, EndKeeps DEF Stat
    <3> QED BY <1>10, <3>1, <3>2 DEF Stat
  <2> QED BY <1>1, <1>10, <2>1 DEF Stat, TypeOK, Inv, NeverHalf, Present
<1>11. CASE Sort(t)
  <2>1. [fetch[t] EXCEPT !.pc = "unlink", !.todo = Stale(fetch[t].seen)] \in Fetch
    BY <1>1, <1>2 DEF Fetch, Stale
  <2>2. fetch' \in [Threads -> Fetch] /\ Named'
    <3>1. /\ fetch[t].pc = "stat"
          /\ fetch' = [fetch EXCEPT ![t] = [fetch[t] EXCEPT !.pc = "unlink", !.todo = Stale(fetch[t].seen)]]
      BY <1>1, <1>11 DEF Sort
    <3> QED BY <1>2, <2>1, <3>1, GoesOn DEF Fetch
  <2> QED BY <1>1, <1>11, <2>2 DEF Sort, ghosts, TypeOK, Inv, NeverHalf, Present
<1>12. CASE Unlink(t)
  <2>1. PICK n \in fetch[t].todo : /\ files' = [files EXCEPT ![n] = Absent]
                                   /\ fetch' = [fetch EXCEPT ![t].todo = @ \ {n}]
    BY <1>12 DEF Unlink
  <2>2. [fetch[t] EXCEPT !.todo = @ \ {n}] \in Fetch
    BY <1>1, <1>2 DEF Fetch
  <2>3. fetch' \in [Threads -> Fetch] /\ Named'
    BY <1>1, <1>2, <1>12, <2>1, <2>2, GoesOn DEF Unlink, Fetch
  <2>4. NeverHalf' /\ files' \in [Names -> [at : Nat, body : {"whole", "half", "empty", "none"}]]
    BY <1>1, <1>2, <2>1, StoreKeeps DEF Absent
  <2>5. lost' \in [Threads -> SUBSET Names]
    BY <1>1, <1>12 DEF Unlink, Loses
  <2> QED BY <1>1, <1>12, <2>3, <2>4, <2>5 DEF Unlink, TypeOK, Inv
<1>13. CASE Answer(t)
  BY <1>1, <1>13, EndKeeps DEF Answer, TypeOK, Inv, NeverHalf, Present
<1>14. CASE StartPlaylist(t)
  BY <1>1, <1>14 DEF StartPlaylist, TypeOK, Inv, NeverHalf, Present, Named
<1> QED BY <1>3, <1>4, <1>5, <1>6, <1>7, <1>8, <1>9, <1>10, <1>11, <1>12, <1>13, <1>14 DEF Step

(* Nor does a kill: it leaves the directory as it is. *)
LEMMA CrashInv == ASSUME Inv, Crash PROVE Inv'
<1>1. fetch' \in [Threads -> Fetch] /\ Named'
  BY IdleType DEF Crash, Inv, Named, Idle
<1> QED BY <1>1 DEF Crash, Inv, TypeOK, NeverHalf, Present

(* However many threads fetch, whichever fetches fail or are killed, and
   however the prunes get in each other's way (remote.py:90-115, 170-181): no
   name in the cache ever holds a body cut off in the middle. *)
THEOREM CacheWhole == Spec => []Whole
<1>1. Init => Inv
  BY InitInv
<1>2. Inv /\ [Next]_vars => Inv'
  <2> SUFFICES ASSUME Inv, [Next]_vars PROVE Inv'
    OBVIOUS
  <2>1. CASE UNCHANGED vars
    BY <2>1 DEF vars, Inv, TypeOK, NeverHalf, Present, Named
  <2> QED BY <2>1, StepInv, CrashInv DEF Next
<1>3. Inv => Whole
  BY DEF Inv, Whole
<1> QED BY <1>1, <1>2, <1>3, PTL DEF Spec

-----------------------------------------------------------------------------
(* Counting files. *)

(* A set of numbers that is not empty has a least one. *)
LEMMA LeastOf == ASSUME NEW N \in SUBSET Nat, N # {} PROVE \E x \in N : \A y \in N : x <= y
<1>1. PICK x \in N : \A y \in N : ~ (<<y, x>> \in OpToRel(<, Nat))
  BY NatLessThanWellFounded, WFMin
<1>2. \A y \in N : ~ (y < x)
  BY <1>1 DEF OpToRel
<1> QED BY <1>2

(* There are finitely many files. *)
LEMMA NamesFinite == IsFiniteSet(Names)
BY CacheAssumption, FS_Product DEF Names

(* So their sets can be counted. *)
LEMMA SetsOfNames == ASSUME NEW S \in SUBSET Names
  PROVE IsFiniteSet(S) /\ Cardinality(S) \in Nat
BY NamesFinite, FS_Subset, FS_CardinalityType

Newer(seen, n) == {m \in Names : seen[m] > seen[n]}

(* A file that is behind CACHE_FILES newer ones is behind CACHE_FILES that stay. *)
LEMMA BehindThoseThatStay ==
  ASSUME NEW seen \in [Names -> Nat], NEW n \in Stale(seen)
  PROVE  Cardinality(Newer(seen, n) \ Stale(seen)) >= CacheFiles
<1> DEFINE S == Newer(seen, n)
           T == S \ Stale(seen)
<1>1. /\ n \in Names /\ Cardinality(S) >= CacheFiles /\ S \subseteq Names
      /\ \A m \in S : seen[m] # 0
  BY DEF Stale, Newer
<1>2. SUFFICES ASSUME Cardinality(T) < CacheFiles PROVE FALSE
  BY <1>1, SetsOfNames, CacheAssumption
<1>3. PICK a \in S : a \in Stale(seen)
  <2>1. S # T
    BY <1>1, <1>2, SetsOfNames, CacheAssumption
  <2> QED BY <2>1
<1> DEFINE N == {Cardinality(Newer(seen, m)) : m \in S \cap Stale(seen)}
<1>4. N \in SUBSET Nat /\ N # {}
  BY <1>1, <1>3, SetsOfNames DEF Newer
<1>5. PICK x \in N : \A y \in N : x <= y
  BY <1>4, LeastOf
<1>6. PICK m \in S \cap Stale(seen) : x = Cardinality(Newer(seen, m))
  OBVIOUS
<1>7. Newer(seen, m) \subseteq T
  <2> SUFFICES ASSUME NEW k \in Newer(seen, m), k \notin T PROVE FALSE
    OBVIOUS
  <2>1. k \in Names /\ m \in Names /\ seen[k] \in Nat /\ seen[m] \in Nat /\ seen[n] \in Nat
    BY <1>1 DEF Newer
  <2>2. seen[k] > seen[m] /\ seen[m] > seen[n]
    BY DEF Newer
  <2>3. k \in S
    BY <2>1, <2>2 DEF Newer
  <2>4. k \in S \cap Stale(seen)
    BY <2>3
  <2>5. Newer(seen, k) \subseteq Newer(seen, m) \ {m}
    BY <2>1, <2>2 DEF Newer
  <2>6. Newer(seen, k) # Newer(seen, m)
    <3>1. k \in Newer(seen, m) /\ k \notin Newer(seen, k)
      BY <2>1, <2>2 DEF Newer
    <3> QED BY <3>1
  <2>7. Newer(seen, m) \in SUBSET Names /\ Newer(seen, k) \in SUBSET Newer(seen, m)
    BY <2>5 DEF Newer
  <2>8. Cardinality(Newer(seen, k)) <= Cardinality(Newer(seen, m))
        /\ Cardinality(Newer(seen, k)) # Cardinality(Newer(seen, m))
    BY <2>6, <2>7, SetsOfNames, FS_Subset
  <2>9. x <= Cardinality(Newer(seen, k))
    BY <1>5, <2>4
  <2>10. Cardinality(Newer(seen, k)) \in Nat /\ x \in Nat
    BY <1>4, <1>6, <2>7, SetsOfNames
  <2> QED BY <1>6, <2>8, <2>9, <2>10
<1>8. Cardinality(Newer(seen, m)) <= Cardinality(T)
  BY <1>1, <1>7, SetsOfNames, FS_Subset
<1>9. Cardinality(Newer(seen, m)) >= CacheFiles
  BY DEF Stale, Newer
<1>10. Cardinality(Newer(seen, m)) \in Nat /\ Cardinality(T) \in Nat
  BY <1>1, SetsOfNames DEF Newer
<1> HIDE DEF S, T
<1> QED BY <1>2, <1>8, <1>9, <1>10, CacheAssumption

(* CACHE_FILES are left: files with times of their own, none of them behind as many. *)
LEMMA FewStay ==
  ASSUME NEW seen \in [Names -> Nat],
         \A a, b \in Names : seen[a] = seen[b] /\ a # b => seen[a] = 0
  PROVE  Cardinality({m \in Names : seen[m] # 0} \ Stale(seen)) <= CacheFiles
<1> DEFINE S == {m \in Names : seen[m] # 0} \ Stale(seen)
<1>1. S \in SUBSET Names
  OBVIOUS
<1>2. CASE S = {}
  BY <1>2, FS_EmptySet, CacheAssumption
<1>3. CASE S # {}
  <2> DEFINE N == {seen[m] : m \in S}
  <2>1. N \in SUBSET Nat /\ N # {}
    BY <1>3
  <2>2. PICK x \in N : \A y \in N : x <= y
    BY <2>1, LeastOf
  <2>3. PICK m \in S : x = seen[m]
    OBVIOUS
  <2>4. S \ {m} \subseteq Newer(seen, m)
    <3> SUFFICES ASSUME NEW k \in S, k # m PROVE k \in Newer(seen, m)
      OBVIOUS
    <3>1. seen[k] \in Nat /\ seen[m] \in Nat /\ seen[k] # seen[m] /\ seen[m] <= seen[k]
      BY <2>2, <2>3
    <3> QED BY <3>1 DEF Newer
  <2>5. Newer(seen, m) \in SUBSET Names /\ m \notin Stale(seen) /\ m \in Names /\ seen[m] # 0
    BY DEF Newer
  <2>6. ~ (Cardinality(Newer(seen, m)) >= CacheFiles)
    BY <2>5 DEF Stale, Newer
  <2>7. Cardinality(S \ {m}) <= Cardinality(Newer(seen, m))
    BY <2>4, <2>5, SetsOfNames, FS_Subset
  <2>8. Cardinality(S \ {m}) = Cardinality(S) - 1
    BY <1>1, SetsOfNames, FS_RemoveElement
  <2>9. /\ Cardinality(S) \in Nat /\ Cardinality(S \ {m}) \in Nat
        /\ Cardinality(Newer(seen, m)) \in Nat
    BY <1>1, <2>5, SetsOfNames
  <2>10. CacheFiles \in Nat
    BY CacheAssumption
  <2>11. Cardinality(S) <= CacheFiles
    <3> HIDE DEF S
    <3> QED BY <2>6, <2>7, <2>8, <2>9, <2>10
  <2> QED BY <2>11
<1> QED BY <1>2, <1>3

-----------------------------------------------------------------------------
(* Several prunes at once. *)

\* Every file and every file about to be renamed has a time of its own.
Times ==
  /\ clock > 0
  /\ \A n \in Names : files[n].at < clock /\ (n \in Present <=> files[n].at # 0)
  /\ \A m, n \in Names : files[m].at = files[n].at /\ m # n => files[m].at = 0
  /\ \A t \in Threads : fetch[t].pc = "rename" =>
       /\ fetch[t].at < clock /\ fetch[t].at # 0
       /\ \A n \in Names : files[n].at # fetch[t].at
  /\ \A s, t \in Threads :
       fetch[s].pc = "rename" /\ fetch[t].pc = "rename" /\ s # t => fetch[s].at # fetch[t].at

(* What the types say of one thread and one file. *)
LEMMA Typed ==
  ASSUME Inv
  PROVE  /\ clock \in Nat
         /\ \A n \in Names : files[n].at \in Nat
                          /\ files[n].body \in {"whole", "half", "empty", "none"}
         /\ \A t \in Threads : /\ fetch[t] \in Fetch /\ fetch[t].at \in Nat
                               /\ fetch[t].todo \subseteq Names /\ fetch[t].seen \in [Names -> Nat]
                               /\ fetch[t].pc # "idle" => fetch[t].name \in Names
                               /\ got[t] \subseteq Names /\ lost[t] \subseteq Names
         /\ fetch \in [Threads -> Fetch]
         /\ files \in [Names -> [at : Nat, body : {"whole", "half", "empty", "none"}]]
         /\ got \in [Threads -> SUBSET Names] /\ lost \in [Threads -> SUBSET Names]
         /\ alone \in [Threads -> BOOLEAN]
         /\ DOMAIN fetch = Threads
BY DEF Inv, TypeOK, Named, Fetch

(* A step of one thread leaves what the others do alone. *)
LEMMA OthersGoOn ==
  ASSUME Inv, NEW s \in Threads, Step(s), NEW t \in Threads, t # s
  PROVE  fetch'[t] = fetch[t] /\ got'[t] = got[t]
<1>1. fetch \in [Threads -> Fetch] /\ got \in [Threads -> SUBSET Names]
  BY Typed
<1>2. CASE \E u \in Urls : Call(s, u)
  BY <1>1, <1>2 DEF Call
<1>3. CASE Returns(s, fetch[s].name) \/ Raises(s)
  BY <1>1, <1>3 DEF Returns, Raises
<1>4. CASE UNCHANGED got /\ \E f : fetch' = [fetch EXCEPT ![s] = f]
  BY <1>1, <1>4
<1>5. CASE Touch(s) \/ Answer(s) \/ DiskFails(s)
  BY <1>3, <1>5 DEF Touch, Answer, DiskFails
<1>6. CASE Download(s)
  BY <1>1, <1>3, <1>6 DEF Download, Goto, ghosts
<1>7. CASE Write(s) \/ Rename(s) \/ List(s) \/ Sort(s) \/ Unlink(s)
  BY <1>1, <1>7 DEF Write, Rename, List, Sort, Unlink, Goto, ghosts
<1>8. CASE Stat(s)
  BY <1>1, <1>3, <1>8 DEF Stat, ghosts
<1>9. CASE StartPlaylist(s)
  BY <1>1, <1>9 DEF StartPlaylist
<1> QED BY <1>2, <1>5, <1>6, <1>7, <1>8, <1>9 DEF Step

(* Which steps change the files, and how. *)
LEMMA FileSteps ==
  ASSUME Inv, NEW t \in Threads, Step(t)
  PROVE  \/ files' = files
         \/ /\ fetch[t].pc = "touch" /\ clock' = clock + 1 /\ lost' = [lost EXCEPT ![t] = {}]
            /\ \E body \in {"whole", "half", "empty"} :
                 files' = [files EXCEPT ![fetch[t].name] = [at |-> clock, body |-> body]]
         \/ /\ fetch[t].pc = "rename" /\ clock' = clock /\ Loses(t)
            /\ files' = [files EXCEPT ![fetch[t].name] = [at |-> fetch[t].at, body |-> "whole"]]
         \/ /\ fetch[t].pc = "unlink" /\ clock' = clock /\ Loses(t)
            /\ \E n \in fetch[t].todo : files' = [files EXCEPT ![n] = Absent]
<1>1. CASE Touch(t)
  <2>1. /\ fetch[t].pc = "touch" /\ clock' = clock + 1 /\ lost' = [lost EXCEPT ![t] = {}]
        /\ fetch[t].name \in Names
    BY <1>1, Typed DEF Touch, Returns
  <2> DEFINE body == IF fetch[t].name \in Present THEN files[fetch[t].name].body ELSE "empty"
  <2>2. body \in {"whole", "half", "empty"}
    BY <2>1, Typed DEF Present
  <2>3. files' = [files EXCEPT ![fetch[t].name] = [at |-> clock, body |-> body]]
    BY <1>1 DEF Touch, Store
  <2> HIDE DEF body
  <2> QED BY <2>1, <2>2, <2>3
<1>2. CASE Rename(t)
  BY <1>2 DEF Rename, Store
<1>3. CASE Unlink(t)
  BY <1>3 DEF Unlink
<1>4. CASE \E u \in Urls : Call(t, u)
  BY <1>4 DEF Call
<1>5. CASE Download(t) \/ Write(t) \/ DiskFails(t) \/ List(t) \/ Stat(t) \/ Sort(t)
           \/ Answer(t) \/ StartPlaylist(t)
  BY <1>5 DEF Download, Write, DiskFails, List, Stat, Sort, Answer, StartPlaylist
<1> QED BY <1>1, <1>2, <1>3, <1>4, <1>5 DEF Step

(* A thread comes to a rename with a new time only. *)
LEMMA RenameSteps ==
  ASSUME Inv, NEW t \in Threads, Step(t)
  PROVE  /\ clock' \in {clock, clock + 1}
         /\ fetch'[t].pc = "rename" =>
              /\ fetch[t].pc = "write" /\ fetch'[t].at = clock /\ clock' = clock + 1
              /\ files' = files
         /\ fetch[t].pc = "rename" => fetch'[t].pc # "rename"
<1>1. fetch \in [Threads -> Fetch] /\ fetch[t] \in Fetch
  BY Typed
<1>2. CASE \E u \in Urls : Call(t, u)
  BY <1>1, <1>2 DEF Call, Idle
<1>3. ASSUME Returns(t, fetch[t].name) \/ Raises(t)
      PROVE  fetch'[t].pc = "idle"
  BY <1>1, <1>3 DEF Returns, Raises, Idle
<1>4. CASE Touch(t)
  BY <1>3, <1>4 DEF Touch
<1>5. CASE Answer(t)
  BY <1>3, <1>5 DEF Answer
<1>6. CASE DiskFails(t)
  BY <1>3, <1>6 DEF DiskFails
<1>7. CASE Download(t)
  <2>1. fetch[t].pc = "download" /\ clock' = clock /\ fetch'[t].pc \in {"write", "idle"}
    BY <1>1, <1>3, <1>7 DEF Download, Goto, Fetch
  <2> QED BY <2>1
<1>8. CASE Write(t)
  BY <1>1, <1>8 DEF Write, Fetch
<1>9. CASE Rename(t)
  BY <1>1, <1>9 DEF Rename, Goto, Fetch
<1>10. CASE List(t)
  BY <1>1, <1>10 DEF List, Fetch
<1>11. CASE Stat(t)
  <2>1. fetch[t].pc = "stat" /\ clock' = clock
    BY <1>11 DEF Stat
  <2>2. PICK n \in fetch[t].todo :
          \/ fetch' = [fetch EXCEPT ![t].todo = @ \ {n}, ![t].seen[n] = files[n].at]
          \/ Raises(t)
    BY <1>11 DEF Stat
  <2>3. CASE fetch' = [fetch EXCEPT ![t].todo = @ \ {n}, ![t].seen[n] = files[n].at]
    BY <1>1, <2>1, <2>3 DEF Fetch
  <2> QED BY <1>3, <2>1, <2>2, <2>3
<1>12. CASE Sort(t)
  BY <1>1, <1>12 DEF Sort, Fetch
<1>13. CASE Unlink(t)
  BY <1>1, <1>13 DEF Unlink, Fetch
<1>14. CASE StartPlaylist(t)
  BY <1>1, <1>14 DEF StartPlaylist
<1> QED BY <1>2, <1>4, <1>5, <1>6, <1>7, <1>8, <1>9, <1>10, <1>11, <1>12, <1>13, <1>14 DEF Step

\* The part of Times that is about the files.
FilesTimed(f, c) ==
  /\ \A n \in Names : f[n].at < c /\ (f[n].body # "none" <=> f[n].at # 0)
  /\ \A m, n \in Names : f[m].at = f[n].at /\ m # n => f[m].at = 0

(* A file stored under a time no other has keeps a time of its own, and so it
   does when it is removed. *)
LEMMA StoreTimed ==
  ASSUME NEW f \in [Names -> [at : Nat, body : {"whole", "half", "empty", "none"}]],
         NEW c \in Nat, NEW d \in Nat, c <= d, FilesTimed(f, c),
         NEW n \in Names, NEW at \in Nat, NEW body \in {"whole", "half", "empty", "none"},
         at < d, body # "none" <=> at # 0, at # 0 => \A m \in Names : f[m].at # at
  PROVE  FilesTimed([f EXCEPT ![n] = [at |-> at, body |-> body]], d)
<1> DEFINE g == [f EXCEPT ![n] = [at |-> at, body |-> body]]
<1>1. /\ g[n].at = at /\ g[n].body = body
      /\ \A m \in Names : m # n => g[m] = f[m]
      /\ \A m \in Names : f[m].at \in Nat
  OBVIOUS
<1> HIDE DEF g
<1>2. \A m \in Names : g[m].at < d /\ (g[m].body # "none" <=> g[m].at # 0)
  BY <1>1 DEF FilesTimed
<1>3. \A m, k \in Names : g[m].at = g[k].at /\ m # k => g[m].at = 0
  BY <1>1 DEF FilesTimed
<1> QED BY <1>2, <1>3 DEF FilesTimed, g

\* Where the time of a file comes from after a step.
TimedBy(t) ==
  \A n \in Names : \/ files'[n].at = files[n].at
                   \/ files'[n].at = 0
                   \/ files'[n].at = clock
                   \/ fetch[t].pc = "rename" /\ files'[n].at = fetch[t].at

(* What a step of a thread does to the times of the files. *)
LEMMA TimesOfFiles ==
  ASSUME Inv, Times, NEW t \in Threads, Step(t)
  PROVE  /\ clock' > 0 /\ FilesTimed(files', clock')
         /\ TimedBy(t)
<1>1. /\ clock \in Nat /\ clock > 0 /\ clock' \in {clock, clock + 1}
      /\ \A n \in Names : files[n].at \in Nat /\ files[n].at < clock
      /\ fetch[t].todo \subseteq Names
      /\ fetch[t].pc # "idle" => fetch[t].name \in Names
      /\ files \in [Names -> [at : Nat, body : {"whole", "half", "empty", "none"}]]
  BY Typed, RenameSteps DEF Times
<1>2. FilesTimed(files, clock)
  BY DEF Times, FilesTimed, Present
<1>3. clock' > 0 /\ clock' \in Nat /\ clock <= clock' /\ 0 \in Nat /\ 0 < clock'
  BY <1>1
<1>4. CASE files' = files
  <2>1. FilesTimed(files, clock')
    BY <1>1, <1>2, <1>3 DEF FilesTimed
  <2>2. FilesTimed(files', clock')
    BY <1>4, <2>1
  <2>3. TimedBy(t)
    BY <1>4 DEF TimedBy
  <2> QED BY <1>3, <2>2, <2>3
<1>5. CASE /\ fetch[t].pc = "touch" /\ clock' = clock + 1
           /\ \E body \in {"whole", "half", "empty"} :
                files' = [files EXCEPT ![fetch[t].name] = [at |-> clock, body |-> body]]
  <2>1. PICK body \in {"whole", "half", "empty"} :
          files' = [files EXCEPT ![fetch[t].name] = [at |-> clock, body |-> body]]
    BY <1>5
  <2>2. clock < clock' /\ clock # 0 /\ (\A m \in Names : files[m].at # clock) /\ fetch[t].name \in Names
    BY <1>1, <1>5
  <2>3. FilesTimed([files EXCEPT ![fetch[t].name] = [at |-> clock, body |-> body]], clock')
    BY <1>1, <1>2, <1>3, <2>2, StoreTimed
  <2>4. FilesTimed(files', clock')
    BY <2>1, <2>3
  <2>5. TimedBy(t)
    BY <1>1, <2>1 DEF TimedBy
  <2> QED BY <1>3, <2>4, <2>5
<1>6. CASE /\ fetch[t].pc = "rename" /\ clock' = clock
           /\ files' = [files EXCEPT ![fetch[t].name] = [at |-> fetch[t].at, body |-> "whole"]]
  <2>1. /\ fetch[t].at < clock' /\ fetch[t].at # 0 /\ fetch[t].at \in Nat
        /\ \A m \in Names : files[m].at # fetch[t].at
        /\ fetch[t].name \in Names
    BY <1>1, <1>6, Typed DEF Times
  <2>2. FilesTimed([files EXCEPT ![fetch[t].name] = [at |-> fetch[t].at, body |-> "whole"]], clock')
    BY <1>1, <1>2, <1>3, <2>1, StoreTimed
  <2>3. FilesTimed(files', clock')
    BY <1>6, <2>2
  <2>4. TimedBy(t)
    BY <1>1, <1>6 DEF TimedBy
  <2> QED BY <1>3, <2>3, <2>4
<1>7. CASE /\ clock' = clock /\ \E n \in fetch[t].todo : files' = [files EXCEPT ![n] = Absent]
  <2>1. PICK n \in Names : files' = [files EXCEPT ![n] = [at |-> 0, body |-> "none"]]
    BY <1>1, <1>7 DEF Absent
  <2>2. FilesTimed([files EXCEPT ![n] = [at |-> 0, body |-> "none"]], clock')
    BY <1>1, <1>2, <1>3, StoreTimed
  <2>3. FilesTimed(files', clock')
    BY <2>1, <2>2
  <2>4. TimedBy(t)
    BY <1>1, <2>1 DEF TimedBy
  <2> QED BY <1>3, <2>3, <2>4
<1> QED BY <1>4, <1>5, <1>6, <1>7, FileSteps

(* Every step of a thread leaves each file, and each about to be renamed, its own time. *)
LEMMA TimesStep == ASSUME Inv, Times, NEW t \in Threads, Step(t) PROVE Times'
<1>1. clock \in Nat /\ \A n \in Names : files[n].at \in Nat
  BY Typed
<1>2. \A s \in Threads : s # t => fetch'[s] = fetch[s]
  BY OthersGoOn
<1>3. /\ clock' \in {clock, clock + 1}
      /\ fetch'[t].pc = "rename" =>
              /\ fetch[t].pc = "write" /\ fetch'[t].at = clock /\ clock' = clock + 1
              /\ files' = files
  BY RenameSteps
<1>4. ASSUME NEW s \in Threads, fetch'[s].pc = "rename"
      PROVE  /\ fetch'[s].at < clock' /\ fetch'[s].at # 0
             /\ \A n \in Names : files'[n].at # fetch'[s].at
  <2>1. CASE s = t
    BY <1>1, <1>3, <1>4, <2>1 DEF Times
  <2>2. CASE s # t
    <3>1. fetch'[s] = fetch[s] /\ fetch[s].pc = "rename"
      BY <1>2, <1>4, <2>2
    <3>2. /\ fetch[s].at < clock /\ fetch[s].at # 0 /\ fetch[s].at \in Nat
          /\ \A n \in Names : files[n].at # fetch[s].at
          /\ fetch[t].pc = "rename" => fetch[t].at # fetch[s].at
      BY <2>2, <3>1, Typed DEF Times
    <3>3. TimedBy(t)
      BY TimesOfFiles
    <3>4. \A n \in Names : files'[n].at # fetch[s].at
      BY <1>1, <3>2, <3>3 DEF TimedBy
    <3> QED BY <1>1, <1>3, <3>1, <3>2, <3>4
  <2> QED BY <2>1, <2>2
<1>5. ASSUME NEW r \in Threads, NEW s \in Threads, r # s,
             fetch'[r].pc = "rename", fetch'[s].pc = "rename"
      PROVE  fetch'[r].at # fetch'[s].at
  <2>1. CASE r # t /\ s # t
    BY <1>2, <1>5, <2>1 DEF Times
  <2>2. ASSUME NEW q \in Threads, q # t, fetch'[q].pc = "rename", fetch'[t].pc = "rename"
        PROVE  fetch'[q].at # fetch'[t].at
    <3>1. fetch'[q] = fetch[q] /\ fetch'[t].at = clock
      BY <1>2, <1>3, <2>2
    <3>2. fetch[q].at < clock /\ fetch[q].at \in Nat
      BY <2>2, <3>1, Typed DEF Times
    <3> QED BY <1>1, <3>1, <3>2
  <2> QED BY <1>5, <2>1, <2>2
<1>6. clock' > 0 /\ FilesTimed(files', clock')
  BY TimesOfFiles
<1> QED BY <1>4, <1>5, <1>6 DEF Times, FilesTimed, Present

Prunes == {"stat", "unlink"}

\* After the step the thread is outside of a prune, and has seen nothing for one.
Elsewhere(t) ==
  /\ fetch'[t].pc \notin Prunes
  /\ fetch'[t].seen = Unseen \/ (fetch[t].pc \notin Prunes /\ fetch'[t].seen = fetch[t].seen)

(* What a step of a thread does to its own prune. *)
LEMMA PruneSteps ==
  ASSUME Inv, NEW t \in Threads, Step(t)
  PROVE  \/ Elsewhere(t)
         \/ List(t) /\ fetch[t].pc = "list" /\ fetch'[t].pc = "stat" /\ files' = files
            /\ fetch'[t].todo = Present /\ fetch'[t].seen = fetch[t].seen /\ UNCHANGED ghosts
            /\ fetch'[t].name = fetch[t].name
         \/ fetch[t].pc = "stat" /\ fetch'[t].pc = "stat" /\ files' = files /\ UNCHANGED ghosts
            /\ (\E n \in fetch[t].todo \cap Present :
                 /\ fetch'[t].todo = fetch[t].todo \ {n}
                 /\ fetch'[t].seen = [fetch[t].seen EXCEPT ![n] = files[n].at])
            /\ fetch'[t].name = fetch[t].name
         \/ fetch[t].pc = "stat" /\ fetch'[t].pc = "unlink" /\ files' = files /\ UNCHANGED ghosts
            /\ fetch[t].todo = {} /\ fetch'[t].todo = Stale(fetch[t].seen)
            /\ fetch'[t].seen = fetch[t].seen /\ fetch'[t].name = fetch[t].name
         \/ Unlink(t) /\ fetch[t].pc = "unlink" /\ fetch'[t].pc = "unlink" /\ Loses(t)
            /\ (\E n \in fetch[t].todo :
                 /\ files' = [files EXCEPT ![n] = Absent]
                 /\ fetch'[t].todo = fetch[t].todo \ {n})
            /\ fetch'[t].seen = fetch[t].seen /\ fetch'[t].name = fetch[t].name
            /\ UNCHANGED <<got, alone>>
<1>1. fetch \in [Threads -> Fetch] /\ fetch[t] \in Fetch
  BY Typed
<1>2. CASE \E u \in Urls : Call(t, u)
  <2>1. PICK pc \in {"touch", "download"}, n \in Names :
          fetch' = [fetch EXCEPT ![t] = [Idle EXCEPT !.pc = pc, !.name = n]]
    BY <1>2 DEF Call, Present, Names
  <2>2. fetch'[t].pc = pc /\ fetch'[t].seen = Unseen
    BY <1>1, <2>1 DEF Idle
  <2> QED BY <2>2 DEF Elsewhere, Prunes
<1>3. ASSUME Returns(t, fetch[t].name) \/ Raises(t)
      PROVE  Elsewhere(t)
  BY <1>1, <1>3 DEF Returns, Raises, Idle, Elsewhere, Prunes
<1>4. CASE Touch(t) \/ Answer(t) \/ DiskFails(t)
  <2>1. Returns(t, fetch[t].name) \/ Raises(t)
    BY <1>4 DEF Touch, Answer, DiskFails
  <2> QED BY <1>3, <2>1
<1>5. CASE Download(t)
  <2>1. CASE Raises(t)
    BY <1>3, <2>1
  <2>2. CASE Goto(t, "write")
    BY <1>1, <1>5, <2>2 DEF Goto, Download, Fetch, Elsewhere, Prunes
  <2> QED BY <1>5, <2>1, <2>2 DEF Download
<1>6. CASE Write(t)
  BY <1>1, <1>6 DEF Write, Fetch, Elsewhere, Prunes
<1>7. CASE Rename(t)
  BY <1>1, <1>7 DEF Rename, Goto, Fetch, Elsewhere, Prunes
<1>8. CASE List(t)
  <2>1. fetch[t].pc = "list" /\ fetch' = [fetch EXCEPT ![t].pc = "stat", ![t].todo = Present]
        /\ files' = files /\ UNCHANGED ghosts
    BY <1>8 DEF List
  <2>2. fetch'[t].pc = "stat" /\ fetch'[t].todo = Present /\ fetch'[t].seen = fetch[t].seen
        /\ fetch'[t].name = fetch[t].name
    BY <1>1, <2>1 DEF Fetch
  <2> QED BY <1>8, <2>1, <2>2
<1>9. CASE Stat(t)
  <2>1. fetch[t].pc = "stat" /\ files' = files
    BY <1>9 DEF Stat
  <2>2. CASE Raises(t)
    BY <1>3, <2>2
  <2>3. ASSUME NEW n \in fetch[t].todo, n \in Present, UNCHANGED ghosts,
               fetch' = [fetch EXCEPT ![t].todo = @ \ {n}, ![t].seen[n] = files[n].at]
        PROVE  /\ fetch'[t].pc = "stat" /\ fetch'[t].todo = fetch[t].todo \ {n}
               /\ fetch'[t].seen = [fetch[t].seen EXCEPT ![n] = files[n].at]
               /\ fetch'[t].name = fetch[t].name
    BY <1>1, <2>1, <2>3 DEF Fetch
  <2> QED BY <1>9, <2>1, <2>2, <2>3 DEF Stat
<1>10. CASE Sort(t)
  <2>1. fetch[t].pc = "stat" /\ fetch[t].todo = {} /\ files' = files /\ UNCHANGED ghosts
        /\ fetch' = [fetch EXCEPT ![t].pc = "unlink", ![t].todo = Stale(fetch[t].seen)]
    BY <1>10 DEF Sort
  <2>2. fetch'[t].pc = "unlink" /\ fetch'[t].todo = Stale(fetch[t].seen)
        /\ fetch'[t].seen = fetch[t].seen /\ fetch'[t].name = fetch[t].name
    BY <1>1, <2>1 DEF Fetch
  <2> QED BY <2>1, <2>2
<1>11. CASE Unlink(t)
  <2>1. PICK n \in fetch[t].todo : /\ files' = [files EXCEPT ![n] = Absent]
                                   /\ fetch' = [fetch EXCEPT ![t].todo = @ \ {n}]
    BY <1>11 DEF Unlink
  <2>2. fetch[t].pc = "unlink" /\ Loses(t) /\ UNCHANGED <<got, alone>>
    BY <1>11 DEF Unlink
  <2>3. fetch'[t].pc = fetch[t].pc /\ fetch'[t].todo = fetch[t].todo \ {n}
        /\ fetch'[t].seen = fetch[t].seen /\ fetch'[t].name = fetch[t].name
    BY <1>1, <2>1 DEF Fetch
  <2> QED BY <1>11, <2>1, <2>2, <2>3
<1>12. CASE StartPlaylist(t)
  BY <1>12 DEF StartPlaylist, Elsewhere, Prunes
<1> QED BY <1>2, <1>4, <1>5, <1>6, <1>7, <1>8, <1>9, <1>10, <1>11, <1>12 DEF Step

\* A file is as new as the prune saw it, or another call made it older or took it away.
Kept(t, m) == fetch[t].seen[m] <= files[m].at \/ m \in lost[t]

\* What a prune has looked at since its listing, and what it will remove.
Looked ==
  \A t \in Threads :
    /\ fetch[t].pc \notin Prunes => fetch[t].seen = Unseen
    /\ fetch[t].pc = "stat" => \A m \in Names : Kept(t, m)
    /\ fetch[t].pc = "unlink" =>
         /\ fetch[t].todo \subseteq Stale(fetch[t].seen)
         /\ \A m \in Names \ Stale(fetch[t].seen) : Kept(t, m)

(* What another thread makes older or removes is lost to the prune under way. *)
LEMMA KeptBesideOthers ==
  ASSUME Inv, Times, NEW s \in Threads, Step(s), NEW t \in Threads, t # s,
         fetch[t].pc \in Prunes, NEW m \in Names, Kept(t, m)
  PROVE  Kept(t, m)'
<1>1. fetch'[t] = fetch[t] /\ fetch[t].seen[m] \in Nat /\ files[m].at \in Nat
      /\ files[m].at < clock /\ lost \in [Threads -> SUBSET Names]
      /\ lost' \in [Threads -> SUBSET Names] /\ files'[m].at \in Nat
  BY OthersGoOn, Typed, StepInv DEF Times, Inv, TypeOK
<1>2. files[m].at <= files'[m].at \/ Loses(s)
  <2>1. CASE files' = files
    BY <1>1, <2>1
  <2>2. CASE /\ fetch[s].pc = "touch"
             /\ \E body \in {"whole", "half", "empty"} :
                  files' = [files EXCEPT ![fetch[s].name] = [at |-> clock, body |-> body]]
    <3>1. fetch[s].name \in Names
      BY <2>2, Typed
    <3>2. PICK body \in {"whole", "half", "empty"} :
            files' = [files EXCEPT ![fetch[s].name] = [at |-> clock, body |-> body]]
      BY <2>2
    <3>3. files'[m].at = files[m].at \/ files'[m].at = clock
      BY <3>1, <3>2, Typed
    <3> QED BY <1>1, <3>3, Typed
  <2> QED BY <2>1, <2>2, FileSteps
<1>3. lost[t] \subseteq lost'[t]
  <2>1. CASE lost' = lost \/ lost' = [lost EXCEPT ![s] = {}]
    BY <1>1, <2>1
  <2>2. CASE Loses(s)
    BY <1>1, <2>2 DEF Loses
  <2>3. Loses(s) \/ lost' = lost \/ lost' = [lost EXCEPT ![s] = {}]
    BY DEF Step, Call, Touch, Download, Write, DiskFails, Rename, List, Stat, Sort, Unlink,
           Answer, StartPlaylist, Returns, Raises, ghosts
  <2> QED BY <2>1, <2>2, <2>3
<1>4. Loses(s) => files[m].at <= files'[m].at \/ m \in lost'[t]
  <2>1. SUFFICES ASSUME Loses(s), ~ (files[m].at <= files'[m].at) PROVE m \in lost'[t]
    OBVIOUS
  <2>2. files'[m].at < files[m].at
    BY <1>1, <2>1
  <2>3. lost'[t] = lost[t] \cup {n \in Names : files'[n].at < files[n].at}
    BY <2>1 DEF Loses, Prunes
  <2> QED BY <2>2, <2>3
<1>5. CASE m \in lost'[t]
  BY <1>5 DEF Kept
<1>6. CASE m \notin lost'[t]
  <2>1. fetch[t].seen[m] <= files[m].at /\ files[m].at <= files'[m].at
    BY <1>2, <1>3, <1>4, <1>6 DEF Kept
  <2> QED BY <1>1, <2>1 DEF Kept
<1> QED BY <1>5, <1>6

(* A prune takes the times it reads for true until another call makes them older. *)
LEMMA LookedStep == ASSUME Inv, Times, Looked, NEW s \in Threads, Step(s) PROVE Looked'
<1> SUFFICES ASSUME NEW t \in Threads
             PROVE  /\ fetch'[t].pc \notin Prunes => fetch'[t].seen = Unseen
                    /\ fetch'[t].pc = "stat" => \A m \in Names : Kept(t, m)'
                    /\ fetch'[t].pc = "unlink" =>
                         /\ fetch'[t].todo \subseteq Stale(fetch'[t].seen)
                         /\ \A m \in Names \ Stale(fetch'[t].seen) : Kept(t, m)'
  BY DEF Looked
<1>1. CASE t # s
  <2>1. fetch'[t] = fetch[t]
    BY <1>1, OthersGoOn
  <2>2. \A m \in Names : fetch[t].pc \in Prunes /\ Kept(t, m) => Kept(t, m)'
    BY <1>1, KeptBesideOthers
  <2> QED BY <2>1, <2>2 DEF Looked, Prunes
<1>2. CASE t = s
  <2>1. /\ fetch[t].seen \in [Names -> Nat] /\ \A m \in Names : files[m].at \in Nat
        /\ fetch[t].todo \subseteq Names
    BY Typed
  <2>2. /\ fetch[t].pc \notin Prunes => fetch[t].seen = Unseen
        /\ fetch[t].pc = "stat" => \A m \in Names : Kept(t, m)
        /\ fetch[t].pc = "unlink" =>
             /\ fetch[t].todo \subseteq Stale(fetch[t].seen)
             /\ \A m \in Names \ Stale(fetch[t].seen) : Kept(t, m)
    BY DEF Looked
  <2>3. CASE Elsewhere(t)
    BY <2>2, <2>3 DEF Elsewhere, Prunes
  <2>4. CASE fetch[t].pc = "list" /\ fetch'[t].pc = "stat" /\ files' = files
             /\ fetch'[t].seen = fetch[t].seen
    <3>1. fetch'[t].seen = Unseen
      BY <2>2, <2>4 DEF Prunes
    <3>2. \A m \in Names : Kept(t, m)'
      BY <2>1, <2>4, <3>1 DEF Kept, Unseen
    <3> QED BY <2>4, <3>2 DEF Prunes
  <2>5. CASE fetch[t].pc = "stat" /\ fetch'[t].pc = "stat" /\ files' = files /\ UNCHANGED ghosts
             /\ \E n \in fetch[t].todo \cap Present :
                  fetch'[t].seen = [fetch[t].seen EXCEPT ![n] = files[n].at]
    <3>1. PICK n \in Names : fetch'[t].seen = [fetch[t].seen EXCEPT ![n] = files[n].at]
      BY <2>1, <2>5
    <3>2. ASSUME NEW m \in Names PROVE Kept(t, m)'
      <4>1. Kept(t, m) /\ lost' = lost /\ files' = files
        BY <2>2, <2>5 DEF ghosts
      <4>2. CASE m = n
        BY <2>1, <3>1, <4>1, <4>2 DEF Kept
      <4>3. CASE m # n
        <5>1. fetch'[t].seen[m] = fetch[t].seen[m]
          BY <2>1, <3>1, <4>3
        <5> QED BY <4>1, <5>1 DEF Kept
      <4> QED BY <4>2, <4>3
    <3> QED BY <2>5, <3>2 DEF Prunes
  <2>6. CASE fetch[t].pc = "stat" /\ fetch'[t].pc = "unlink" /\ files' = files /\ UNCHANGED ghosts
             /\ fetch'[t].todo = Stale(fetch[t].seen) /\ fetch'[t].seen = fetch[t].seen
    <3>1. \A m \in Names : Kept(t, m)'
      BY <2>2, <2>6 DEF Kept, ghosts
    <3> QED BY <2>6, <3>1 DEF Prunes
  <2>7. CASE /\ fetch[t].pc = "unlink" /\ fetch'[t].pc = "unlink" /\ Loses(t)
             /\ fetch'[t].seen = fetch[t].seen
             /\ \E n \in fetch[t].todo :
                  /\ files' = [files EXCEPT ![n] = Absent]
                  /\ fetch'[t].todo = fetch[t].todo \ {n}
    <3>1. PICK n \in fetch[t].todo :
                  /\ files' = [files EXCEPT ![n] = Absent]
                  /\ fetch'[t].todo = fetch[t].todo \ {n}
      BY <2>7
    <3>2. lost'[t] = lost[t]
      <4>1. t \in Threads /\ Loses(t)
        BY <2>7
      <4> QED BY <4>1 DEF Loses
    <3>3. ASSUME NEW m \in Names \ Stale(fetch'[t].seen) PROVE Kept(t, m)'
      <4>1. m # n /\ Kept(t, m)
        BY <2>2, <2>7
      <4>2. files'[m] = files[m]
        BY <3>1, <4>1, Typed
      <4> QED BY <2>7, <3>2, <4>1, <4>2 DEF Kept
    <3>4. fetch'[t].todo \subseteq Stale(fetch'[t].seen)
      BY <2>2, <2>7, <3>1
    <3> QED BY <2>7, <3>3, <3>4 DEF Prunes
  <2> QED BY <1>2, <2>3, <2>4, <2>5, <2>6, <2>7, PruneSteps
<1> QED BY <1>1, <1>2

(* A kill ends all prunes and leaves the times alone. *)
LEMMA CrashLooked == ASSUME Inv, Times, Looked, Crash PROVE Times' /\ Looked'
<1>1. \A t \in Threads : fetch'[t] = Idle
  BY DEF Crash
<1>2. Times'
  BY <1>1 DEF Crash, Times, Present, Idle
<1>3. Looked'
  BY <1>1 DEF Looked, Idle, Prunes
<1> QED BY <1>2, <1>3

(* An empty directory has no times to confuse. *)
LEMMA InitLooked == Init => Times /\ Looked
<1> SUFFICES ASSUME Init PROVE Times /\ Looked
  OBVIOUS
<1>1. Times
  BY DEF Init, Times, Absent, Present, Idle
<1>2. Looked
  BY DEF Init, Looked, Idle, Prunes
<1> QED BY <1>1, <1>2

(* What PruneTakesOldest says of one step. *)
TakesOldest ==
  \A n \in Present \ Present' :
       \E t \in Threads :
         /\ n \in fetch[t].todo \ fetch'[t].todo
         /\ files[n].at = fetch[t].seen[n] =>
              Cardinality({m \in Names \ {n} : files[m].at > files[n].at \/ m \in lost[t]})
                >= CacheFiles

(* Only the removal in a prune takes a file away, and it takes a stale one. *)
LEMMA StepTakesOldest ==
  ASSUME Inv, Looked, NEW t \in Threads, Step(t) PROVE TakesOldest
<1> SUFFICES ASSUME NEW n \in Present, n \notin Present'
             PROVE  /\ n \in fetch[t].todo \ fetch'[t].todo
                    /\ files[n].at = fetch[t].seen[n] =>
                         Cardinality({m \in Names \ {n} : files[m].at > files[n].at \/ m \in lost[t]})
                           >= CacheFiles
  BY DEF TakesOldest
<1>1. n \in Names /\ files[n].body # "none" /\ ~ (files'[n].body # "none")
  BY DEF Present
<1>2. Unlink(t)
  <2>1. files' # files
    BY <1>1
  <2>2. ASSUME NEW k \in Names, NEW at, NEW body \in {"whole", "half", "empty"},
               files' = [files EXCEPT ![k] = [at |-> at, body |-> body]]
        PROVE  FALSE
    <3>1. files'[n].body = files[n].body \/ files'[n].body = body
      BY <1>1, <2>2, Typed
    <3> QED BY <1>1, <3>1
  <2>3. Touch(t) => FALSE
    <3> SUFFICES ASSUME Touch(t) PROVE FALSE
      OBVIOUS
    <3> DEFINE body == IF fetch[t].name \in Present THEN files[fetch[t].name].body ELSE "empty"
    <3>1. fetch[t].name \in Names
      BY Typed DEF Touch
    <3>2. body \in {"whole", "half", "empty"}
      BY <3>1, Typed DEF Present
    <3>3. files' = [files EXCEPT ![fetch[t].name] = [at |-> clock, body |-> body]]
      BY DEF Touch, Store
    <3> HIDE DEF body
    <3> QED BY <2>2, <3>1, <3>2, <3>3
  <2>4. Rename(t) => FALSE
    <3> SUFFICES ASSUME Rename(t) PROVE FALSE
      OBVIOUS
    <3>1. /\ fetch[t].name \in Names
          /\ files' = [files EXCEPT ![fetch[t].name] = [at |-> fetch[t].at, body |-> "whole"]]
      BY Typed DEF Rename, Store
    <3> QED BY <2>2, <3>1
  <2> QED BY <2>1, <2>3, <2>4 DEF Step, Call, Download, Write, DiskFails, List, Stat, Sort,
                                  Answer, StartPlaylist
<1>3. PICK k \in fetch[t].todo : /\ files' = [files EXCEPT ![k] = Absent]
                                 /\ fetch' = [fetch EXCEPT ![t].todo = @ \ {k}]
  BY <1>2 DEF Unlink
<1>4. k = n
  <2>1. k # n => files'[n] = files[n]
    BY <1>1, <1>3, Typed
  <2> QED BY <1>1, <2>1
<1>5. n \in fetch[t].todo \ fetch'[t].todo
  <2>1. fetch \in [Threads -> Fetch] /\ fetch[t] \in Fetch
    BY Typed
  <2>2. fetch'[t].todo = fetch[t].todo \ {n}
    BY <1>3, <1>4, <2>1 DEF Fetch
  <2> QED BY <1>3, <1>4, <2>2
<1>6. ASSUME files[n].at = fetch[t].seen[n]
      PROVE  Cardinality({m \in Names \ {n} : files[m].at > files[n].at \/ m \in lost[t]})
               >= CacheFiles
  <2> DEFINE S == Newer(fetch[t].seen, n) \ Stale(fetch[t].seen)
             T == {m \in Names \ {n} : files[m].at > files[n].at \/ m \in lost[t]}
  <2>1. n \in Stale(fetch[t].seen) /\ \A m \in Names \ Stale(fetch[t].seen) : Kept(t, m)
    BY <1>2, <1>3, <1>4 DEF Looked, Unlink
  <2>2. fetch[t].seen \in [Names -> Nat] /\ \A m \in Names : files[m].at \in Nat
    BY Typed
  <2>3. Cardinality(S) >= CacheFiles
    BY <2>1, <2>2, BehindThoseThatStay
  <2>4. ASSUME NEW m \in S PROVE m \in T
    <3>1. m \in Names /\ fetch[t].seen[m] > fetch[t].seen[n] /\ Kept(t, m)
      BY <2>1 DEF Newer
    <3>2. fetch[t].seen[m] \in Nat /\ files[m].at \in Nat /\ fetch[t].seen[n] \in Nat
      BY <1>1, <2>2, <3>1
    <3>3. m # n
      BY <3>1, <3>2
    <3>4. files[m].at > files[n].at \/ m \in lost[t]
      BY <1>6, <3>1, <3>2 DEF Kept
    <3> QED BY <3>1, <3>3, <3>4
  <2>5. S \in SUBSET T /\ T \in SUBSET Names /\ S \in SUBSET Names
    BY <2>4 DEF Newer
  <2>6. Cardinality(S) <= Cardinality(T) /\ Cardinality(S) \in Nat /\ Cardinality(T) \in Nat
    BY <2>5, SetsOfNames, FS_Subset
  <2>7. CacheFiles \in Nat
    BY CacheAssumption
  <2>8. Cardinality(T) >= CacheFiles
    <3> HIDE DEF S, T
    <3> QED BY <2>3, <2>6, <2>7
  <2> QED BY <2>8
<1> QED BY <1>5, <1>6

\* What prunes rely on, however many run at once.
PruneInv == Inv /\ Times /\ Looked

(* It holds from the start on. *)
LEMMA PruneInvHolds ==
  /\ Init => PruneInv
  /\ PruneInv /\ [Next]_vars => PruneInv'
<1>1. Init => PruneInv
  BY InitInv, InitLooked DEF PruneInv
<1>2. ASSUME PruneInv, [Next]_vars PROVE PruneInv'
  <2>1. CASE UNCHANGED vars
    BY <1>2, <2>1 DEF vars, PruneInv, Inv, TypeOK, NeverHalf, Present, Named, Times, Looked, Kept
  <2>2. CASE Crash
    BY <1>2, <2>2, CrashInv, CrashLooked DEF PruneInv
  <2>3. ASSUME NEW t \in Threads, Step(t) PROVE PruneInv'
    BY <1>2, <2>3, StepInv, TimesStep, LookedStep DEF PruneInv
  <2> QED BY <1>2, <2>1, <2>2, <2>3 DEF Next
<1> QED BY <1>1, <1>2

(* However many prunes run at once (remote.py:170-181): each removes only what lies
   behind CACHE_FILES others that stay, but for those another call took away or
   dated back under its hands. *)
THEOREM PruneCorrect == Spec => PruneTakesOldest
<1>1. PruneInv /\ [Next]_vars => [TakesOldest]_vars
  <2> SUFFICES ASSUME PruneInv, Next PROVE TakesOldest
    OBVIOUS
  <2>1. CASE Crash
    BY <2>1 DEF Crash, TakesOldest, Present
  <2> QED BY <2>1, StepTakesOldest DEF Next, PruneInv
<1>2. [][TakesOldest]_vars => PruneTakesOldest
  BY DEF PruneTakesOldest, TakesOldest
<1> QED BY <1>1, <1>2, PruneInvHolds, PTL DEF Spec

-----------------------------------------------------------------------------
(* A request that nobody fetches beside. *)

\* The thread is in a request that nobody has fetched beside.
Solo(t) == alone[t] /\ (fetch[t].pc # "idle" \/ got[t] # {})

\* The names the request has had, the one under way included.
Needed(t) == IF fetch[t].pc = "idle" THEN got[t] ELSE got[t] \cup {fetch[t].name}

\* What it was answered is there, and everything else is older.
Safe(t) ==
  Cardinality(Needed(t)) <= MaxItems =>
    /\ got[t] \subseteq Present
    /\ \A g \in got[t], m \in Names \ Needed(t) : files[m].at < files[g].at

\* The file just stored is there, and the newest.
Newest(t) ==
  /\ fetch[t].name \in Present
  /\ \A m \in Names \ {fetch[t].name} : files[m].at < files[fetch[t].name].at

\* By itself a prune sees the directory as it is ...
SeesAll(t) ==
  /\ fetch[t].todo \subseteq Present
  /\ \A m \in Names : /\ fetch[t].seen[m] # 0 => fetch[t].seen[m] = files[m].at
                      /\ m \in Present => m \in fetch[t].todo \/ fetch[t].seen[m] # 0

\* ... and removes from it what is too old, which nothing of the request is.
RemovesStale(t) ==
  LET seen == fetch[t].seen IN
  /\ \A m \in Names : m \in Present <=> seen[m] # 0 /\ (m \notin Stale(seen) \/ m \in fetch[t].todo)
  /\ \A m, n \in Names : seen[m] = seen[n] /\ m # n => seen[m] = 0
  /\ fetch[t].name \notin Stale(seen)
  /\ Cardinality(Needed(t)) <= MaxItems => got[t] \cap Stale(seen) = {}

SoloShape(t) ==
  /\ \A s \in Threads \ {t} : fetch[s].pc = "idle"
  /\ Safe(t)
  /\ fetch[t].pc = "touch" => fetch[t].name \in Present
  /\ fetch[t].pc = "rename" => \A m \in Names : files[m].at < fetch[t].at
  /\ fetch[t].pc \in {"list", "stat", "unlink"} => Newest(t)
  /\ fetch[t].pc = "stat" => SeesAll(t)
  /\ fetch[t].pc = "unlink" => RemovesStale(t)

SoloInv == \A t \in Threads : Solo(t) => SoloShape(t)

(* The only step another thread can take beside a request that stays by itself. *)
LEMMA SoloBesideOthers ==
  ASSUME Inv, SoloInv, NEW s \in Threads, Step(s), NEW t \in Threads, t # s, Solo(t)'
  PROVE  SoloShape(t)'
<1>1. fetch'[t] = fetch[t] /\ got'[t] = got[t]
  BY OthersGoOn
<1>2. \A u \in Urls : ~ Call(s, u)
  <2> SUFFICES ASSUME NEW u \in Urls, Call(s, u) PROVE FALSE
    OBVIOUS
  <2>1. alone'[t] => fetch[t].pc = "idle" /\ got[t] = {}
    BY DEF Call
  <2> QED BY <1>1, <2>1 DEF Solo
<1>3. alone'[t] = alone[t]
  BY <1>2 DEF Step, Touch, Download, Write, DiskFails, Rename, List, Stat, Sort, Unlink, Answer,
              StartPlaylist, Returns, Raises, ghosts
<1>4. Solo(t) /\ SoloShape(t)
  BY <1>1, <1>3 DEF Solo, SoloInv
<1>5. fetch[s].pc = "idle"
  BY <1>4 DEF SoloShape
<1>6. StartPlaylist(s)
  BY <1>2, <1>5 DEF Step, Touch, Download, Write, DiskFails, Rename, List, Stat, Sort, Unlink, Answer
<1>7. fetch' = fetch /\ files' = files
  BY <1>6 DEF StartPlaylist
<1> QED BY <1>1, <1>4, <1>7 DEF SoloShape, Safe, Needed, Newest, SeesAll, RemovesStale, Present

(* A request that goes on by itself was by itself before, unless it just called. *)
LEMMA SoloBefore ==
  ASSUME Inv, SoloInv, NEW t \in Threads, Step(t), \A u \in Urls : ~ Call(t, u), Solo(t)'
  PROVE  Solo(t) /\ SoloShape(t)
<1>1. alone'[t] = alone[t]
  BY DEF Step, Touch, Download, Write, DiskFails, Rename, List, Stat, Sort, Unlink, Answer,
         StartPlaylist, Returns, Raises, ghosts
<1>2. fetch[t].pc # "idle" \/ got[t] # {}
  BY DEF Step, Touch, Download, Write, DiskFails, Rename, List, Stat, Sort, Unlink, Answer,
         StartPlaylist
<1> QED BY <1>1, <1>2 DEF Solo, SoloInv

(* One thread sets no other going. *)
LEMMA OthersStayIdle ==
  ASSUME Inv, NEW t \in Threads, Step(t), \A s \in Threads \ {t} : fetch[s].pc = "idle"
  PROVE  \A s \in Threads \ {t} : fetch'[s].pc = "idle"
BY OthersGoOn

(* A request that gives up is none any more. *)
LEMMA RaisedIsOver ==
  ASSUME Inv, NEW t \in Threads, Raises(t) PROVE ~ Solo(t)'
<1>1. fetch'[t].pc = "idle" /\ got'[t] = {}
  BY Typed DEF Raises, Idle
<1> QED BY <1>1 DEF Solo

(* As long as no file and no name changes, nothing becomes unsafe. *)
LEMMA StaysSafe ==
  ASSUME NEW t \in Threads, Safe(t), fetch[t].pc # "idle",
         fetch'[t].name = fetch[t].name, fetch'[t].pc # "idle", UNCHANGED <<files, got>>
  PROVE  Safe(t)'
BY DEF Safe, Needed, Present

(* A request that calls while nobody else does is by itself from then on. *)
LEMMA CallSolo ==
  ASSUME Inv, SoloInv, NEW t \in Threads, NEW u \in Urls, Call(t, u), Step(t), Solo(t)'
  PROVE  SoloShape(t)'
<1>1. /\ \A r \in Threads \ {t} : fetch[r].pc = "idle"
      /\ got[t] = {} \/ alone[t]
      /\ files' = files /\ got' = got /\ fetch[t].pc = "idle"
  BY Typed DEF Call, Solo
<1>2. PICK n \in Names :
        /\ fetch'[t].name = n /\ fetch'[t].pc \in {"touch", "download"}
        /\ fetch'[t].pc = "touch" => n \in Present
  <2>1. CASE \E n \in Present : fetch' = [fetch EXCEPT ![t] = [Idle EXCEPT !.pc = "touch", !.name = n]]
    <3>1. PICK n \in Present : fetch' = [fetch EXCEPT ![t] = [Idle EXCEPT !.pc = "touch", !.name = n]]
      BY <2>1
    <3>2. fetch'[t] = [Idle EXCEPT !.pc = "touch", !.name = n] /\ n \in Names
      BY <3>1, Typed DEF Present
    <3> QED BY <3>2 DEF Idle
  <2>2. CASE \E n \in Names : fetch' = [fetch EXCEPT ![t] = [Idle EXCEPT !.pc = "download", !.name = n]]
    <3>1. PICK n \in Names : fetch' = [fetch EXCEPT ![t] = [Idle EXCEPT !.pc = "download", !.name = n]]
      BY <2>2
    <3>2. fetch'[t] = [Idle EXCEPT !.pc = "download", !.name = n]
      BY <3>1, Typed
    <3> QED BY <3>2 DEF Idle
  <2> QED BY <2>1, <2>2 DEF Call, Names
<1>3. Safe(t)'
  <2>1. CASE got[t] = {}
    BY <1>1, <2>1 DEF Safe
  <2>2. CASE got[t] # {}
    <3>1. Safe(t) /\ Needed(t) = got[t]
      BY <1>1, <2>2 DEF SoloInv, SoloShape, Solo, Needed
    <3>2. Needed(t)' = got[t] \cup {n}
      BY <1>1, <1>2 DEF Needed
    <3>3. Cardinality(got[t]) <= Cardinality(got[t] \cup {n})
          /\ Cardinality(got[t]) \in Nat /\ Cardinality(got[t] \cup {n}) \in Nat
      <4>1. got[t] \cup {n} \in SUBSET Names /\ got[t] \in SUBSET (got[t] \cup {n})
            /\ got[t] \in SUBSET Names
        BY Typed
      <4> QED BY <4>1, SetsOfNames, FS_Subset
    <3>4. MaxItems \in Nat
      BY CacheAssumption
    <3>5. SUFFICES ASSUME Cardinality(got[t] \cup {n}) <= MaxItems
                   PROVE  got[t] \subseteq Present
                          /\ \A g \in got[t], m \in Names \ (got[t] \cup {n}) : files[m].at < files[g].at
      BY <1>1, <3>2 DEF Safe, Present
    <3>6. Cardinality(got[t]) <= MaxItems
      BY <3>3, <3>4, <3>5
    <3> QED BY <3>1, <3>6 DEF Safe
  <2> QED BY <2>1, <2>2
<1>4. fetch'[t].pc = "touch" => fetch'[t].name \in Present'
  BY <1>1, <1>2 DEF Present
<1>5. \A s \in Threads \ {t} : fetch'[s].pc = "idle"
  BY <1>1, OthersStayIdle
<1>6. fetch'[t].pc \notin {"rename", "list", "stat", "unlink"}
  BY <1>2
<1> QED BY <1>3, <1>4, <1>5, <1>6 DEF SoloShape

(* An answer whose file is the newest one joins the names that are safe. *)
LEMMA AnsweredIsSafe ==
  ASSUME Inv, NEW t \in Threads, Safe(t), fetch[t].pc # "idle", Returns(t, fetch[t].name),
         \A m \in Names \ {fetch[t].name} : files'[m] = files[m] /\ files'[m].at < files'[fetch[t].name].at,
         fetch[t].name \in Present'
  PROVE  Safe(t)'
<1> DEFINE n == fetch[t].name
<1>1. fetch'[t].pc = "idle" /\ got'[t] = got[t] \cup {n}
  BY Typed DEF Returns, Idle
<1>2. Needed(t) = got[t] \cup {n} /\ Needed(t)' = got[t] \cup {n}
  BY <1>1 DEF Needed
<1>3. SUFFICES ASSUME Cardinality(got[t] \cup {n}) <= MaxItems
               PROVE  /\ got[t] \cup {n} \subseteq Present'
                      /\ \A g \in got[t] \cup {n}, m \in Names \ (got[t] \cup {n}) :
                           files'[m].at < files'[g].at
  BY <1>1, <1>2 DEF Safe
<1>4. /\ got[t] \subseteq Present
      /\ \A g \in got[t], m \in Names \ (got[t] \cup {n}) : files[m].at < files[g].at
  BY <1>2, <1>3 DEF Safe
<1>5. got[t] \cup {n} \subseteq Present'
  BY <1>4 DEF Present
<1>6. ASSUME NEW g \in got[t] \cup {n}, NEW m \in Names \ (got[t] \cup {n})
      PROVE  files'[m].at < files'[g].at
  <2>1. g \in Names /\ files'[m] = files[m]
    BY <1>5 DEF Present
  <2>2. CASE g = n
    BY <2>2
  <2>3. CASE g # n
    <3>1. files'[g] = files[g] /\ files[m].at < files[g].at
      BY <1>4, <2>1, <2>3
    <3> QED BY <2>1, <3>1
  <2> QED BY <2>2, <2>3
<1> QED BY <1>5, <1>6

(* A hit makes the file the newest and the answer. *)
LEMMA TouchSolo ==
  ASSUME Inv, Times, NEW t \in Threads, Touch(t), Solo(t), SoloShape(t), Step(t)
  PROVE  SoloShape(t)'
<1> DEFINE n == fetch[t].name
<1>1. /\ fetch[t].pc = "touch" /\ Returns(t, n) /\ n \in Names /\ n \in Present
      /\ files' = [files EXCEPT ![n] = [at |-> clock, body |-> files[n].body]]
  BY Typed DEF Touch, Store, SoloShape
<1>2. /\ files'[n].at = clock /\ files'[n].body = files[n].body
      /\ \A m \in Names \ {n} : files'[m] = files[m]
  BY <1>1, Typed
<1>3. \A m \in Names \ {n} : files'[m] = files[m] /\ files'[m].at < files'[n].at
  BY <1>2 DEF Times
<1>4. n \in Present'
  BY <1>1, <1>2 DEF Present
<1>5. Safe(t)'
  BY <1>1, <1>3, <1>4, AnsweredIsSafe DEF SoloShape
<1>6. fetch'[t].pc = "idle"
  BY <1>1, Typed DEF Returns, Idle
<1> QED BY <1>5, <1>6, OthersStayIdle DEF SoloShape

(* A download changes nothing in the directory. *)
LEMMA DownloadSolo ==
  ASSUME Inv, NEW t \in Threads, Download(t), Solo(t), SoloShape(t), Step(t), Solo(t)'
  PROVE  SoloShape(t)'
<1>1. fetch[t].pc = "download" /\ Goto(t, "write") /\ UNCHANGED <<got, files>>
  BY RaisedIsOver DEF Download, ghosts
<1>2. fetch'[t].pc = "write" /\ fetch'[t].name = fetch[t].name
  BY <1>1, Typed DEF Goto, Fetch
<1>3. Safe(t)'
  BY <1>1, <1>2, StaysSafe DEF SoloShape
<1> QED BY <1>2, <1>3, OthersStayIdle DEF SoloShape

(* What is written is dated later than every file. *)
LEMMA WriteSolo ==
  ASSUME Inv, Times, NEW t \in Threads, Write(t), Solo(t), SoloShape(t), Step(t)
  PROVE  SoloShape(t)'
<1>1. /\ fetch[t].pc = "write" /\ UNCHANGED <<got, files>>
      /\ fetch' = [fetch EXCEPT ![t].pc = "rename", ![t].at = clock]
  BY DEF Write, ghosts
<1>2. fetch'[t].pc = "rename" /\ fetch'[t].name = fetch[t].name /\ fetch'[t].at = clock
  BY <1>1, Typed DEF Fetch
<1>3. Safe(t)'
  BY <1>1, <1>2, StaysSafe DEF SoloShape
<1>4. \A m \in Names : files'[m].at < fetch'[t].at
  BY <1>1, <1>2 DEF Times
<1> QED BY <1>2, <1>3, <1>4, OthersStayIdle DEF SoloShape

(* The file renamed is the newest. *)
LEMMA RenameSolo ==
  ASSUME Inv, Times, NEW t \in Threads, Rename(t), Solo(t), SoloShape(t), Step(t)
  PROVE  SoloShape(t)'
<1> DEFINE n == fetch[t].name
<1>1. /\ fetch[t].pc = "rename" /\ got' = got /\ n \in Names
      /\ files' = [files EXCEPT ![n] = [at |-> fetch[t].at, body |-> "whole"]]
      /\ Goto(t, "list")
  BY Typed DEF Rename, Store
<1>2. fetch'[t].pc = "list" /\ fetch'[t].name = n
  BY <1>1, Typed DEF Goto, Fetch
<1>3. /\ files'[n].at = fetch[t].at /\ files'[n].body = "whole"
      /\ \A m \in Names \ {n} : files'[m] = files[m]
  BY <1>1, Typed
<1>4. \A m \in Names : files[m].at < fetch[t].at
  BY <1>1 DEF SoloShape
<1>5. Newest(t)'
  <2>1. n \in Present'
    BY <1>1, <1>3 DEF Present
  <2> QED BY <1>2, <1>3, <1>4, <2>1 DEF Newest
<1>6. Safe(t)'
  <2>1. Needed(t)' = got[t] \cup {n} /\ Needed(t) = got[t] \cup {n}
    BY <1>1, <1>2 DEF Needed
  <2>2. SUFFICES ASSUME Cardinality(got[t] \cup {n}) <= MaxItems
                 PROVE  /\ got[t] \subseteq Present'
                        /\ \A g \in got[t], m \in Names \ (got[t] \cup {n}) :
                             files'[m].at < files'[g].at
    BY <1>1, <2>1 DEF Safe
  <2>3. /\ got[t] \subseteq Present
        /\ \A g \in got[t], m \in Names \ (got[t] \cup {n}) : files[m].at < files[g].at
    BY <2>1, <2>2 DEF Safe, SoloShape
  <2>4. got[t] \subseteq Present'
    BY <1>3, <2>3 DEF Present
  <2>5. ASSUME NEW g \in got[t], NEW m \in Names \ (got[t] \cup {n})
        PROVE  files'[m].at < files'[g].at
    <3>1. g \in Names /\ files'[m] = files[m]
      BY <1>3, <2>3 DEF Present
    <3>2. CASE g = n
      BY <1>3, <1>4, <3>1, <3>2
    <3>3. CASE g # n
      BY <1>3, <2>3, <3>1, <3>3
    <3> QED BY <3>2, <3>3
  <2> QED BY <2>4, <2>5
<1> QED BY <1>2, <1>5, <1>6, OthersStayIdle DEF SoloShape

(* The listing has every file there is. *)
LEMMA ListSolo ==
  ASSUME Inv, Looked, NEW t \in Threads, List(t), Solo(t), SoloShape(t), Step(t)
  PROVE  SoloShape(t)'
<1>1. /\ fetch[t].pc = "list" /\ UNCHANGED <<got, files>>
      /\ fetch' = [fetch EXCEPT ![t].pc = "stat", ![t].todo = Present]
  BY DEF List, ghosts
<1>2. /\ fetch'[t].pc = "stat" /\ fetch'[t].name = fetch[t].name /\ fetch'[t].todo = Present
      /\ fetch'[t].seen = fetch[t].seen
  BY <1>1, Typed DEF Fetch
<1>3. Safe(t)'
  BY <1>1, <1>2, StaysSafe DEF SoloShape
<1>4. Newest(t)'
  BY <1>1, <1>2 DEF SoloShape, Newest, Present
<1>5. SeesAll(t)'
  <2>1. fetch'[t].seen = Unseen
    BY <1>1, <1>2 DEF Looked, Prunes
  <2> QED BY <1>1, <1>2, <2>1 DEF SeesAll, Unseen, Present
<1> QED BY <1>2, <1>3, <1>4, <1>5, OthersStayIdle DEF SoloShape

(* Each time read is the one the file has and keeps. *)
LEMMA StatSolo ==
  ASSUME Inv, Times, NEW t \in Threads, Stat(t), Solo(t), SoloShape(t), Step(t), Solo(t)'
  PROVE  SoloShape(t)'
<1>1. fetch[t].pc = "stat" /\ files' = files
  BY DEF Stat
<1>2. PICK n \in fetch[t].todo :
        fetch' = [fetch EXCEPT ![t].todo = @ \ {n}, ![t].seen[n] = files[n].at] /\ got' = got
  BY RaisedIsOver DEF Stat, ghosts
<1>3. /\ fetch'[t].pc = "stat" /\ fetch'[t].name = fetch[t].name
      /\ fetch'[t].todo = fetch[t].todo \ {n}
      /\ fetch'[t].seen = [fetch[t].seen EXCEPT ![n] = files[n].at]
  BY <1>1, <1>2, Typed DEF Fetch
<1>4. Safe(t)'
  BY <1>1, <1>2, <1>3, StaysSafe DEF SoloShape
<1>5. Newest(t)'
  BY <1>1, <1>3 DEF SoloShape, Newest, Present
<1>6. SeesAll(t)'
  <2>1. SeesAll(t) /\ fetch[t].seen \in [Names -> Nat] /\ n \in Names /\ n \in Present
    BY <1>1, Typed DEF SoloShape, SeesAll
  <2>2. fetch'[t].todo \subseteq Present'
    BY <1>1, <1>3, <2>1 DEF SeesAll, Present
  <2>3. ASSUME NEW m \in Names
        PROVE  /\ fetch'[t].seen[m] # 0 => fetch'[t].seen[m] = files'[m].at
               /\ m \in Present' => m \in fetch'[t].todo \/ fetch'[t].seen[m] # 0
    <3>1. CASE m = n
      <4>1. fetch'[t].seen[m] = files[m].at /\ files[m].at # 0
        BY <1>3, <2>1, <3>1 DEF Times
      <4> QED BY <1>1, <4>1
    <3>2. CASE m # n
      <4>1. fetch'[t].seen[m] = fetch[t].seen[m]
        BY <1>3, <2>1, <3>2
      <4> QED BY <1>1, <1>3, <2>1, <3>2, <4>1 DEF SeesAll, Present
    <3> QED BY <3>1, <3>2
  <2> QED BY <2>2, <2>3 DEF SeesAll
<1> QED BY <1>3, <1>4, <1>5, <1>6, OthersStayIdle DEF SoloShape

(* With at most MAX_PLAYLIST_ITEMS names, and all that is newer than one of them
   among the names, the cache is large enough to keep it. *)
LEMMA NeededStays ==
  ASSUME NEW seen \in [Names -> Nat], NEW N \in SUBSET Names, Cardinality(N) <= MaxItems,
         NEW g \in N, Newer(seen, g) \subseteq N
  PROVE  g \notin Stale(seen)
<1>1. Newer(seen, g) \subseteq N \ {g}
  BY DEF Newer
<1>2. /\ Cardinality(N \ {g}) = Cardinality(N) - 1
      /\ Cardinality(N) \in Nat /\ Cardinality(N \ {g}) \in Nat
      /\ Cardinality(Newer(seen, g)) \in Nat
      /\ Cardinality(Newer(seen, g)) <= Cardinality(N \ {g})
  <2>1. N \ {g} \in SUBSET Names /\ Newer(seen, g) \in SUBSET Names
    BY DEF Newer
  <2> QED BY <1>1, <2>1, SetsOfNames, FS_RemoveElement, FS_Subset
<1>3. MaxItems \in Nat /\ CacheFiles \in Nat /\ MaxItems <= CacheFiles
  BY CacheAssumption
<1>4. ~ (Cardinality(Newer(seen, g)) >= CacheFiles)
  BY <1>2, <1>3
<1> QED BY <1>4 DEF Stale, Newer

(* Neither the file just stored nor a name of the request is among what goes. *)
LEMMA SortSolo ==
  ASSUME Inv, Times, NEW t \in Threads, Sort(t), Solo(t), SoloShape(t), Step(t)
  PROVE  SoloShape(t)'
<1> DEFINE n == fetch[t].name
           seen == fetch[t].seen
<1>1. /\ fetch[t].pc = "stat" /\ fetch[t].todo = {} /\ UNCHANGED <<got, files>>
      /\ fetch' = [fetch EXCEPT ![t].pc = "unlink", ![t].todo = Stale(fetch[t].seen)]
  BY DEF Sort, ghosts
<1>2. /\ fetch'[t].pc = "unlink" /\ fetch'[t].name = n /\ fetch'[t].seen = seen
      /\ fetch'[t].todo = Stale(seen)
  BY <1>1, Typed DEF Fetch
<1>3. Safe(t)'
  BY <1>1, <1>2, StaysSafe DEF SoloShape
<1>4. Newest(t)'
  BY <1>1, <1>2 DEF SoloShape, Newest, Present
<1>5. seen \in [Names -> Nat] /\ n \in Names /\ \A m \in Names : files[m].at \in Nat
  BY <1>1, Typed
<1>6. /\ \A m \in Names : m \in Present <=> seen[m] # 0
      /\ \A m \in Names : seen[m] = files[m].at
  <2>1. SeesAll(t)
    BY <1>1 DEF SoloShape
  <2>2. ASSUME NEW m \in Names PROVE (m \in Present <=> seen[m] # 0) /\ seen[m] = files[m].at
    BY <1>1, <2>1, <2>2 DEF SeesAll, Times
  <2> QED BY <2>2
<1>7. \A m, k \in Names : seen[m] = seen[k] /\ m # k => seen[m] = 0
  BY <1>6 DEF Times
<1>8. Newest(t) /\ Safe(t) /\ Needed(t) = got[t] \cup {n} /\ Needed(t)' = got[t] \cup {n}
  BY <1>1, <1>2 DEF SoloShape, Needed
<1>9. n \notin Stale(seen)
  <2>1. Newer(seen, n) = {}
    <3> SUFFICES ASSUME NEW m \in Newer(seen, n) PROVE FALSE
      OBVIOUS
    <3>1. m \in Names /\ files[m].at > files[n].at
      BY <1>5, <1>6 DEF Newer
    <3>2. m # n => files[m].at < files[n].at
      BY <1>8, <3>1 DEF Newest
    <3> QED BY <1>5, <3>1, <3>2
  <2>2. Cardinality(Newer(seen, n)) = 0
    BY <2>1, FS_EmptySet
  <2>3. CacheFiles \in Nat /\ CacheFiles # 0
    BY CacheAssumption
  <2> QED BY <2>2, <2>3 DEF Stale, Newer
<1>10. ASSUME Cardinality(got[t] \cup {n}) <= MaxItems, NEW g \in got[t] PROVE g \notin Stale(seen)
  <2>1. \A m \in Names \ (got[t] \cup {n}) : files[m].at < files[g].at
    BY <1>8, <1>10 DEF Safe
  <2>2. g \in Names /\ got[t] \cup {n} \in SUBSET Names
    BY <1>5, Typed
  <2>3. Newer(seen, g) \subseteq got[t] \cup {n}
    <3> SUFFICES ASSUME NEW m \in Newer(seen, g), m \notin got[t] \cup {n} PROVE FALSE
      OBVIOUS
    <3>1. m \in Names /\ files[m].at > files[g].at /\ files[m].at < files[g].at
      BY <1>5, <1>6, <2>1, <2>2 DEF Newer
    <3> QED BY <1>5, <2>2, <3>1
  <2> QED BY <1>5, <1>10, <2>2, <2>3, NeededStays
<1>11. RemovesStale(t)'
  <2>1. ASSUME NEW m \in Names
        PROVE m \in Present' <=> seen[m] # 0 /\ (m \notin Stale(seen) \/ m \in fetch'[t].todo)
    BY <1>1, <1>2, <1>6 DEF Present
  <2>2. got'[t] = got[t]
    BY <1>1
  <2>3. Cardinality(Needed(t)') <= MaxItems => got'[t] \cap Stale(seen) = {}
    BY <1>8, <1>10, <2>2
  <2> HIDE DEF seen, n
  <2> QED BY <1>2, <1>7, <1>9, <2>1, <2>3 DEF RemovesStale
<1> QED BY <1>2, <1>3, <1>4, <1>11, OthersStayIdle DEF SoloShape

(* What goes is none of them. *)
LEMMA UnlinkSolo ==
  ASSUME Inv, Looked, NEW t \in Threads, Unlink(t), Solo(t), SoloShape(t), Step(t)
  PROVE  SoloShape(t)'
<1> DEFINE n == fetch[t].name
           seen == fetch[t].seen
<1>1. PICK k \in fetch[t].todo :
        /\ files' = [files EXCEPT ![k] = Absent] /\ fetch' = [fetch EXCEPT ![t].todo = @ \ {k}]
  BY DEF Unlink
<1>2. fetch[t].pc = "unlink" /\ got' = got
  BY DEF Unlink
<1>3. /\ fetch'[t].pc = "unlink" /\ fetch'[t].name = n /\ fetch'[t].seen = seen
      /\ fetch'[t].todo = fetch[t].todo \ {k}
  BY <1>1, <1>2, Typed DEF Fetch
<1>4. /\ k \in Stale(seen) /\ k \in Names /\ n \in Names
      /\ files'[k].at = 0 /\ files'[k].body = "none"
      /\ \A m \in Names \ {k} : files'[m] = files[m]
  BY <1>1, <1>2, Typed DEF Looked, Absent
<1>5. Newest(t) /\ Safe(t) /\ RemovesStale(t)
  BY <1>2 DEF SoloShape
<1>6. k # n
  BY <1>4, <1>5 DEF RemovesStale
<1>7. /\ \A m \in Names : m \in Present' <=> m \in Present /\ m # k
      /\ \A m \in Names : files[m].at \in Nat
  BY <1>4, Typed DEF Present
<1>8. Newest(t)'
  <2>1. n \in Present' /\ files'[n] = files[n]
    BY <1>4, <1>5, <1>6, <1>7 DEF Newest
  <2>2. ASSUME NEW m \in Names \ {n} PROVE files'[m].at < files'[n].at
    <3>1. files[m].at < files[n].at /\ files[m].at \in Nat /\ files[n].at \in Nat
      BY <1>4, <1>5, <1>7 DEF Newest
    <3>2. CASE m = k
      BY <1>4, <2>1, <3>1, <3>2
    <3>3. CASE m # k
      BY <1>4, <2>1, <3>1, <3>3
    <3> QED BY <3>2, <3>3
  <2> QED BY <1>3, <2>1, <2>2 DEF Newest
<1>9. Needed(t) = got[t] \cup {n} /\ Needed(t)' = got[t] \cup {n} /\ got'[t] = got[t]
  BY <1>2, <1>3 DEF Needed
<1>10. RemovesStale(t)'
  <2>1. ASSUME NEW m \in Names
        PROVE m \in Present' <=> seen[m] # 0 /\ (m \notin Stale(seen) \/ m \in fetch'[t].todo)
    <3>1. m \in Present <=> seen[m] # 0 /\ (m \notin Stale(seen) \/ m \in fetch[t].todo)
      BY <1>5 DEF RemovesStale
    <3>2. CASE m = k
      BY <1>3, <1>4, <1>7, <3>2
    <3>3. CASE m # k
      BY <1>3, <1>7, <3>1, <3>3
    <3> QED BY <3>2, <3>3
  <2>2. /\ \A m, j \in Names : seen[m] = seen[j] /\ m # j => seen[m] = 0
        /\ n \notin Stale(seen)
        /\ Cardinality(got[t] \cup {n}) <= MaxItems => got[t] \cap Stale(seen) = {}
    BY <1>5, <1>9 DEF RemovesStale
  <2> HIDE DEF seen, n
  <2> QED BY <1>3, <1>9, <2>1, <2>2 DEF RemovesStale
<1>11. Safe(t)'
  <2>1. SUFFICES ASSUME Cardinality(got[t] \cup {n}) <= MaxItems
                 PROVE  /\ got[t] \subseteq Present'
                        /\ \A g \in got[t], m \in Names \ (got[t] \cup {n}) :
                             files'[m].at < files'[g].at
    BY <1>9 DEF Safe
  <2>2. /\ got[t] \subseteq Present /\ got[t] \cap Stale(seen) = {} /\ got[t] \subseteq Names
        /\ \A g \in got[t], m \in Names \ (got[t] \cup {n}) : files[m].at < files[g].at
    BY <1>5, <1>9, <2>1, Typed DEF Safe, RemovesStale
  <2>3. got[t] \subseteq Present'
    BY <1>4, <1>7, <2>2
  <2>4. ASSUME NEW g \in got[t], NEW m \in Names \ (got[t] \cup {n})
        PROVE  files'[m].at < files'[g].at
    <3>1. g # k /\ g \in Names /\ files[m].at < files[g].at
      BY <1>4, <2>2
    <3>2. files'[g] = files[g] /\ files[m].at \in Nat /\ files[g].at \in Nat
      BY <1>4, <1>7, <3>1
    <3>3. CASE m = k
      BY <1>4, <3>1, <3>2, <3>3
    <3>4. CASE m # k
      BY <1>4, <3>1, <3>2, <3>4
    <3> QED BY <3>3, <3>4
  <2> QED BY <2>3, <2>4
<1> QED BY <1>3, <1>8, <1>10, <1>11, OthersStayIdle DEF SoloShape

(* The file just stored joins the answers. *)
LEMMA AnswerSolo ==
  ASSUME Inv, NEW t \in Threads, Answer(t), Solo(t), SoloShape(t), Step(t)
  PROVE  SoloShape(t)'
<1>1. fetch[t].pc = "unlink" /\ Returns(t, fetch[t].name) /\ files' = files
  BY DEF Answer
<1>2. Newest(t) /\ Safe(t)
  BY <1>1 DEF SoloShape
<1>3. /\ fetch[t].name \in Present'
      /\ \A m \in Names \ {fetch[t].name} :
           files'[m] = files[m] /\ files'[m].at < files'[fetch[t].name].at
  BY <1>1, <1>2 DEF Newest, Present
<1>4. Safe(t)'
  BY <1>1, <1>2, <1>3, AnsweredIsSafe
<1>5. fetch'[t].pc = "idle"
  BY <1>1, Typed DEF Returns, Idle
<1> QED BY <1>4, <1>5, OthersStayIdle DEF SoloShape

(* Whoever steps, a request that is still by itself keeps its shape. *)
LEMMA SoloStep ==
  ASSUME Inv, Times, Looked, SoloInv, NEW s \in Threads, Step(s) PROVE SoloInv'
<1> SUFFICES ASSUME NEW t \in Threads, Solo(t)' PROVE SoloShape(t)'
  BY DEF SoloInv
<1>1. CASE t # s
  BY <1>1, SoloBesideOthers
<1>2. CASE t = s /\ \E u \in Urls : Call(s, u)
  BY <1>2, CallSolo
<1>3. CASE t = s /\ ~ \E u \in Urls : Call(s, u)
  <2>1. Solo(t) /\ SoloShape(t) /\ Step(t)
    BY <1>3, SoloBefore
  <2>2. ~ DiskFails(t)
    BY RaisedIsOver DEF DiskFails
  <2>3. ~ StartPlaylist(t)
    <3> SUFFICES ASSUME StartPlaylist(t) PROVE FALSE
      OBVIOUS
    <3>1. fetch'[t].pc = "idle" /\ got'[t] = {}
      BY Typed DEF StartPlaylist
    <3> QED BY <3>1 DEF Solo
  <2> QED BY <1>3, <2>1, <2>2, <2>3, TouchSolo, DownloadSolo, WriteSolo, RenameSolo, ListSolo,
             StatSolo, SortSolo, UnlinkSolo, AnswerSolo DEF Step
<1> QED BY <1>1, <1>2, <1>3

\* What AloneIsFound says of a thread in a step.
FoundAlone(t) ==
  alone[t] =>
       /\ fetch[t].pc # "idle" /\ fetch'[t].pc = "idle" /\ got'[t] # {} =>
            /\ fetch[t].name \in Present'
            /\ fetch[t].pc = "unlink" => Cardinality(Present') <= CacheFiles
       /\ fetch[t].pc = "idle" /\ got'[t] = {} => got[t] \subseteq Present

(* A request by itself finds its files, and leaves no more than CACHE_FILES. *)
LEMMA StepFinds ==
  ASSUME Inv, Times, SoloInv, NEW s \in Threads, Step(s), NEW t \in Threads
  PROVE  FoundAlone(t)
<1> SUFFICES ASSUME alone[t]
             PROVE  /\ fetch[t].pc # "idle" /\ fetch'[t].pc = "idle" /\ got'[t] # {} =>
                         /\ fetch[t].name \in Present'
                         /\ fetch[t].pc = "unlink" => Cardinality(Present') <= CacheFiles
                    /\ fetch[t].pc = "idle" /\ got'[t] = {} => got[t] \subseteq Present
  BY DEF FoundAlone
<1>1. CASE t # s
  <2>1. fetch'[t] = fetch[t] /\ got'[t] = got[t]
    BY <1>1, OthersGoOn
  <2> QED BY <2>1
<1>2. ASSUME t = s, fetch[t].pc # "idle", fetch'[t].pc = "idle", got'[t] # {}
      PROVE  /\ fetch[t].name \in Present'
             /\ fetch[t].pc = "unlink" => Cardinality(Present') <= CacheFiles
  <2>1. Solo(t) /\ SoloShape(t)
    BY <1>2 DEF Solo, SoloInv
  <2>2. ~ Raises(t)
    BY <1>2, Typed DEF Raises
  <2>3. fetch \in [Threads -> Fetch] /\ fetch[t] \in Fetch
    BY Typed
  <2>4. Touch(t) \/ Answer(t)
    <3>1. \A u \in Urls : ~ Call(t, u)
      BY <1>2 DEF Call
    <3>2. ~ Write(t) /\ ~ List(t) /\ ~ Sort(t) /\ ~ Rename(t)
      BY <1>2, <2>3 DEF Write, List, Sort, Rename, Goto, Fetch
    <3>3. ~ Download(t)
      BY <1>2, <2>2, <2>3 DEF Download, Goto, Fetch
    <3>4. ~ Stat(t) /\ ~ Unlink(t)
      <4>1. Stat(t) => fetch'[t].pc = "stat"
        <5> SUFFICES ASSUME Stat(t) PROVE fetch'[t].pc = "stat"
          OBVIOUS
        <5>1. PICK n \in fetch[t].todo :
                fetch' = [fetch EXCEPT ![t].todo = @ \ {n}, ![t].seen[n] = files[n].at]
          BY <2>2 DEF Stat
        <5>2. fetch'[t].pc = fetch[t].pc
          BY <2>3, <5>1 DEF Fetch
        <5> QED BY <5>2 DEF Stat
      <4>2. Unlink(t) => fetch'[t].pc = "unlink"
        BY <2>3 DEF Unlink, Fetch
      <4> QED BY <1>2, <4>1, <4>2
    <3>5. ~ DiskFails(t) /\ ~ StartPlaylist(t)
      BY <1>2, <2>2 DEF DiskFails, StartPlaylist
    <3> QED BY <1>2, <3>1, <3>2, <3>3, <3>4, <3>5 DEF Step
  <2>5. CASE Touch(t)
    <3>1. fetch[t].pc = "touch" /\ fetch[t].name \in Present /\ fetch[t].name \in Names
          /\ files' = [files EXCEPT ![fetch[t].name] = [at |-> clock, body |-> files[fetch[t].name].body]]
      BY <2>1, <2>5, Typed DEF Touch, Store, SoloShape
    <3>2. files'[fetch[t].name].body = files[fetch[t].name].body
      BY <3>1, Typed
    <3> QED BY <3>1, <3>2 DEF Present
  <2>6. CASE Answer(t)
    <3>1. /\ fetch[t].pc = "unlink" /\ fetch[t].todo = {} /\ files' = files
          /\ Newest(t) /\ RemovesStale(t) /\ fetch[t].seen \in [Names -> Nat]
      BY <2>1, <2>6, Typed DEF Answer, SoloShape
    <3>2. Present = {m \in Names : fetch[t].seen[m] # 0} \ Stale(fetch[t].seen)
      <4>1. \A m \in Names : m \in Present <=> fetch[t].seen[m] # 0 /\ m \notin Stale(fetch[t].seen)
        BY <3>1 DEF RemovesStale
      <4>2. Present \subseteq Names
        BY DEF Present
      <4> QED BY <4>1, <4>2
    <3>3. \A m, k \in Names : fetch[t].seen[m] = fetch[t].seen[k] /\ m # k => fetch[t].seen[m] = 0
      BY <3>1 DEF RemovesStale
    <3>4. Cardinality(Present) <= CacheFiles
      BY <3>1, <3>2, <3>3, FewStay
    <3>5. Present' = Present
      BY <3>1 DEF Present
    <3> QED BY <3>1, <3>4, <3>5 DEF Newest
  <2> QED BY <2>4, <2>5, <2>6
<1>3. ASSUME t = s, fetch[t].pc = "idle", got'[t] = {} PROVE got[t] \subseteq Present
  <2>1. CASE got[t] = {}
    BY <2>1
  <2>2. CASE got[t] # {}
    <3>1. Safe(t) /\ Needed(t) = got[t]
      BY <1>3, <2>2 DEF Solo, SoloInv, SoloShape, Needed
    <3>2. StartPlaylist(t)
      BY <1>3, <2>2 DEF Step, Call, Touch, Download, Write, DiskFails, Rename, List, Stat, Sort,
                        Unlink, Answer
    <3>3. Cardinality(got[t]) <= MaxItems
      BY <3>2 DEF StartPlaylist
    <3> QED BY <3>1, <3>3 DEF Safe
  <2> QED BY <2>1, <2>2
<1> QED BY <1>1, <1>2, <1>3

(* A kill ends every request. *)
LEMMA CrashSolo ==
  ASSUME Inv, SoloInv, Crash PROVE SoloInv' /\ \A t \in Threads : FoundAlone(t)
<1>1. \A t \in Threads : fetch'[t].pc = "idle" /\ got'[t] = {}
  BY DEF Crash, Idle
<1>2. SoloInv'
  BY <1>1 DEF SoloInv, Solo
<1>3. PICK s \in Threads : fetch[s].pc # "idle"
  BY DEF Crash
<1>4. ASSUME NEW t \in Threads, alone[t], fetch[t].pc = "idle" PROVE got[t] = {}
  <2>1. t # s /\ (Solo(t) => FALSE)
    BY <1>3, <1>4 DEF SoloInv, SoloShape
  <2> QED BY <1>4, <2>1 DEF Solo
<1> QED BY <1>1, <1>2, <1>4 DEF FoundAlone

(* Who fetches undisturbed (remote.py:42, 90-115, display_api.py:414-424): is
   answered with a file that is there, leaves at most CACHE_FILES behind, and starts
   its playlist with every image of it, whatever was left over or half done before. *)
THEOREM AloneFinds == Spec => AloneIsFound
<1> DEFINE I == PruneInv /\ SoloInv
           A == \A t \in Threads : FoundAlone(t)
<1>1. Init => I
  <2>1. Init => SoloInv
    BY DEF Init, SoloInv, Solo, Idle
  <2> QED BY <2>1, PruneInvHolds
<1>2. I /\ [Next]_vars => I'
  <2> SUFFICES ASSUME I, [Next]_vars PROVE SoloInv'
    BY PruneInvHolds
  <2>1. CASE UNCHANGED vars
    BY <2>1 DEF vars, SoloInv, Solo, SoloShape, Safe, Needed, Newest, SeesAll, RemovesStale, Present
  <2>2. CASE Crash
    BY <2>2, CrashSolo DEF PruneInv
  <2>3. ASSUME NEW t \in Threads, Step(t) PROVE SoloInv'
    BY <2>3, SoloStep DEF PruneInv
  <2> QED BY <2>1, <2>2, <2>3 DEF Next
<1>3. I /\ [Next]_vars => [A]_vars
  <2> SUFFICES ASSUME I, Next PROVE A
    OBVIOUS
  <2>1. CASE Crash
    BY <2>1, CrashSolo DEF PruneInv
  <2> QED BY <2>1, StepFinds DEF Next, PruneInv
<1>4. [][A]_vars => AloneIsFound
  BY PTL DEF AloneIsFound, FoundAlone
<1> QED BY <1>1, <1>2, <1>3, <1>4, PTL DEF Spec
=============================================================================
