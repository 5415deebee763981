---------------------------- MODULE MemoryCache -----------------------------
(***************************************************************************)
(* MemoryCache of internal/cache/memory.go: an LRU cache with an entry     *)
(* limit (kept by the LRU library) and a memory limit (kept by memUsed).   *)
(*                                                                         *)
(* The library locks each of its operations; memUsed is an atomic counter; *)
(* nothing ties the two together.  The eviction callback onEvict runs      *)
(* after the library has released its lock, so removing an entry and       *)
(* giving back its bytes are two steps.                                    *)
(***************************************************************************)
EXTENDS Integers, Sequences, FiniteSets, SequencesExt, FiniteSetsExt

CONSTANTS
    Keys, Threads,
    NoKey,         \* placeholder where there is no key
    Prefixed,      \* the keys that DeleteByPrefix matches
    Sizes,         \* lengths of the stored values
    MaxEntries, MaxMemory

ASSUME CacheConstants ==
    /\ Prefixed \subseteq Keys /\ NoKey \notin Keys
    /\ Sizes \subseteq Nat \ {0} /\ Sizes # {} /\ IsFiniteSet(Sizes)
    /\ IsFiniteSet(Threads)
    /\ MaxEntries \in Nat \ {0}
    /\ MaxMemory \in Nat

VARIABLES
    order,     \* the keys held by the LRU list, least recently used first
    size,      \* length of the value of each held key
    memUsed,
    th,        \* each thread's position in its method
    overlapped \* history: some Clear ran while another method did

state == <<order, size, memUsed, th>>
vars == <<state, overlapped>>

\* A thread: where it is, the key and length it works on, the bytes its
\* pending onEvict calls give back, where it goes after them, and the keys
\* DeleteByPrefix has still to remove.
Idle == [pc |-> "idle", key |-> NoKey, len |-> 0,
         cb |-> 0, then |-> "idle", keys |-> {}]

\* A thread at its next position; a method that has ended leaves nothing.
At(r, p) == IF p = "idle" THEN Idle ELSE [r EXCEPT !.pc = p]

Held == ToSet(order)

\* The sum of f over D, counted unit by unit.
Total(f, D) == Cardinality(UNION {{d} \X (1 .. f[d]) : d \in D})
Bytes(K) == Total(size, K)

Positions == {"idle", "replace", "room", "evict", "account", "add",
              "callback", "expire", "removing", "zero"}

Places == [pc : Positions, key : Keys \cup {NoKey}, len : Sizes \cup {0},
           cb : Nat, then : Positions, keys : SUBSET Keys]

TypeOK ==
    /\ order \in Seq(Keys)
    /\ IsInjective(order)
    /\ size \in [Keys -> Sizes \cup {0}]
    /\ memUsed \in Int
    /\ th \in [Threads -> Places]

NewMemoryCache ==
    /\ order = <<>>
    /\ size = [k \in Keys |-> 0]
    /\ memUsed = 0

Init ==
    /\ NewMemoryCache
    /\ th = [t \in Threads |-> Idle]
    /\ overlapped = FALSE

-----------------------------------------------------------------------------
(* The LRU library (external), one locked operation each.                  *)

\* The keys that are gone from the list; the thread, now r, owes an onEvict for
\* their bytes and goes on at position p afterwards.
LruGone(t, r, gone, p) ==
    /\ size' = [k \in Keys |-> IF k \in gone THEN 0 ELSE size[k]]
    /\ th' = [th EXCEPT ![t] =
                 IF gone = {} THEN At(r, p)
                 ELSE [r EXCEPT !.pc = "callback", !.cb = Bytes(gone),
                                !.then = p]]

Without(k) ==
    IF k \in Held THEN RemoveAt(order, CHOOSE i \in DOMAIN order : order[i] = k)
    ELSE order

LruRemove(t, r, k, p) == order' = Without(k) /\ LruGone(t, r, {k} \cap Held, p)

\* RemoveOldest, which does nothing on an emptied list.
LruRemoveOldest(t, r, p) ==
    IF order = <<>> THEN UNCHANGED order /\ LruGone(t, r, {}, p)
    ELSE order' = Tail(order) /\ LruGone(t, r, {Head(order)}, p)

LruPurge(t, r, p) == order' = <<>> /\ LruGone(t, r, Held, p)

\* A read makes the key the most recently used one.
LruTouch(k) == order' = Append(Without(k), k)

\* Add replaces the value of a held key without calling onEvict; for a new
\* key it evicts the oldest entry if the list has become too long.
LruAdd(t, k, n) ==
    LET evicts == k \notin Held /\ Len(order) = MaxEntries
        old == Head(order)
    IN
    /\ order' = Append(IF evicts THEN Tail(order) ELSE Without(k), k)
    /\ size' = [j \in Keys |-> IF j = k THEN n
                               ELSE IF evicts /\ j = old THEN 0 ELSE size[j]]
    /\ th' = [th EXCEPT ![t] = IF evicts
                THEN [Idle EXCEPT !.pc = "callback", !.cb = size[old]]
                ELSE Idle]

-----------------------------------------------------------------------------
(* onEvict.                                                                *)

\* Mutant: the bytes of an evicted entry are not given back.
OnEvict_Forgets(t) ==
    /\ th[t].pc = "callback"
    /\ th' = [th EXCEPT ![t] =
                 At([@ EXCEPT !.cb = 0, !.then = "idle"], th[t].then)]
    /\ UNCHANGED <<order, size, memUsed>>

OnEvict(t) ==
    /\ th[t].pc = "callback"
    /\ memUsed' = memUsed - th[t].cb
    /\ th' = [th EXCEPT ![t] =
                 At([@ EXCEPT !.cb = 0, !.then = "idle"], th[t].then)]
    /\ UNCHANGED <<order, size>>

-----------------------------------------------------------------------------
(* Set.  The cache layer calls it inside singleflight, so no two threads   *)
(* set the same key at the same time.                                      *)

Sets(r) ==
    \/ r.pc \in {"replace", "room", "evict", "account", "add"}
    \/ r.then = "room"

Setting(t, k) == th[t].key = k /\ Sets(th[t])

\* Peek at the key; a held one is removed first.
SetStarts(t, k, n) ==
    /\ th[t] = Idle
    /\ \A u \in Threads : ~Setting(u, k)
    /\ th' = [th EXCEPT ![t].pc = IF k \in Held THEN "replace" ELSE "room",
                        ![t].key = k, ![t].len = n]
    /\ UNCHANGED <<order, size, memUsed>>

SetReplaces(t) ==
    /\ th[t].pc = "replace"
    /\ LruRemove(t, th[t], th[t].key, "room")
    /\ UNCHANGED memUsed

\* Mutant: the new entry's own length is left out of the check.
SetChecksRoom_IgnoresLength(t) ==
    /\ th[t].pc = "room"
    /\ th' = [th EXCEPT ![t].pc =
                 IF memUsed > MaxMemory /\ order # <<>>
                 THEN "evict" ELSE "account"]
    /\ UNCHANGED <<order, size, memUsed>>

\* The condition of the eviction loop.
SetChecksRoom(t) ==
    /\ th[t].pc = "room"
    /\ th' = [th EXCEPT ![t].pc =
                 IF memUsed + th[t].len > MaxMemory /\ order # <<>>
                 THEN "evict" ELSE "account"]
    /\ UNCHANGED <<order, size, memUsed>>

SetEvicts(t) ==
    /\ th[t].pc = "evict"
    /\ LruRemoveOldest(t, th[t], "room")
    /\ UNCHANGED memUsed

SetAccounts(t) ==
    /\ th[t].pc = "account"
    /\ memUsed' = memUsed + th[t].len
    /\ th' = [th EXCEPT ![t].pc = "add"]
    /\ UNCHANGED <<order, size>>

SetAdds(t) ==
    /\ th[t].pc = "add"
    /\ LruAdd(t, th[t].key, th[t].len)
    /\ UNCHANGED memUsed

-----------------------------------------------------------------------------
(* Get, Delete, DeleteByPrefix and Clear.                                  *)

\* A hit, or an entry whose ExpiresAt has passed, which the next step removes:
\* how long an entry lives is left open.  A miss changes nothing.
Get(t, k) ==
    /\ th[t] = Idle
    /\ k \in Held
    /\ LruTouch(k)
    /\ \/ UNCHANGED th
       \/ th' = [th EXCEPT ![t].pc = "expire", ![t].key = k]
    /\ UNCHANGED <<size, memUsed>>

\* Remove of whatever the key holds by now, expired or not.
GetRemovesExpired(t) ==
    /\ th[t].pc = "expire"
    /\ LruRemove(t, th[t], th[t].key, "idle")
    /\ UNCHANGED memUsed

Delete(t, k) ==
    /\ th[t] = Idle
    /\ k \in Held
    /\ LruRemove(t, th[t], k, "idle")
    /\ UNCHANGED memUsed

\* DeleteByPrefix works on the keys it saw when it began.
DeleteByPrefixStarts(t) ==
    /\ th[t] = Idle
    /\ Held \cap Prefixed # {}
    /\ th' = [th EXCEPT ![t].pc = "removing", ![t].keys = Held \cap Prefixed]
    /\ UNCHANGED <<order, size, memUsed>>

DeleteByPrefixRemoves(t, k) ==
    /\ th[t].pc = "removing"
    /\ k \in th[t].keys
    /\ LruRemove(t, [th[t] EXCEPT !.keys = @ \ {k}], k,
                 IF th[t].keys = {k} THEN "idle" ELSE "removing")
    /\ UNCHANGED memUsed

\* Clear: Purge, whose callbacks (one per entry, after the library's unlock)
\* are one OnEvict of all the bytes here, then memUsed.Store(0).
ClearPurges(t) ==
    /\ th[t] = Idle
    /\ LruPurge(t, th[t], "zero")
    /\ UNCHANGED memUsed

ClearZeroes(t) ==
    /\ th[t].pc = "zero"
    /\ memUsed' = 0
    /\ th' = [th EXCEPT ![t] = Idle]
    /\ UNCHANGED <<order, size>>

-----------------------------------------------------------------------------
ThreadStep(t) ==
    \/ \E k \in Keys :
          \/ \E n \in Sizes : SetStarts(t, k, n)
          \/ Get(t, k)
          \/ Delete(t, k)
          \/ DeleteByPrefixRemoves(t, k)
    \/ SetReplaces(t)
    \/ SetChecksRoom(t)
    \/ SetEvicts(t)
    \/ SetAccounts(t)
    \/ SetAdds(t)
    \/ OnEvict(t)
    \/ GetRemovesExpired(t)
    \/ DeleteByPrefixStarts(t)
    \/ ClearPurges(t)
    \/ ClearZeroes(t)

Clears(r) == r.pc = "zero" \/ r.then = "zero"

\* Some thread is in Clear and another one in any method.
ClearOverlaps ==
    \E t, u \in Threads :
        t # u /\ th[u] # Idle /\ Clears(th[t])

Next ==
    /\ \E t \in Threads : ThreadStep(t)
    /\ overlapped' = (overlapped \/ ClearOverlaps')

Spec == Init /\ [][Next]_vars

-----------------------------------------------------------------------------
(* Properties.                                                             *)

Quiet == \A t \in Threads : th[t] = Idle

\* "Memory tracking uses the stored []byte length": once no method is under
\* way, memUsed is the sum of the lengths held, whatever insertions,
\* replacements, evictions, expiries and deletions overlapped before, and
\* whatever Clear did while nobody else used the cache.  (A Clear that overlaps
\* a Set zeroes memUsed after the Set has added to it.)
MemUsedIsExact == Quiet /\ ~overlapped => memUsed = Bytes(Held)

\* What several threads may hold together.
Allowance == MaxMemory + (Cardinality(Threads) - 1) * Max(Sizes)

\* A value longer than the limit is stored all the same, in a cache emptied
\* for it.
ValuesFit == \A n \in Sizes : n <= MaxMemory

\* "It enforces dual limits": the memory limit.  Set looks for room before it
\* takes it, so each thread but one can be an entry over the limit.
MemoryBounded ==
    ValuesFit /\ ~overlapped => Bytes(Held) <= Allowance

\* "It enforces dual limits": the entry limit, at every moment.
WithinEntries == Len(order) <= MaxEntries

\* "It enforces dual limits: max entries and max memory size."
DualLimits == WithinEntries /\ MemoryBounded

-----------------------------------------------------------------------------
(* Inductive invariant                                                     *)

\* What a thread's position says of its variables.
Fits(r) ==
    /\ Sets(r) => r.key \in Keys /\ r.len \in Sizes
    /\ r.pc # "callback" => r.cb = 0 /\ r.then = "idle"
    /\ r.pc = "callback" => r.then \in {"idle", "room", "removing", "zero"}
    /\ r.pc = "expire" => r.key \in Keys
    /\ r.then # "zero" => r.cb <= Max(Sizes)

ThreadsFit == \A t \in Threads : Fits(th[t])

\* Only one thread sets a key, and while it does nobody else puts it in.
SetsApart ==
    /\ \A t, u \in Threads : Sets(th[t]) /\ Setting(u, th[t].key) => t = u
    /\ \A t \in Threads : Sets(th[t]) /\ th[t].pc # "replace" => th[t].key \notin Held

\* While nobody else uses the cache, Clear leaves nothing in it.
ClearAlone ==
    ~overlapped =>
        /\ ~ClearOverlaps
        /\ \A t \in Threads : Clears(th[t]) => order = <<>>

\* What a thread will add to memUsed, and how much of memUsed, then, stands for
\* no entry of the list: what it has still to put in or to give back.
Promise(r) == IF r.pc = "account" THEN r.len ELSE 0
Due(r) == IF r.pc \in {"account", "add"} THEN r.len ELSE r.cb
promised == [t \in Threads |-> Promise(th[t])]
due == [t \in Threads |-> Due(th[t])]

Accounted ==
    ~overlapped =>
        memUsed + Total(promised, Threads) = Bytes(Held) + Total(due, Threads)

Allowed ==
    ~overlapped /\ ValuesFit => memUsed + Total(promised, Threads) <= Allowance

MemoryInv ==
    /\ TypeOK /\ ThreadsFit /\ SetsApart /\ ClearAlone /\ Accounted /\ Allowed
    /\ WithinEntries
=============================================================================
