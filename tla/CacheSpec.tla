----------------------------- MODULE CacheSpec -----------------------------
(* What a Cache (cache.go) promises to its callers, free of locks, flags and
   goroutines: it is created without a store, opens at most once, and once it
   is closed neither its contents nor its hit counter ever change again.     *)
EXTENDS Naturals

CONSTANT Keys

VARIABLES phase,      \* "new", "open" or "closed"
          content,    \* the keys the cache holds a value for
          hits        \* the hit counter of Stats

specVars == <<phase, content, hits>>

SpecInit ==
    /\ phase = "new"
    /\ content = {}
    /\ hits = 0

\* The first write opens the cache.
Open ==
    /\ phase = "new"
    /\ phase' = "open"
    /\ UNCHANGED <<content, hits>>

\* A write stores its key; the store may evict anything at the same time.
Write(k) ==
    /\ phase = "open"
    /\ content' \in SUBSET (content \cup {k})
    /\ UNCHANGED <<phase, hits>>

\* A hit is only ever counted for a key the open cache holds.
Hit(k) ==
    /\ phase = "open"
    /\ k \in content
    /\ hits' = hits + 1
    /\ UNCHANGED <<phase, content>>

Remove(k) ==
    /\ phase = "open"
    /\ content' = content \ {k}
    /\ UNCHANGED <<phase, hits>>

Wipe ==
    /\ phase = "open"
    /\ content' = {}
    /\ hits' = 0
    /\ UNCHANGED phase

\* Entries expire.
Lapse ==
    /\ phase = "open"
    /\ content' \in SUBSET content
    /\ UNCHANGED <<phase, hits>>

\* Closing drops the store with everything in it, and is final.
Shut ==
    /\ phase # "closed"
    /\ phase' = "closed"
    /\ content' = {}
    /\ UNCHANGED hits

SpecNext ==
    \/ Open
    \/ \E k \in Keys : Write(k) \/ Hit(k) \/ Remove(k)
    \/ Lapse \/ Wipe
    \/ Shut

CacheContract == SpecInit /\ [][SpecNext]_specVars
=============================================================================
