----------------------------- MODULE SessionCache -----------------------------
(***************************************************************************)
(* Dispatcher._sessions: the LRU and TTL cache of session states, used     *)
(* without a lock by the dispatch threads of all users.  The interpreter   *)
(* may switch threads between two operations of the OrderedDict, and an    *)
(* iteration over it fails if another thread adds or removes a key         *)
(* meanwhile.  A user has at most one turn at a time (MessageLoop).        *)
(*                                                                         *)
(* The cached state is left out, an entry is its key.  Its age is the fact *)
(* that it is older than SESSION_TTL_SECONDS.                              *)
(***************************************************************************)
EXTENDS Naturals, Sequences, FiniteSets, SequencesExt

CONSTANTS Users,
          MAX_SESSIONS,  \* config.ADV_MAX_SESSIONS
          Threads,       \* bound: turns under way at the same time
          MaxTurns       \* bound: turns altogether

ASSUME CacheAssumption == /\ MAX_SESSIONS \in Nat \ {0} /\ Threads \in Nat \ {0}
                          /\ MaxTurns \in Nat /\ IsFiniteSet(Users)

VARIABLES
    order,    \* keys of _sessions, oldest first
    old,      \* keys whose entry is older than the TTL
    pc,       \* per user, where its thread is
    expired,  \* per user, the local list `expired`
    hit,      \* users iterating over _sessions while it changed
    turns,    \* turns started
    failed,   \* history: users whose turn died of a KeyError or RuntimeError
    seen      \* history: "race" if turns overlapped, "resume" if a prompt was answered

vars == <<order, old, pc, expired, hit, turns, failed, seen>>

Cached == Range(order)
\* _sessions without a key that is there.
Without(k) == RemoveAt(order, CHOOSE i \in DOMAIN order : order[i] = k)

Active == {u \in Users : pc[u] # "idle"}

\* A key is added or removed: iterations under way will notice.
Disturb == hit' = hit \cup {u \in Users : pc[u] = "scan"}

Fail(u) == /\ failed' = failed \cup {u}
           /\ pc' = [pc EXCEPT ![u] = "idle"]

Init ==
    /\ order = <<>> /\ old = {} /\ pc = [u \in Users |-> "idle"]
    /\ expired = [u \in Users |-> {}] /\ hit = {} /\ turns = 0
    /\ failed = {} /\ seen = {}

\* An entry passes the TTL.
Age == /\ old' \in {old \cup {u} : u \in Cached \ old}
       /\ UNCHANGED <<order, pc, expired, hit, turns, failed, seen>>
-----------------------------------------------------------------------------
\* handle_message begins: `if uid in self._sessions`, or a reply to a prompt,
\* which does not look its session up.
Begin(u) ==
    /\ pc[u] = "idle" /\ Cardinality(Active) < Threads /\ turns < MaxTurns
    /\ turns' = turns + 1
    /\ LET race == IF Active = {} THEN {} ELSE {"race"} IN
       \/ /\ pc' = [pc EXCEPT ![u] = IF u \in Cached THEN "pop" ELSE "scan"]
          /\ seen' = seen \cup race
       \/ /\ pc' = [pc EXCEPT ![u] = "turn"]
          /\ seen' = seen \cup race \cup {"resume"}
    /\ UNCHANGED <<order, old, expired, hit, failed>>

\* self._sessions.pop(uid): the key may be gone by now.
Pop(u) ==
    /\ pc[u] = "pop"
    /\ IF u \in Cached
       THEN /\ order' = Without(u) /\ old' = old \ {u}
            /\ pc' = [pc EXCEPT ![u] = "put"]
            /\ Disturb /\ UNCHANGED failed
       ELSE Fail(u) /\ UNCHANGED <<order, old, hit>>
    /\ UNCHANGED <<expired, turns, seen>>

\* Mutant of Scan: entries are deleted inside the iteration.
ScanAndDelete(u) ==
    /\ pc[u] = "scan"
    /\ IF old \cap Cached # {}
       THEN /\ Fail(u) /\ old' = {} /\ order' = SelectSeq(order, LAMBDA k : k \notin old)
            /\ UNCHANGED expired
       ELSE /\ expired' = [expired EXCEPT ![u] = {}]
            /\ pc' = [pc EXCEPT ![u] = "expire"]
            /\ UNCHANGED <<failed, old, order>>
    /\ hit' = hit \ {u}
    /\ UNCHANGED <<turns, seen>>

\* The list of expired keys is complete, unless the dict changed meanwhile.
Scan(u) ==
    /\ pc[u] = "scan"
    /\ IF u \in hit
       THEN Fail(u) /\ UNCHANGED expired
       ELSE /\ expired' = [expired EXCEPT ![u] = old \cap Cached]
            /\ pc' = [pc EXCEPT ![u] = "expire"]
            /\ UNCHANGED failed
    /\ hit' = hit \ {u}
    /\ UNCHANGED <<order, old, turns, seen>>

\* for k in expired: del self._sessions[k]
Expire(u) ==
    /\ pc[u] = "expire" /\ expired[u] # {}
    /\ \E k \in expired[u] :
          IF k \in Cached
          THEN /\ order' = Without(k) /\ old' = old \ {k}
               /\ expired' = [expired EXCEPT ![u] = @ \ {k}]
               /\ Disturb /\ UNCHANGED <<pc, failed, seen>>
          ELSE /\ Fail(u) /\ expired' = [expired EXCEPT ![u] = {}]
               /\ UNCHANGED <<order, old, hit>>
    /\ UNCHANGED <<turns, seen>>

\* Mutant of Trim: one session more than allowed is kept.
TrimOneTooFew(u) ==
    /\ pc[u] = "expire" /\ expired[u] = {}
    /\ pc' = [pc EXCEPT ![u] = IF Len(order) > MAX_SESSIONS THEN "evict" ELSE "put"]
    /\ UNCHANGED <<order, old, expired, hit, turns, failed, seen>>

\* while len(self._sessions) >= MAX_SESSIONS
Trim(u) ==
    /\ pc[u] = "expire" /\ expired[u] = {}
    /\ pc' = [pc EXCEPT ![u] = IF Len(order) >= MAX_SESSIONS THEN "evict" ELSE "put"]
    /\ UNCHANGED <<order, old, expired, hit, turns, failed, seen>>

\* self._sessions.popitem(last=False): the dict may be empty by now.
Evict(u) ==
    /\ pc[u] = "evict"
    /\ IF order # <<>>
       THEN /\ order' = Tail(order) /\ old' = old \ {Head(order)}
            /\ pc' = [pc EXCEPT ![u] = "expire"]
            /\ Disturb /\ UNCHANGED failed
       ELSE Fail(u) /\ UNCHANGED <<order, old, hit>>
    /\ UNCHANGED <<expired, turns, seen>>

\* The entry goes to the end of the dict; then the graph runs.
Put(u) ==
    /\ pc[u] = "put"
    /\ order' = Append(order, u)
    /\ pc' = [pc EXCEPT ![u] = "turn"]
    /\ Disturb
    /\ UNCHANGED <<old, expired, turns, failed, seen>>

\* _save_state: an entry still there keeps its place, one evicted during the
\* turn comes back at the end, without regard to MAX_SESSIONS.
Save(u) ==
    /\ pc[u] = "turn"
    /\ old' = old \ {u}
    /\ IF u \in Cached THEN UNCHANGED <<order, hit>>
       ELSE /\ order' = Append(order, u)
            /\ Disturb
    /\ pc' = [pc EXCEPT ![u] = "idle"]
    /\ UNCHANGED <<expired, turns, failed, seen>>

Step(u) == \/ Begin(u) \/ Pop(u) \/ Scan(u) \/ Expire(u) \/ Trim(u) \/ Evict(u)
           \/ Put(u) \/ Save(u)

Next == Age \/ \E u \in Users : Step(u)

Spec == Init /\ [][Next]_vars
-----------------------------------------------------------------------------
(* Properties.                                                             *)

\* Types; a key occurs once in the dict.
TypeOK ==
    /\ order \in Seq(Users) /\ IsInjective(order) /\ old \subseteq Cached
    /\ pc \in [Users -> {"idle", "pop", "scan", "expire", "evict", "put", "turn"}]
    /\ expired \in [Users -> SUBSET Users] /\ hit \subseteq {u \in Users : pc[u] = "scan"}
    /\ turns \in 0..MaxTurns
    /\ failed \subseteq Users /\ seen \subseteq {"race", "resume"}

\* Web console: max_sessions is "同时允许的最大会话数", the largest number of
\* sessions at a time.  It is kept by turns that do not overlap and do not
\* resume a session evicted meanwhile.
AtMostMaxSessions == seen = {} => Len(order) <= MAX_SESSIONS

\* Races between the turns under way can exceed the limit only by one entry
\* per other turn, never accumulate (get's check against put and save).
OvershootBounded == "resume" \notin seen => Len(order) <= MAX_SESSIONS + Threads - 1

\* How many sessions there are, by what the turns did.
SessionsBounded == AtMostMaxSessions /\ OvershootBounded

\* No turn dies in the cache unless turns overlap: a key seen is there when it is
\* used, and no iteration runs into a change.
NoTurnFails == "race" \notin seen => failed = {}

=============================================================================
